------------------------ MODULE OrderedEconomicsProofs ------------------------
(***************************************************************************)
(* For every validator set, every set of candidates and every number of    *)
(* views: the rows of an honest replica keep their types, it never signs   *)
(* two blocks in a view, and its votes implement SafeVotingSpec, so that   *)
(* the theorems about SafeVoting hold of the network of replicas.  What it *)
(* commits is one chain, and the row it persists is one it loads again     *)
(* unless it sees a fork of that chain.                                    *)
(***************************************************************************)
EXTENDS OrderedEconomics, SafeVotingProofs

(***************************************************************************)
(* The inductive invariant.  The type invariant alone is not inductive: a  *)
(* handler overflows no view because the certificates it holds are for     *)
(* views it has left.  That a replica's votes keep the promise follows     *)
(* from where they are relative to its last vote and its lock.             *)
(***************************************************************************)
RecordsAreProposals ==
    /\ \A r \in Honest : leaderRecord[r] \cup voteRecord[r] \cup drafts[r] \subseteq Proposal
    /\ proposals \subseteq Proposal

StatesBehind == \A r \in Honest : CertificatesPast(state[r])

LeadsOwnViews ==
    \A r \in Honest : \A b \in drafts[r] \cup leaderRecord[r] : Leader(View(b)) = r

VotesBehindLock ==
    \A r \in Honest : \A x \in voteRecord[r] :
        /\ View(x) <= View(state[r].lastVoted)
        /\ View(Lock(x)) <= View(state[r].lockedQC)

IInv ==
    /\ TypeOK
    /\ RecordsAreProposals
    /\ StatesBehind
    /\ LeadsOwnViews
    /\ NoEquivocation
    /\ VotesBehindLock

-------------------------------------------------------------------------------
(***************************************************************************)
(* Blocks and candidates.                                                  *)
(***************************************************************************)
\* Facts about natural numbers.
LEMMA AtMost ==
    ASSUME NEW i \in Nat, NEW j \in Nat, NEW k \in Nat, i <= j, j <= k
    PROVE  i <= k
  OBVIOUS

LEMMA ZeroAtMost ==
    ASSUME NEW i \in Nat
    PROVE  0 <= i /\ i <= i
  OBVIOUS

LEMMA Below ==
    ASSUME NEW i \in Nat, NEW j \in Nat, NEW k \in Nat, i <= j, j < k
    PROVE  i < k /\ i <= k
  OBVIOUS

Candidate == Tx \cup {NoTx}

LEMMA TxOfProposal ==
    ASSUME NEW b \in Proposal
    PROVE  TxOf(b) \in Candidate
PROOF
  <1>1. b \in Block /\ b # Genesis
    BY Zenon DEF Proposal
  <1>2. Len(b) \in 1..Height(b)
    BY <1>1, BlockType DEF Height
  <1>3. b[Len(b)] \in Header
    BY Zenon, <1>1, <1>2, BlockType
  <1> QED BY Zenon, <1>3 DEF TxOf, Header, Candidate

\* propose builds a block of the current view.
LEMMA ProposalOnType ==
    ASSUME NEW s \in ConsensusState, View(s.highQC) < s.currentView, NEW tx \in Candidate
    PROVE  /\ ProposalOn(s, tx) \in Proposal
           /\ View(ProposalOn(s, tx)) = s.currentView
PROOF
  <1> DEFINE q == s.highQC
             h == [view |-> s.currentView, tx |-> tx]
             b == ProposalOn(s, tx)
  <1>1. q \in Block /\ s.currentView \in 1..MaxView
    BY Zenon DEF ConsensusState
  <1>2. h \in Header /\ h.view = s.currentView
    BY Zenon, <1>1 DEF Header, Candidate
  <1>3. q \in Seq(Header) /\ Len(q) \in Nat
    BY <1>1 DEF Block
  <1>4. b = Append(q, h)
    BY Zenon DEF ProposalOn
  <1> HIDE DEF h, b
  <1>5. /\ b \in Seq(Header) /\ Len(b) = Len(q) + 1
        /\ \A i \in 1..Len(q) : b[i] = q[i]
        /\ b[Len(q) + 1] = h
    BY <1>2, <1>3, <1>4
  <1>6. b # Genesis /\ View(b) = s.currentView
    BY <1>2, <1>3, <1>5 DEF Genesis, View
  <1>7. \A i \in 1..Len(q) : q[i].view \in Nat /\ q[i].view < s.currentView
    <2> SUFFICES ASSUME NEW i \in 1..Len(q)
                 PROVE  q[i].view \in Nat /\ q[i].view < s.currentView
      BY Zenon
    <2>1. q # Genesis /\ Len(q) \in 1..Len(q)
      BY <1>3 DEF Genesis
    <2>2. View(q) = q[Len(q)].view
      BY Zenon, <2>1 DEF View
    <2>3. /\ q[i] \in Header /\ q[Len(q)] \in Header
      BY <1>3, <2>1
    <2>4. q[i].view \in Nat /\ q[Len(q)].view \in Nat
      BY <2>3, ChainedHotStuffAssumption DEF Header
    <2>5. q[i].view <= q[Len(q)].view
      BY <1>1, <1>3, <2>1, <2>4 DEF Block
    <2> QED BY <1>1, <2>2, <2>4, <2>5, ChainedHotStuffAssumption
  <1>8. \A i, j \in 1..Len(b) : i < j => b[i].view < b[j].view
    <2> SUFFICES ASSUME NEW i \in 1..Len(b), NEW j \in 1..Len(b), i < j
                 PROVE  b[i].view < b[j].view
      BY Zenon
    <2>1. i \in 1..Len(q) /\ b[i] = q[i]
      BY <1>3, <1>5
    <2>2. CASE j = Len(q) + 1
      BY Zenon, <1>2, <1>5, <1>7, <2>1, <2>2
    <2>3. CASE j # Len(q) + 1
      <3>1. j \in 1..Len(q) /\ b[j] = q[j]
        BY <1>3, <1>5, <2>3
      <3> QED BY Zenon, <1>1, <2>1, <3>1 DEF Block
    <2> QED BY Zenon, <2>2, <2>3
  <1> QED BY Zenon, <1>5, <1>6, <1>8 DEF Block, Proposal, b

\* A certificate that verifies is one the votes on record allow.
LEMMA CertifiedIsCertifiable ==
    ASSUME IInv, NEW b, Certified(b)
    PROVE  Certifiable(b)
PROOF
  <1> DEFINE T == {v \in Honest : b \in voteRecord[v]} \cup Faulty
  <1>1. Voters(b) \subseteq T /\ T \in SUBSET Validator
    BY Zenon, SafeVotingAssumption DEF Voters, IInv, NoEquivocation, Honest
  <1>2. Voters(b) \in Quorum => T \in Quorum
    BY Zenon, <1>1, QuorumMonotone
  <1> QED BY Zenon, <1>2 DEF Certified, Certifiable

-------------------------------------------------------------------------------
(***************************************************************************)
(* The rows that an event writes.                                          *)
(***************************************************************************)
LEMMA WithHeaderType ==
    ASSUME TypeOK, NEW r \in Honest, NEW tx \in Candidate
    PROVE  WithHeader(r, tx) \in [Honest -> [Request -> Tx \cup {NoTx}]]
PROOF
  <1>1. header \in [Honest -> [Request -> Tx \cup {NoTx}]]
    BY Zenon DEF TypeOK
  <1>2. CASE tx = NoTx
    BY Zenon, <1>1, <1>2 DEF WithHeader
  <1>3. CASE tx # NoTx
    <2>1. RequestOf[tx] \in Request
      BY Zenon, <1>3, OrderedEconomicsAssumption DEF Candidate
    <2> QED BY Zenon, <1>1, <1>3, <2>1 DEF WithHeader, Candidate
  <1> QED BY Zenon, <1>2, <1>3

Locks == [Honest -> [Sender -> Request \cup {NoRequest}]]

LEMMA WithReservationType ==
    ASSUME TypeOK, NEW r \in Honest, NEW tx \in Candidate
    PROVE  WithReservation(r, tx) \in Locks
PROOF
  <1>1. nonceLock \in Locks
    BY Zenon DEF TypeOK, Locks
  <1>2. CASE ~Reserves(tx)
    BY Zenon, <1>1, <1>2 DEF WithReservation
  <1>3. CASE Reserves(tx)
    <2>1. SenderOf[tx] \in Sender /\ RequestOf[tx] \in Request
      BY Zenon, <1>3, OrderedEconomicsAssumption DEF Reserves, Candidate
    <2> QED BY Zenon, <1>1, <1>3, <2>1 DEF WithReservation, Locks
  <1> QED BY Zenon, <1>2, <1>3

LEMMA ReleasedType ==
    ASSUME NEW r \in Honest, NEW o, NEW locks \in Locks
    PROVE  Released(r, o, locks) \in Locks
PROOF
  <1> DEFINE freed(s) == \E tx \in FirstCompleted(r, o) :
                            Reserves(tx) /\ SenderOf[tx] = s /\ LockHolder(r, tx) = RequestOf[tx]
             row == [s \in Sender |-> IF freed(s) THEN NoRequest ELSE locks[r][s]]
  <1>1. locks[r] \in [Sender -> Request \cup {NoRequest}]
    BY Zenon DEF Locks
  <1>2. row \in [Sender -> Request \cup {NoRequest}]
    <2> HIDE DEF freed
    <2> QED BY Zenon, <1>1
  <1>3. Released(r, o, locks) = [locks EXCEPT ![r] = row]
    BY Zenon DEF Released
  <1> HIDE DEF row
  <1> QED BY Zenon, <1>2, <1>3 DEF Locks

LEMMA NewOutcomesType ==
    ASSUME NEW r \in Honest, NEW o \in EngineOutput
    PROVE  NewOutcomes(r, o) \in Seq(Outcome)
PROOF
  <1> DEFINE fresh == FirstCompleted(r, o)
             tx == CHOOSE t \in fresh : TRUE
  <1>1. fresh \subseteq Tx
    <2> SUFFICES ASSUME NEW b \in o.newly, TxOf(b) # NoTx
                 PROVE  TxOf(b) \in Tx
      BY Zenon DEF FirstCompleted, Economic
    <2> QED BY Zenon, TxOfProposal DEF EngineOutput, Proposal, Candidate
  <1>2. CASE fresh = {}
    BY <1>2 DEF NewOutcomes
  <1>3. CASE fresh # {}
    <2>1. tx \in Tx
      BY Zenon, <1>1, <1>3
    <2>2. (~Refuses(r, tx)) \in BOOLEAN
      BY Zenon DEF Refuses
    <2>3. NewOutcomes(r, o) = << [tx |-> tx, accepted |-> ~Refuses(r, tx)] >>
      BY Zenon, <1>3 DEF NewOutcomes
    <2> HIDE DEF tx
    <2>4. [tx |-> tx, accepted |-> ~Refuses(r, tx)] \in Outcome
      BY Zenon, <2>1, <2>2 DEF Outcome
    <2> QED BY <2>3, <2>4
  <1> QED BY Zenon, <1>2, <1>3

\* finalize_event writes rows of the right types.
EventRowsTyped ==
    /\ state' \in [Honest -> ConsensusState]
    /\ header' \in [Honest -> [Request -> Tx \cup {NoTx}]]
    /\ nonceLock' \in Locks
    /\ applied' \in [Honest -> Nat]
    /\ archive' \in [Honest -> SUBSET Block]
    /\ outcomes' \in [Honest -> Seq(Outcome)]

LEMMA FinalizeEventType ==
    ASSUME TypeOK, NEW r \in Honest, NEW o \in EngineOutput, NEW admitted \in Candidate,
           NEW reserving \in BOOLEAN, FinalizeEvent(r, o, admitted, reserving)
    PROVE  /\ EventRowsTyped
           /\ \A v \in Honest : state'[v] = IF v = r THEN o.state ELSE state[v]
PROOF
  <1>1. o.state \in ConsensusState /\ o.newly \subseteq Block
    BY Zenon DEF EngineOutput
  <1>2. state' = [state EXCEPT ![r] = o.state] /\ state \in [Honest -> ConsensusState]
    BY Zenon DEF FinalizeEvent, TypeOK
  <1>3. header' \in [Honest -> [Request -> Tx \cup {NoTx}]]
    BY Zenon, WithHeaderType DEF FinalizeEvent
  <1>4. nonceLock' \in Locks
    <2> DEFINE locks == IF reserving THEN WithReservation(r, admitted) ELSE nonceLock
    <2>1. locks \in Locks
      BY Zenon, WithReservationType DEF TypeOK, Locks
    <2>2. nonceLock' = Released(r, o, locks)
      BY Zenon DEF FinalizeEvent
    <2> HIDE DEF locks
    <2> QED BY Zenon, <2>1, <2>2, ReleasedType
  <1>5. applied' \in [Honest -> Nat]
    <2>1. NewAppliedHeight(r, o) \in Nat
      BY Zenon, <1>1 DEF NewAppliedHeight, TypeOK, ConsensusState
    <2> QED BY Zenon, <2>1 DEF FinalizeEvent, TypeOK
  <1>6. archive' \in [Honest -> SUBSET Block]
    BY Zenon, <1>1 DEF FinalizeEvent, TypeOK
  <1>7. outcomes' \in [Honest -> Seq(Outcome)]
    <2>1. outcomes \in [Honest -> Seq(Outcome)]
      BY Zenon DEF TypeOK
    <2>2. outcomes[r] \o NewOutcomes(r, o) \in Seq(Outcome)
      BY <2>1, NewOutcomesType
    <2>3. outcomes' = [outcomes EXCEPT ![r] = outcomes[r] \o NewOutcomes(r, o)]
      BY Zenon DEF FinalizeEvent
    <2> QED BY Zenon, <2>1, <2>2, <2>3
  <1>8. state' \in [Honest -> ConsensusState]
        /\ \A v \in Honest : state'[v] = IF v = r THEN o.state ELSE state[v]
    BY Zenon, <1>1, <1>2
  <1> QED BY Zenon, <1>3, <1>4, <1>5, <1>6, <1>7, <1>8 DEF EventRowsTyped

-------------------------------------------------------------------------------
(***************************************************************************)
(* The steps.                                                              *)
(***************************************************************************)
LEMMA InitIInv == Init => IInv
PROOF
  <1> SUFFICES ASSUME Init PROVE IInv
    BY Zenon
  <1>1. GenesisState \in ConsensusState /\ GenesisState.certificates = {}
    BY GenesisIsBlock, ChainedHotStuffAssumption DEF GenesisState, ConsensusState
  <1>2. TypeOK
    BY <1>1, ChainedHotStuffAssumption DEF Init, TypeOK
  <1>3. RecordsAreProposals /\ LeadsOwnViews /\ NoEquivocation /\ VotesBehindLock
    BY Zenon DEF Init, RecordsAreProposals, LeadsOwnViews, NoEquivocation, VotesBehindLock
  <1>4. StatesBehind
    BY Zenon, <1>1 DEF Init, StatesBehind, CertificatesPast
  <1> QED BY Zenon, <1>2, <1>3, <1>4 DEF IInv

\* An event that signs nothing: the records stay and the state advances.
LEMMA EventStep ==
    ASSUME IInv, NEW r \in Honest, NEW o, Preserves(state[r], o),
           o.state.lastVoted = state[r].lastVoted,
           NEW admitted \in Candidate, NEW reserving \in BOOLEAN,
           FinalizeEvent(r, o, admitted, reserving),
           UNCHANGED <<identityVars, networkVars>>
    PROVE  IInv'
PROOF
  <1>1. /\ o \in EngineOutput /\ CertificatesPast(o.state) /\ Advances(state[r], o.state)
    BY Zenon DEF Preserves
  <1>2. UNCHANGED <<leaderRecord, voteRecord, voteHigh, drafts, proposals, votes>>
    BY Zenon DEF identityVars, networkVars
  <1>3. /\ EventRowsTyped
        /\ \A v \in Honest : state'[v] = IF v = r THEN o.state ELSE state[v]
    BY Zenon, <1>1, FinalizeEventType DEF IInv
  <1>4. TypeOK'
    <2>1. /\ leaderRecord' \in [Honest -> SUBSET Block] /\ voteRecord' \in [Honest -> SUBSET Block]
          /\ voteHigh' \in [Honest -> 0..MaxView] /\ drafts' \in [Honest -> SUBSET Block]
          /\ proposals' \subseteq Block /\ votes' \in [Honest -> SUBSET Block]
      BY Zenon, <1>2 DEF IInv, TypeOK
    <2> QED BY Zenon, <1>3, <2>1 DEF TypeOK, EventRowsTyped, Locks
  <1>5. RecordsAreProposals' /\ LeadsOwnViews' /\ NoEquivocation'
    BY Zenon, <1>2 DEF IInv, RecordsAreProposals, LeadsOwnViews, NoEquivocation
  <1>6. StatesBehind'
    BY Zenon, <1>1, <1>3 DEF IInv, StatesBehind
  <1>7. VotesBehindLock'
    <2> SUFFICES ASSUME NEW v \in Honest, NEW x \in voteRecord[v]
                 PROVE  /\ View(x) <= View(state'[v].lastVoted)
                        /\ View(Lock(x)) <= View(state'[v].lockedQC)
      BY Zenon, <1>2 DEF VotesBehindLock
    <2>1. /\ View(x) <= View(state[v].lastVoted)
          /\ View(Lock(x)) <= View(state[v].lockedQC)
      BY Zenon DEF IInv, VotesBehindLock
    <2>2. CASE v # r
      BY Zenon, <1>3, <2>1, <2>2
    <2>3. CASE v = r
      <3>1. state'[v] = o.state
        BY Zenon, <1>3, <2>3
      <3>2. View(o.state.lockedQC) >= View(state[r].lockedQC)
        BY Zenon, <1>1 DEF Advances
      <3>3. state[r].lockedQC \in Block /\ o.state.lockedQC \in Block
        BY Zenon, <1>1 DEF IInv, TypeOK, ConsensusState, EngineOutput
      <3>4. x \in Proposal
        BY Zenon DEF IInv, RecordsAreProposals
      <3>5. /\ View(Lock(x)) \in Nat /\ View(state[r].lockedQC) \in Nat
            /\ View(o.state.lockedQC) \in Nat
        BY Zenon, <3>3, <3>4, ViewIsNat, ProposalViews
      <3> QED BY <2>1, <2>3, <3>1, <3>2, <3>5
    <2> QED BY Zenon, <2>2, <2>3
  <1> QED BY Zenon, <1>4, <1>5, <1>6, <1>7 DEF IInv

\* A fresh leader record: of the replica's own view, and the first of the view.
LEMMA RecordProposalStep ==
    ASSUME IInv, NEW r \in Honest, NEW b \in Proposal, Leader(View(b)) = r,
           NEW sent \in BOOLEAN, RecordProposal(r, b, sent),
           drafts' \in [Honest -> SUBSET Block],
           \A v \in Honest : drafts'[v] \subseteq drafts[v]
    PROVE  IInv'
PROOF
  <1>1. /\ UNCHANGED <<state, voteRecord, voteHigh, applied, archive, outcomes, votes>>
        /\ leaderRecord' = [leaderRecord EXCEPT ![r] = @ \cup {b}]
        /\ proposals \subseteq proposals' /\ proposals' \subseteq proposals \cup {b}
        /\ header' = WithHeader(r, TxOf(b)) /\ nonceLock' = WithReservation(r, TxOf(b))
        /\ \A p \in leaderRecord[r] : View(p) # View(b)
    BY Zenon DEF RecordProposal, LeaderIdentityFree
  <1>2. TxOf(b) \in Candidate /\ b \in Block
    BY Zenon, TxOfProposal DEF Proposal
  <1>3. TypeOK'
    <2>1. /\ header' \in [Honest -> [Request -> Tx \cup {NoTx}]]
          /\ nonceLock' \in [Honest -> [Sender -> Request \cup {NoRequest}]]
      BY Zenon, <1>1, <1>2, WithHeaderType, WithReservationType DEF IInv, Locks
    <2>2. /\ leaderRecord' \in [Honest -> SUBSET Block] /\ proposals' \subseteq Block
      <3>1. leaderRecord \in [Honest -> SUBSET Block] /\ proposals \subseteq Block
        BY Zenon DEF IInv, TypeOK
      <3>2. leaderRecord[r] \cup {b} \in SUBSET Block
        BY Zenon, <1>2, <3>1
      <3>3. leaderRecord' \in [Honest -> SUBSET Block]
        BY Zenon, <1>1, <3>1, <3>2
      <3>4. proposals' \subseteq Block
        BY Zenon, <1>1, <1>2, <3>1
      <3> QED BY Zenon, <3>3, <3>4
    <2> QED BY Zenon, <1>1, <2>1, <2>2 DEF IInv, TypeOK
  <1>4. \A v \in Honest : leaderRecord'[v] = IF v = r THEN leaderRecord[r] \cup {b}
                                                       ELSE leaderRecord[v]
    BY Zenon, <1>1 DEF IInv, TypeOK
  <1>5. RecordsAreProposals'
    <2>1. \A v \in Honest : leaderRecord[v] \cup voteRecord[v] \cup drafts[v] \subseteq Proposal
      BY Zenon DEF IInv, RecordsAreProposals
    <2>2. \A v \in Honest : leaderRecord'[v] \cup voteRecord'[v] \cup drafts'[v] \subseteq Proposal
      <3> TAKE v \in Honest
      <3>1. leaderRecord'[v] \subseteq leaderRecord[v] \cup {b}
        BY Zenon, <1>4
      <3>2. voteRecord'[v] = voteRecord[v] /\ drafts'[v] \subseteq drafts[v]
        BY Zenon, <1>1
      <3> QED BY Zenon, <2>1, <3>1, <3>2
    <2>3. proposals' \subseteq Proposal
      BY Zenon, <1>1 DEF IInv, RecordsAreProposals
    <2> QED BY Zenon, <2>2, <2>3 DEF RecordsAreProposals
  <1>6. LeadsOwnViews'
    <2> SUFFICES ASSUME NEW v \in Honest, NEW x \in drafts'[v] \cup leaderRecord'[v]
                 PROVE  Leader(View(x)) = v
      BY Zenon DEF LeadsOwnViews
    <2>1. x \in drafts[v] \cup leaderRecord[v] \/ (v = r /\ x = b)
      BY Zenon, <1>4
    <2> QED BY Zenon, <2>1 DEF IInv, LeadsOwnViews
  <1>7. NoEquivocation'
    <2>1. \A v \in Honest : \A x, y \in leaderRecord'[v] : View(x) = View(y) => x = y
      <3> TAKE v \in Honest
      <3>1. \A x, y \in leaderRecord[v] : View(x) = View(y) => x = y
        BY Zenon DEF IInv, NoEquivocation
      <3>2. \A p \in leaderRecord[r] : View(p) # View(b)
        BY Zenon, <1>1
      <3> QED BY Zenon, <1>4, <3>1, <3>2
    <2>2. \A v \in Honest : \A p \in proposals' : Leader(View(p)) = v => p \in leaderRecord'[v]
      <3> TAKE v \in Honest
      <3>1. \A p \in proposals : Leader(View(p)) = v => p \in leaderRecord[v]
        BY Zenon DEF IInv, NoEquivocation
      <3>2. \A p \in proposals' : p \in proposals \/ p = b
        BY Zenon, <1>1
      <3> QED BY Zenon, <1>4, <3>1, <3>2
    <2>3. \A v \in Honest :
              /\ \A x, y \in voteRecord'[v] : View(x) = View(y) => x = y
              /\ votes'[v] \subseteq voteRecord'[v]
      BY Zenon, <1>1 DEF IInv, NoEquivocation
    <2> QED BY Zenon, <2>1, <2>2, <2>3 DEF NoEquivocation
  <1>8. StatesBehind' /\ VotesBehindLock'
    BY Zenon, <1>1 DEF IInv, StatesBehind, VotesBehindLock
  <1> QED BY Zenon, <1>3, <1>5, <1>6, <1>7, <1>8 DEF IInv

\* What a replica may draft is a block of a view it leads.
LEMMA CanDraftProposal ==
    ASSUME IInv, NEW r \in Honest, NEW tx \in Candidate, CanDraft(r, tx)
    PROVE  /\ ProposalOn(state[r], tx) \in Proposal
           /\ Leader(View(ProposalOn(state[r], tx))) = r
PROOF
  <1>1. state[r] \in ConsensusState
    BY Zenon DEF IInv, TypeOK
  <1>2. View(state[r].highQC) < state[r].currentView /\ Leader(state[r].currentView) = r
    BY Zenon DEF CanDraft, Loaded, ValidState
  <1> QED BY Zenon, <1>1, <1>2, ProposalOnType

LEMMA LeadStep ==
    ASSUME IInv, NEW r \in Honest, Lead(r)
    PROVE  IInv'
PROOF
  <1>1. ASSUME NEW tx \in Candidate, Draft(r, tx) PROVE IInv'
    <2> DEFINE b == ProposalOn(state[r], tx)
    <2>1. b \in Proposal /\ Leader(View(b)) = r
      BY Zenon, <1>1, CanDraftProposal DEF Draft
    <2>2. /\ drafts' = [drafts EXCEPT ![r] = @ \cup {b}]
          /\ UNCHANGED <<state, leaderRecord, voteRecord, voteHigh, header, nonceLock,
                         applied, archive, outcomes, proposals, votes>>
      BY Zenon, <1>1 DEF Draft, identityVars, economicVars
    <2> HIDE DEF b
    <2>3. /\ drafts' \in [Honest -> SUBSET Block]
          /\ \A v \in Honest : drafts'[v] = IF v = r THEN drafts[r] \cup {b} ELSE drafts[v]
      BY Zenon, <2>1, <2>2 DEF IInv, TypeOK, Proposal
    <2>4. TypeOK'
      BY Zenon, <2>2, <2>3 DEF IInv, TypeOK
    <2>5. RecordsAreProposals'
      BY <2>1, <2>2, <2>3, Zenon DEF IInv, RecordsAreProposals
    <2>6. LeadsOwnViews'
      BY Zenon, <2>1, <2>2, <2>3 DEF IInv, LeadsOwnViews
    <2>7. NoEquivocation'
      BY Zenon, <2>2 DEF IInv, NoEquivocation
    <2>8. StatesBehind' /\ VotesBehindLock'
      BY Zenon, <2>2 DEF IInv, StatesBehind, VotesBehindLock
    <2> QED BY Zenon, <2>4, <2>5, <2>6, <2>7, <2>8 DEF IInv
  <1>2. ASSUME NEW sent \in Replies, Propose(r, sent) PROVE IInv'
    <2>1. sent \in BOOLEAN
      BY Zenon, OrderedEconomicsAssumption
    <2>2. ASSUME NEW b \in drafts[r], RecordProposal(r, b, sent),
                 drafts' = [drafts EXCEPT ![r] = @ \ {b}]
          PROVE  IInv'
      <3>1. b \in Proposal /\ Leader(View(b)) = r
        BY Zenon DEF IInv, RecordsAreProposals, LeadsOwnViews
      <3>2. drafts' \in [Honest -> SUBSET Block] /\ \A v \in Honest : drafts'[v] \subseteq drafts[v]
        BY Zenon, <2>2 DEF IInv, TypeOK
      <3> QED BY Zenon, <2>1, <2>2, <3>1, <3>2, RecordProposalStep
    <2>3. ASSUME NEW tx \in Candidate, CanDraft(r, tx), UNCHANGED drafts,
                 RecordProposal(r, ProposalOn(state[r], tx), sent)
          PROVE  IInv'
      <3>1. drafts' \in [Honest -> SUBSET Block] /\ \A v \in Honest : drafts'[v] \subseteq drafts[v]
        BY Zenon, <2>3 DEF IInv, TypeOK
      <3> QED BY Zenon, <2>1, <2>3, <3>1, CanDraftProposal, RecordProposalStep
    <2> QED BY Zenon, <1>2, <2>2, <2>3 DEF Propose, Candidate
  <1>3. ASSUME NEW b \in leaderRecord[r], ReproposeRetained(r, b) PROVE IInv'
    <2>1. b \in Proposal /\ Leader(View(b)) = r
      BY Zenon DEF IInv, RecordsAreProposals, LeadsOwnViews
    <2>2. /\ proposals' = proposals \cup {b}
          /\ UNCHANGED <<state, leaderRecord, voteRecord, voteHigh, header, nonceLock,
                         applied, archive, outcomes, drafts, votes>>
      BY Zenon, <1>3 DEF ReproposeRetained, identityVars, economicVars
    <2>3. TypeOK'
      BY Zenon, <2>1, <2>2 DEF IInv, TypeOK, Proposal
    <2>4. RecordsAreProposals'
      BY <2>1, <2>2, Zenon DEF IInv, RecordsAreProposals
    <2>5. NoEquivocation'
      BY Zenon, <2>1, <2>2 DEF IInv, NoEquivocation
    <2>6. StatesBehind' /\ VotesBehindLock' /\ LeadsOwnViews'
      BY Zenon, <2>2 DEF IInv, StatesBehind, VotesBehindLock, LeadsOwnViews
    <2> QED BY Zenon, <2>3, <2>4, <2>5, <2>6 DEF IInv
  <1> QED BY Zenon, <1>1, <1>2, <1>3 DEF Lead, Candidate

\* The readiness walk makes sure that the parent is known, so that its
\* certificate sets the lock.
LEMMA VoteReadyParent ==
    ASSUME NEW r \in Honest, NEW b \in Proposal, state[r] \in ConsensusState, VoteReady(r, b)
    PROVE  Justify(b) \in state[r].known \/ View(Lock(b)) = 0
PROOF
  <1> DEFINE top == Height(b) - 1
             committedHeight == state[r].committedHeight
             low == IF committedHeight < top THEN committedHeight ELSE top
  <1>1. b \in Block /\ b # Genesis /\ Height(b) \in Nat /\ Height(b) >= 1
    BY Zenon, BlockType DEF Proposal
  <1>2. committedHeight \in Nat
    BY Zenon DEF ConsensusState
  <1>3. \A h \in 1..top : h >= low => Ancestor(b, h) \in state[r].known
    BY Zenon DEF VoteReady
  <1>4. CASE Height(b) = 1
    <2>1. Justify(b) = Genesis
      <3>1. Justify(b) \in Block /\ Height(Justify(b)) = 0
        BY <1>1, <1>4, JustifyIsBlock
      <3> QED BY Zenon, <3>1, BlockType
    <2> QED BY Zenon, <2>1, JustifyIsBlock, GenesisIsBlock DEF Lock
  <1>5. CASE Height(b) # 1
    <2>1. top \in 1..top /\ top >= low
      BY <1>1, <1>2, <1>5
    <2> HIDE DEF low
    <2> QED BY Zenon, <1>3, <2>1 DEF Justify
  <1> QED BY Zenon, <1>4, <1>5

\* The lock rule bounds the lock by the block's certificate.
LEMMA SafeToVoteView ==
    ASSUME NEW s \in ConsensusState, NEW b \in Proposal, SafeToVote(s, b)
    PROVE  View(s.lockedQC) <= View(Justify(b))
PROOF
  <1>1. s.lockedQC \in Block /\ Justify(b) \in Block
    BY Zenon, JustifyIsBlock DEF ConsensusState, Proposal
  <1>2. /\ View(s.lockedQC) \in Nat /\ View(Justify(b)) \in Nat
        /\ Height(s.lockedQC) \in Nat /\ Height(Justify(b)) \in Nat
    BY Zenon, <1>1, ViewIsNat, BlockType
  <1>3. CASE View(Justify(b)) > View(s.lockedQC)
    BY <1>2, <1>3
  <1>4. CASE Extends(s, Justify(b), s.lockedQC)
    <2>1. Height(s.lockedQC) \in 0..Height(Justify(b))
          /\ Ancestor(Justify(b), Height(s.lockedQC)) = s.lockedQC
      BY <1>2, <1>4 DEF Extends
    <2> QED BY Zenon, <1>1, <2>1, AncestorIsBlock
  <1> QED BY Zenon, <1>3, <1>4 DEF SafeToVote

\* A vote keeps the promise and moves the last vote and the lock past it.
LEMMA VoteStep ==
    ASSUME IInv, NEW r \in Honest, NEW b \in Proposal, NEW sent \in BOOLEAN, Vote(r, b, sent)
    PROVE  IInv' /\ Cast(r, b)
PROOF
  <1> DEFINE s == state[r]
             o == VotedProposal(s, b)
  <1>1. s \in ConsensusState /\ CertificatesPast(s)
    BY Zenon DEF IInv, TypeOK, StatesBehind
  <1>2. /\ CanVote(s, b) /\ VoteReady(r, b) /\ Certified(Justify(b))
        /\ \A v \in voteRecord[r] : View(v) # View(b)
        /\ FinalizeEvent(r, o, TxOf(b), TRUE)
        /\ voteRecord' = [voteRecord EXCEPT ![r] = @ \cup {b}]
        /\ voteHigh' = [voteHigh EXCEPT ![r] = Max2(@, View(b))]
        /\ votes' = IF sent THEN [votes EXCEPT ![r] = @ \cup {b}] ELSE votes
        /\ UNCHANGED <<leaderRecord, drafts, proposals>>
    BY Zenon DEF Vote, Verified, VoteIdentityFree
  <1>3. /\ Preserves(s, o) /\ o.state.lastVoted = b
        /\ Justify(b) \in s.known => View(o.state.lockedQC) >= View(Lock(b))
    BY <1>1, <1>2, VotedProposalOutput, Zenon DEF CanVote, Proposal, Lock
  <1> HIDE DEF o
  <1>4. o \in EngineOutput /\ CertificatesPast(o.state) /\ Advances(s, o.state)
    BY Zenon, <1>3 DEF Preserves
  <1>5. /\ b \in Block /\ View(b) \in 0..MaxView /\ View(b) \in Nat /\ View(Lock(b)) \in Nat
        /\ View(Justify(b)) \in Nat /\ TxOf(b) \in Candidate
    BY Zenon, BlockType, ProposalViews, TxOfProposal
  <1>6. /\ View(s.lastVoted) \in Nat /\ View(s.lockedQC) \in Nat
        /\ View(o.state.lockedQC) \in Nat
    BY Zenon, <1>1, <1>4, ViewIsNat DEF ConsensusState, EngineOutput
  <1>7. \A x \in voteRecord[r] :
            /\ View(x) \in Nat /\ View(Lock(x)) \in Nat
            /\ View(x) <= View(s.lastVoted) /\ View(Lock(x)) <= View(s.lockedQC)
    BY Zenon, ProposalViews DEF IInv, RecordsAreProposals, VotesBehindLock
  <1>8. View(s.lastVoted) < View(b) /\ View(s.lockedQC) <= View(Justify(b))
    BY <1>1, <1>2, <1>5, <1>6, SafeToVoteView, Zenon DEF CanVote
  <1>9. /\ View(b) \in Nat /\ View(Justify(b)) \in Nat
         /\ View(s.lastVoted) \in Nat /\ View(s.lockedQC) \in Nat
         /\ View(o.state.lockedQC) \in Nat
    BY Zenon, <1>5, <1>6
  <1>10. Cast(r, b)
    <2>1. Certifiable(Justify(b))
      BY Zenon, <1>2, CertifiedIsCertifiable
    <2>2. \A x \in voteRecord[r] : View(x) < View(b) /\ View(Lock(x)) <= View(Justify(b))
      <3> TAKE x \in voteRecord[r]
      <3>1. /\ View(x) \in Nat /\ View(Lock(x)) \in Nat
            /\ View(x) <= View(s.lastVoted) /\ View(Lock(x)) <= View(s.lockedQC)
        BY Zenon, <1>7
      <3>2. View(x) < View(b)
        BY Zenon, <1>8, <1>9, <3>1, Below
      <3>3. View(Lock(x)) <= View(Justify(b))
        BY Zenon, <1>8, <1>9, <3>1, AtMost
      <3> QED BY Zenon, <3>2, <3>3
    <2> QED BY Zenon, <1>2, <2>1, <2>2 DEF Cast
  <1>11. /\ EventRowsTyped
         /\ \A v \in Honest : state'[v] = IF v = r THEN o.state ELSE state[v]
    BY <1>2, <1>4, <1>5, FinalizeEventType, Zenon DEF IInv
  <1>12. \A v \in Honest : voteRecord'[v] = IF v = r THEN voteRecord[r] \cup {b}
                                                      ELSE voteRecord[v]
    BY Zenon, <1>2 DEF IInv, TypeOK
  <1>13. \A v \in Honest : votes'[v] \subseteq IF v = r THEN votes[r] \cup {b} ELSE votes[v]
    BY Zenon, <1>2 DEF IInv, TypeOK
  <1>14. TypeOK'
    <2>1. voteRecord' \in [Honest -> SUBSET Block] /\ votes' \in [Honest -> SUBSET Block]
      BY Zenon, <1>2, <1>5 DEF IInv, TypeOK
    <2>2. voteHigh' \in [Honest -> 0..MaxView]
      <3>1. voteHigh \in [Honest -> 0..MaxView]
        BY Zenon DEF IInv, TypeOK
      <3>2. Max2(voteHigh[r], View(b)) \in 0..MaxView
        BY Zenon, <1>5, <3>1 DEF Max2
      <3> QED BY Zenon, <1>2, <3>1, <3>2
    <2>3. /\ leaderRecord' \in [Honest -> SUBSET Block] /\ drafts' \in [Honest -> SUBSET Block]
          /\ proposals' \subseteq Block
      BY Zenon, <1>2 DEF IInv, TypeOK
    <2> QED BY <1>11, <2>1, <2>2, <2>3, Zenon DEF TypeOK, EventRowsTyped, Locks
  <1>15. RecordsAreProposals' /\ LeadsOwnViews'
    <2>1. UNCHANGED <<leaderRecord, drafts, proposals>>
      BY Zenon, <1>2
    <2>2. RecordsAreProposals /\ LeadsOwnViews
      BY Zenon DEF IInv
    <2>3. RecordsAreProposals'
      BY Zenon, <1>12, <2>1, <2>2 DEF RecordsAreProposals
    <2>4. LeadsOwnViews'
      BY Zenon, <2>1, <2>2 DEF LeadsOwnViews
    <2> QED BY Zenon, <2>3, <2>4
  <1>16. StatesBehind'
    BY Zenon, <1>4, <1>11 DEF IInv, StatesBehind
  <1>17. NoEquivocation'
    <2>1. \A v \in Honest : \A x, y \in voteRecord'[v] : View(x) = View(y) => x = y
      <3> TAKE v \in Honest
      <3>1. \A x, y \in voteRecord[v] : View(x) = View(y) => x = y
        BY Zenon DEF IInv, NoEquivocation
      <3>2. \A x \in voteRecord[r] : View(x) # View(b)
        BY Zenon, <1>2
      <3> QED BY Zenon, <1>12, <3>1, <3>2
    <2>2. \A v \in Honest : votes'[v] \subseteq voteRecord'[v]
      BY Zenon, <1>12, <1>13 DEF IInv, NoEquivocation
    <2>3. \A v \in Honest :
              /\ \A x, y \in leaderRecord'[v] : View(x) = View(y) => x = y
              /\ \A p \in proposals' : Leader(View(p)) = v => p \in leaderRecord'[v]
      <3>1. UNCHANGED <<leaderRecord, proposals>>
        BY Zenon, <1>2
      <3> QED BY Zenon, <3>1 DEF IInv, NoEquivocation
    <2> QED BY Zenon, <2>1, <2>2, <2>3 DEF NoEquivocation
  <1>18. VotesBehindLock'
    <2>1. View(s.lockedQC) <= View(o.state.lockedQC) /\ View(Lock(b)) <= View(o.state.lockedQC)
      <3>1. View(s.lockedQC) <= View(o.state.lockedQC)
        BY Zenon, <1>4, <1>6 DEF Advances
      <3>2. Justify(b) \in s.known \/ View(Lock(b)) = 0
        BY Zenon, <1>1, <1>2, VoteReadyParent
      <3>3. View(Lock(b)) = 0 => View(Lock(b)) <= View(o.state.lockedQC)
        BY Zenon, <1>9, ZeroAtMost
      <3>4. Justify(b) \in s.known => View(Lock(b)) <= View(o.state.lockedQC)
        <4>1. View(Lock(b)) \in Nat
          BY Zenon, <1>5
        <4> QED BY Zenon, <1>3, <1>9, <4>1
      <3> QED BY Zenon, <3>1, <3>2, <3>3, <3>4
    <2>2. \A x \in voteRecord[r] \cup {b} :
              View(x) <= View(o.state.lastVoted) /\ View(Lock(x)) <= View(o.state.lockedQC)
      <3>1. View(b) <= View(o.state.lastVoted)
        BY Zenon, <1>3, <1>9, ZeroAtMost
      <3>2. ASSUME NEW x \in voteRecord[r]
            PROVE  View(x) <= View(o.state.lastVoted) /\ View(Lock(x)) <= View(o.state.lockedQC)
        <4>1. /\ View(x) \in Nat /\ View(Lock(x)) \in Nat
              /\ View(x) <= View(s.lastVoted) /\ View(Lock(x)) <= View(s.lockedQC)
          BY Zenon, <1>7
        <4>2. View(x) <= View(b)
          BY Zenon, <1>8, <1>9, <4>1, Below
        <4>3. View(Lock(x)) <= View(o.state.lockedQC)
          BY Zenon, <1>9, <2>1, <4>1, AtMost
        <4> QED BY Zenon, <1>3, <4>2, <4>3
      <3> QED BY Zenon, <2>1, <3>1, <3>2
    <2> QED BY Zenon, <1>11, <1>12, <2>2 DEF IInv, VotesBehindLock
  <1> QED BY Zenon, <1>10, <1>14, <1>15, <1>16, <1>17, <1>18 DEF IInv

\* The other deliveries, certificates and ticks.
LEMMA DeliverStep ==
    ASSUME IInv, NEW r \in Honest, NEW b \in Proposal, Deliver(r, b)
    PROVE  IInv' /\ [Cast(r, b)]_voteRecord
PROOF
  <1> DEFINE s == state[r]
             o == ObservedProposal(s, b)
  <1>1. s \in ConsensusState /\ CertificatesPast(s) /\ TxOf(b) \in Candidate
    BY Zenon, TxOfProposal DEF IInv, TypeOK, StatesBehind
  <1>2. Preserves(s, o) /\ o.state.lastVoted = s.lastVoted
    BY Zenon, <1>1, ObservedProposalOutput DEF Proposal
  <1> HIDE DEF o
  <1>3. ASSUME NEW sent \in Replies, Vote(r, b, sent) PROVE IInv' /\ Cast(r, b)
    BY Zenon, <1>3, VoteStep, OrderedEconomicsAssumption
  <1>4. CASE ProcessCertifiedProposal(r, b)
    <2>1. FinalizeEvent(r, o, TxOf(b), TRUE) /\ UNCHANGED <<identityVars, networkVars>>
      BY Zenon, <1>4 DEF ProcessCertifiedProposal, o
    <2> QED BY Zenon, <1>1, <1>2, <2>1, EventStep DEF identityVars
  <1>5. CASE ReplayVote(r, b)
    <2>1. /\ b \in voteRecord[r] /\ votes' = [votes EXCEPT ![r] = @ \cup {b}]
          /\ UNCHANGED <<state, leaderRecord, voteRecord, voteHigh, header, nonceLock,
                         applied, archive, outcomes, drafts, proposals>>
      BY <1>5, Zenon DEF ReplayVote, identityVars, economicVars
    <2>2. TypeOK'
      BY Zenon, <2>1 DEF IInv, TypeOK, Proposal
    <2>4. NoEquivocation'
      <3>1. \A v \in Honest : votes'[v] \subseteq votes[v] \cup voteRecord[v]
        BY Zenon, <2>1 DEF IInv, TypeOK
      <3> QED BY <2>1, <3>1, Zenon DEF IInv, NoEquivocation
    <2>3. RecordsAreProposals' /\ StatesBehind' /\ LeadsOwnViews' /\ VotesBehindLock'
      BY Zenon, <2>1 DEF IInv, RecordsAreProposals, StatesBehind, LeadsOwnViews, VotesBehindLock
    <2> QED BY <2>1, <2>2, <2>3, <2>4, Zenon DEF IInv
  <1>6. ASSUME NEW delivered \in BOOLEAN, ObserveProposal(r, b, delivered)
        PROVE  IInv' /\ UNCHANGED voteRecord
    <2> DEFINE tx == IF delivered THEN TxOf(b) ELSE NoTx
    <2>1. FinalizeEvent(r, o, tx, FALSE) /\ UNCHANGED <<identityVars, networkVars>>
      BY <1>6, Zenon DEF ObserveProposal, o
    <2>2. tx \in Candidate
      BY Zenon, <1>1 DEF Candidate
    <2> HIDE DEF tx
    <2> QED BY Zenon, <1>2, <2>1, <2>2, EventStep DEF identityVars
  <1> QED BY Zenon, <1>3, <1>4, <1>5, <1>6 DEF Deliver

LEMMA CertificateStep ==
    ASSUME IInv, NEW r \in Honest, NEW qc \in Proposal, ProcessCertificate(r, qc)
    PROVE  IInv' /\ UNCHANGED voteRecord
PROOF
  <1> DEFINE o == CertificateApplied(state[r], qc)
  <1>1. state[r] \in ConsensusState /\ CertificatesPast(state[r])
    BY Zenon DEF IInv, TypeOK, StatesBehind
  <1>2. Preserves(state[r], o) /\ o.state.lastVoted = state[r].lastVoted
    BY <1>1, CertificateAppliedOutput, Zenon DEF ProcessCertificate, Proposal
  <1>3. FinalizeEvent(r, o, NoTx, FALSE) /\ UNCHANGED <<identityVars, networkVars>>
    BY Zenon DEF ProcessCertificate
  <1> HIDE DEF o
  <1>4. NoTx \in Candidate
    BY Zenon DEF Candidate
  <1> QED BY Zenon, <1>2, <1>3, <1>4, EventStep DEF identityVars

LEMMA TickStep ==
    ASSUME IInv, NEW r \in Honest, Tick(r)
    PROVE  IInv' /\ UNCHANGED voteRecord
PROOF
  <1> DEFINE o == TickApplied(state[r])
  <1>1. state[r] \in ConsensusState /\ CertificatesPast(state[r])
    BY Zenon DEF IInv, TypeOK, StatesBehind
  <1>2. Preserves(state[r], o) /\ o.state.lastVoted = state[r].lastVoted
    BY Zenon, <1>1, TickAppliedOutput DEF Tick
  <1>3. FinalizeEvent(r, o, NoTx, FALSE) /\ UNCHANGED <<identityVars, networkVars>>
    BY Zenon DEF Tick
  <1> HIDE DEF o
  <1>4. NoTx \in Candidate
    BY Zenon DEF Candidate
  <1> QED BY <1>2, <1>3, <1>4, EventStep, Zenon DEF identityVars

\* A handler preserves the invariant and, seen from the votes, is a cast or a
\* stutter.
LEMMA NextStep ==
    ASSUME IInv, [Next]_vars
    PROVE  IInv' /\ [SafeVotingNext]_voteRecord
PROOF
  <1>1. CASE UNCHANGED vars
    <2>1. UNCHANGED <<state, leaderRecord, voteRecord, voteHigh, header, nonceLock,
                      applied, archive, outcomes, drafts, proposals, votes>>
      BY Zenon, <1>1 DEF vars, identityVars, economicVars, networkVars
    <2>2. TypeOK' /\ NoEquivocation'
      BY Zenon, <2>1 DEF IInv, TypeOK, NoEquivocation
    <2>3. RecordsAreProposals' /\ StatesBehind' /\ LeadsOwnViews' /\ VotesBehindLock'
      BY Zenon, <2>1 DEF IInv, RecordsAreProposals, StatesBehind, LeadsOwnViews, VotesBehindLock
    <2> QED BY Zenon, <2>1, <2>2, <2>3 DEF IInv
  <1>2. CASE Next
    <2>1. PICK r \in Honest :
              \/ Lead(r)
              \/ \E b \in proposals \cup FaultyProposal : Deliver(r, b)
              \/ \E qc \in proposals \cup FaultyBlock : ProcessCertificate(r, qc)
              \/ Tick(r)
      BY Zenon, <1>2 DEF Next
    <2>2. proposals \cup FaultyProposal \cup FaultyBlock \subseteq Proposal
      BY Zenon DEF IInv, RecordsAreProposals, FaultyProposal, FaultyBlock, Proposal
    <2>3. CASE Lead(r)
      <3>1. UNCHANGED voteRecord
        BY <2>3, Zenon DEF Lead, Draft, Propose, RecordProposal, ReproposeRetained, identityVars
      <3> QED BY Zenon, <2>3, <3>1, LeadStep
    <2>4. ASSUME NEW b \in proposals \cup FaultyProposal, Deliver(r, b)
          PROVE  IInv' /\ [SafeVotingNext]_voteRecord
      <3>1. b \in Proposal
        BY Zenon, <2>2
      <3>2. IInv' /\ [Cast(r, b)]_voteRecord
        BY Zenon, <2>4, <3>1, DeliverStep
      <3>3. ASSUME Cast(r, b) PROVE SafeVotingNext
        <4>1. b \in voteRecord'[r]
          BY Zenon, <3>3 DEF Cast, IInv, TypeOK
        <4> QED BY Zenon, <3>3, <4>1 DEF SafeVotingNext
      <3> QED BY Zenon, <3>2, <3>3
    <2>5. ASSUME NEW qc \in proposals \cup FaultyBlock, ProcessCertificate(r, qc)
          PROVE  IInv' /\ [SafeVotingNext]_voteRecord
      BY Zenon, <2>2, <2>5, CertificateStep
    <2>6. CASE Tick(r)
      BY Zenon, <2>6, TickStep
    <2> QED BY Zenon, <2>1, <2>3, <2>4, <2>5, <2>6
  <1> QED BY Zenon, <1>1, <1>2

-------------------------------------------------------------------------------
(***************************************************************************)
(* The theorems.                                                           *)
(***************************************************************************)
\* The invariant holds in every reachable state, and so do its parts.
THEOREM Invariance == Spec => []IInv
PROOF
  <1>1. IInv /\ [Next]_vars => IInv'
    BY NextStep, Zenon
  <1> QED BY <1>1, InitIInv, PTL DEF Spec

\* Every row keeps its type: no event takes a view past MaxView, whatever
\* certificates it applies, and what it writes is what the next one can read.
THEOREM TypeCorrect == Spec => []TypeOK
PROOF
  <1>1. IInv => TypeOK
    BY Zenon DEF IInv
  <1> QED BY <1>1, Invariance, PTL

\* An honest validator never signs two blocks in one view.
THEOREM SignsOncePerView == Spec => []NoEquivocation
PROOF
  <1>1. IInv => NoEquivocation
    BY Zenon DEF IInv
  <1> QED BY <1>1, Invariance, PTL

\* The votes of the replicas keep the promise of SafeVoting: the identity rows,
\* the readiness walk and the persisted lock together implement it.
THEOREM VotesSafely == Spec => SafeVotingSpec
PROOF
  <1>1. Init => SafeVotingInit
    BY Zenon DEF Init, SafeVotingInit
  <1>2. IInv /\ [Next]_vars => [SafeVotingNext]_voteRecord
    BY NextStep, Zenon
  <1> QED BY <1>1, <1>2, Invariance, PTL DEF Spec, SafeVotingSpec

\* Within the fault bound no view of the network has two certified blocks.
THEOREM NetworkCertificatesAreUnique ==
    ASSUME FaultBound
    PROVE  Spec => []UniqueCertificate
PROOF
  <1>1. IInv /\ Promise => UniqueCertificate
    <2> SUFFICES ASSUME IInv, Promise,
                        NEW b \in proposals \cup FaultyBlock, NEW c \in proposals \cup FaultyBlock,
                        Certified(b), Certified(c), View(b) = View(c)
                 PROVE  b = c
      BY Zenon DEF UniqueCertificate
    <2>1. b # Genesis /\ c # Genesis
      BY Zenon DEF IInv, RecordsAreProposals, FaultyBlock, Proposal
    <2>2. Certifiable(b) /\ Certifiable(c)
      BY Zenon, CertifiedIsCertifiable
    <2> QED BY <2>1, <2>2, CertifiableUnique
  <1> QED BY <1>1, Invariance, VotesSafely, PromiseInvariant, PTL

\* Within the fault bound a block that the network commits by a three-chain of
\* consecutive views is final.
THEOREM NetworkConsecutiveCommitsAreFinal ==
    ASSUME FaultBound
    PROVE  Spec => []ConsecutiveCommitIsFinal
  BY VotesSafely, ConsecutiveCommitsAreFinal, PTL

-------------------------------------------------------------------------------
(***************************************************************************)
(* The inductive invariant, on top of IInv.  The archived commit proofs    *)
(* are the chain that ends in one tip; each is older than the lock, and    *)
(* what the pruned consensus row still calls committed is archived.        *)
(***************************************************************************)
ArchiveEndsIn(r, t) == archive[r] = Walk(0, t) /\ Height(t) = state[r].committedHeight

PrefixOf(r) ==
    /\ Settled(state[r])
    /\ View(state[r].lastVoted) < state[r].currentView
    /\ \A qc \in StoredCertificates(state[r]) : Certified(qc)
    /\ applied[r] = state[r].committedHeight
    /\ state[r].committed \subseteq archive[r]
    /\ \E t \in Block : ArchiveEndsIn(r, t)
    /\ \A b \in archive[r] : View(b) < View(state[r].lockedQC)

PrefixInv == \A r \in Honest : PrefixOf(r)

-------------------------------------------------------------------------------
(***************************************************************************)
(* Chains.                                                                 *)
(***************************************************************************)
\* A walk on top of the tip of a chain makes one chain.
LEMMA WalkExtends ==
    ASSUME NEW p \in Block, NEW t \in Block, Height(t) > Height(p),
           Justify(Ancestor(t, Height(p) + 1)) = p
    PROVE  Walk(0, p) \cup Walk(Height(p), t) = Walk(0, t)
PROOF
  <1> DEFINE n == Height(p)
             f == Ancestor(t, n + 1)
  <1>1. n \in Nat /\ Height(t) \in Nat
    BY Zenon, BlockType
  <1>2. n + 1 \in 0..Height(t) /\ n \in 0..(n + 1) /\ (n + 1) - 1 = n
    BY <1>1
  <1>3. f \in Block /\ Height(f) = n + 1
    BY Zenon, <1>2, AncestorIsBlock
  <1>4. p = Ancestor(t, n)
    BY Zenon, <1>2, <1>3, AncestorOfAncestor DEF Justify
  <1>5. \A h \in 1..n : Ancestor(p, h) = Ancestor(t, h)
    <2> TAKE h \in 1..n
    <2>1. n \in 0..Height(t) /\ h \in 0..n
      BY <1>1
    <2> QED BY Zenon, <1>4, <2>1, AncestorOfAncestor
  <1>6. 1..n \cup (n + 1)..Height(t) = 1..Height(t) /\ 0 + 1 = 1
    BY <1>1
  <1>7. /\ Walk(0, p) = {Ancestor(p, h) : h \in 1..n}
        /\ Walk(n, t) = {Ancestor(t, h) : h \in (n + 1)..Height(t)}
        /\ Walk(0, t) = {Ancestor(t, h) : h \in 1..Height(t)}
    BY Zenon, <1>6 DEF Walk
  <1> HIDE DEF n
  <1> QED BY Zenon, <1>5, <1>6, <1>7 DEF n

LEMMA ChainBlocks ==
    ASSUME NEW t \in Block
    PROVE  /\ \A b \in Walk(0, t) :
                 b \in Block /\ Height(b) \in 1..Height(t) /\ b = Ancestor(t, Height(b))
           /\ \A h \in 1..Height(t) : Ancestor(t, h) \in Walk(0, t) /\ Height(Ancestor(t, h)) = h
PROOF
  <1>1. 0 \in Nat /\ 0 + 1 = 1 /\ Height(t) \in Nat
    BY BlockType
  <1>2. /\ \A b \in Walk(0, t) : /\ b \in Block /\ Height(b) \in (0 + 1)..Height(t)
                                 /\ b = Ancestor(t, Height(b))
        /\ \A h \in (0 + 1)..Height(t) : Ancestor(t, h) \in Walk(0, t)
    BY Zenon, <1>1, WalkBlocks
  <1>3. \A h \in 1..Height(t) : h \in 0..Height(t)
    BY <1>1
  <1>4. \A h \in 1..Height(t) : Height(Ancestor(t, h)) = h
    BY Zenon, <1>3, AncestorIsBlock
  <1> QED BY <1>1, <1>2, <1>4

-------------------------------------------------------------------------------
(***************************************************************************)
(* What a step of the network is to these rows: nothing, a signature with  *)
(* its admission, or an event that is finalized.                           *)
(***************************************************************************)
Signs(r, tx) ==
    /\ AdmitForSigning(r, tx)
    /\ header' = WithHeader(r, tx) /\ nonceLock' = WithReservation(r, tx)
    /\ UNCHANGED <<state, applied, archive, outcomes>>

Event(r, o, C, admitted, reserving) ==
    /\ Advances(state[r], o.state)
    /\ Effect(state[r], o, C)
    /\ TwoWalks(state[r].committedHeight, o)
    /\ \A qc \in C : Certified(qc)
    /\ View(o.state.lastVoted) < o.state.currentView
    /\ HeaderAgrees(r, admitted)
    /\ reserving => AdmitForSigning(r, admitted) /\ (Causal => Economic(o) = {})
    /\ FinalizeEvent(r, o, admitted, reserving)

Finalizes(r) ==
    \E o \in EngineOutput, C \in SUBSET Block, admitted \in Candidate, reserving \in BOOLEAN :
        Event(r, o, C, admitted, reserving)

VotesGrow == \A v \in Honest : votes[v] \subseteq votes'[v]

HandlerStep ==
    /\ VotesGrow
    /\ \/ UNCHANGED <<state, header, nonceLock, applied, archive, outcomes>>
       \/ \E r \in Honest : \E tx \in Candidate : Signs(r, tx)
       \/ \E r \in Honest : Finalizes(r)

LEMMA CertifiedStays ==
    ASSUME VotesGrow, NEW b, Certified(b)
    PROVE  Certified(b)'
PROOF
  <1> DEFINE T == {v \in Honest : b \in votes'[v]} \cup (IF b \in FaultyBlock THEN Faulty ELSE {})
  <1>1. Voters(b) \subseteq T /\ T \in SUBSET Validator
    BY Zenon, SafeVotingAssumption DEF Voters, Honest, VotesGrow
  <1>2. Voters(b) \in Quorum => T \in Quorum
    BY Zenon, <1>1, QuorumMonotone
  <1>3. Voters(b)' = T
    BY Zenon DEF Voters
  <1> QED BY Zenon, <1>2, <1>3 DEF Certified

LEMMA LeadShape ==
    ASSUME IInv, NEW r \in Honest, Lead(r)
    PROVE  HandlerStep
PROOF
  <1>1. ASSUME NEW tx \in Candidate, Draft(r, tx) PROVE HandlerStep
    BY Zenon, <1>1 DEF Draft, economicVars, HandlerStep, VotesGrow
  <1>2. ASSUME NEW b \in Proposal, NEW sent, RecordProposal(r, b, sent) PROVE HandlerStep
    <2>1. TxOf(b) \in Candidate
      BY Zenon, TxOfProposal
    <2> QED BY Zenon, <1>2, <2>1 DEF RecordProposal, Signs, HandlerStep, VotesGrow
  <1>3. ASSUME NEW sent \in Replies, Propose(r, sent) PROVE HandlerStep
    <2>1. drafts[r] \subseteq Proposal
      BY Zenon DEF IInv, RecordsAreProposals
    <2> QED BY Zenon, <1>2, <1>3, <2>1, CanDraftProposal DEF Propose, Candidate
  <1>4. ASSUME NEW b, ReproposeRetained(r, b) PROVE HandlerStep
    BY Zenon, <1>4 DEF ReproposeRetained, economicVars, HandlerStep, VotesGrow
  <1> QED BY Zenon, <1>1, <1>3, <1>4 DEF Lead, Candidate

\* An event whose output keeps the last vote.
LEMMA EventShape ==
    ASSUME IInv, PrefixInv, NEW r \in Honest, NEW o, NEW C \in SUBSET Block,
           NEW admitted \in Candidate, NEW reserving \in BOOLEAN,
           Preserves(state[r], o), Effect(state[r], o, C),
           TwoWalks(state[r].committedHeight, o),
           \A qc \in C : Certified(qc),
           o.state.lastVoted = state[r].lastVoted \/ View(o.state.lastVoted) < o.state.currentView,
           HeaderAgrees(r, admitted),
           reserving => AdmitForSigning(r, admitted) /\ (Causal => Economic(o) = {}),
           FinalizeEvent(r, o, admitted, reserving)
    PROVE  Finalizes(r)
PROOF
  <1>1. o \in EngineOutput /\ Advances(state[r], o.state)
    BY Zenon DEF Preserves
  <1>2. View(o.state.lastVoted) < o.state.currentView
    <2> SUFFICES ASSUME o.state.lastVoted = state[r].lastVoted
                 PROVE  View(o.state.lastVoted) < o.state.currentView
      BY Zenon
    <2>1. View(state[r].lastVoted) < state[r].currentView
      BY Zenon DEF PrefixInv, PrefixOf
    <2>2. o.state.currentView >= state[r].currentView
      BY Zenon, <1>1 DEF Advances
    <2>3. state[r] \in ConsensusState /\ o.state \in ConsensusState
      BY Zenon, <1>1 DEF IInv, TypeOK, EngineOutput
    <2>4. /\ View(state[r].lastVoted) \in Nat
          /\ state[r].currentView \in Nat /\ o.state.currentView \in Nat
      BY <2>3, ViewIsNat DEF ConsensusState
    <2> QED BY <2>1, <2>2, <2>4
  <1>3. Event(r, o, C, admitted, reserving)
    BY Zenon, <1>1, <1>2 DEF Event
  <1> QED BY Zenon, <1>1, <1>3 DEF Finalizes

\* The causal profile signs a vote only when the vote's event commits nothing.
LEMMA VoteCommitsNothing ==
    ASSUME NEW s \in ConsensusState, NEW b \in Proposal, CertificatesPast(s), Settled(s),
           ViewHasSuccessor(b), CertificateApplied(s, Justify(b)).newly = {}
    PROVE  VotedProposal(s, b).newly = {}
PROOF
  <1>1. b \in Block \ {Genesis} /\ b \in Block /\ b # Genesis
    BY Zenon DEF Proposal
  <1>2. Justify(b) \in Block /\ ViewHasSuccessor(Justify(b))
    <2>1. Justify(b) \in Block /\ View(Justify(b)) < View(b)
      BY Zenon, <1>1, JustifyIsBlock
    <2>2. View(Justify(b)) \in Nat /\ View(b) \in Nat
      BY Zenon, <1>1, <2>1, ViewIsNat
    <2> QED BY <2>1, <2>2, ChainedHotStuffAssumption DEF ViewHasSuccessor
  <1>3. VotedProposal(s, b).newly = Justified(s, b).newly
    BY Zenon, <1>1, VotedProposalEffect
  <1>4. CertificateApplied(s, Justify(b)).newly = ApplyCertificate(Output(s), Justify(b)).newly
    BY Zenon, <1>2, CertificateAppliedEffect
  <1>5. Justified(s, b).newly = ApplyCertificate(Output(s), Justify(b)).newly
    BY Zenon, <1>1, JustifiedNewly
  <1> QED BY Zenon, <1>3, <1>4, <1>5

LEMMA DeliverShape ==
    ASSUME IInv, PrefixInv, NEW r \in Honest, NEW b \in Proposal, Deliver(r, b)
    PROVE  HandlerStep
PROOF
  <1> DEFINE s == state[r]
             o == ObservedProposal(s, b)
             C == {Justify(b)}
  <1>1. s \in ConsensusState /\ CertificatesPast(s) /\ TxOf(b) \in Candidate
        /\ Settled(s) /\ b \in Block \ {Genesis} /\ C \in SUBSET Block
    BY Zenon, TxOfProposal, JustifyIsBlock DEF IInv, TypeOK, StatesBehind, PrefixInv, PrefixOf, Proposal
  <1>2. Preserves(s, o) /\ o.state.lastVoted = s.lastVoted
    BY Zenon, <1>1, ObservedProposalOutput
  <1>3. Effect(s, o, C) /\ TwoWalks(s.committedHeight, o)
    BY Zenon, <1>1, ObservedProposalEffect
  <1> HIDE DEF o
  <1>4. ASSUME NEW sent \in Replies, Vote(r, b, sent) PROVE HandlerStep
    <2> DEFINE v == VotedProposal(s, b)
    <2>1. /\ ViewHasSuccessor(b) /\ Certified(Justify(b)) /\ AdmitForSigning(r, TxOf(b))
          /\ Causal => CertificateApplied(s, Justify(b)).newly = {}
          /\ FinalizeEvent(r, v, TxOf(b), TRUE)
          /\ votes' = IF sent THEN [votes EXCEPT ![r] = @ \cup {b}] ELSE votes
      BY Zenon, <1>4 DEF Vote, Verified, PrefixCompleted, CanVote
    <2>2. Preserves(s, v) /\ v.state.lastVoted = b /\ v.state.currentView > View(b)
      BY Zenon, <1>1, <2>1, VotedProposalOutput
    <2>3. Effect(s, v, C) /\ TwoWalks(s.committedHeight, v)
      BY Zenon, <1>1, <2>1, VotedProposalEffect
    <2>4. Causal => Economic(v) = {}
      <3>1. Causal => v.newly = {}
        BY Zenon, <1>1, <2>1, VoteCommitsNothing
      <3> QED BY Zenon, <3>1 DEF Economic
    <2> HIDE DEF v
    <2>5. View(v.state.lastVoted) < v.state.currentView
      <3>1. View(b) \in Nat /\ v.state.currentView \in Nat
        BY <1>1, <2>2, ViewIsNat DEF Preserves, EngineOutput, ConsensusState
      <3> QED BY <2>2, <3>1
    <2>6. HeaderAgrees(r, TxOf(b))
      BY Zenon, <2>1 DEF AdmitForSigning, HeaderAgrees
    <2>7. \A qc \in C : Certified(qc)
      BY Zenon, <2>1
    <2>8. Finalizes(r)
      <3> HIDE DEF C
      <3> QED BY Zenon, <1>1, <2>1, <2>2, <2>3, <2>4, <2>5, <2>6, <2>7, EventShape
    <2>9. VotesGrow
      BY Zenon, <2>1 DEF VotesGrow, IInv, TypeOK
    <2> QED BY Zenon, <2>8, <2>9 DEF HandlerStep
  <1>5. CASE ProcessCertifiedProposal(r, b)
    <2>1. /\ FinalizeEvent(r, o, TxOf(b), TRUE) /\ UNCHANGED votes
          /\ Certified(Justify(b)) /\ AdmitForSigning(r, TxOf(b))
          /\ Causal => Economic(o) = {}
      BY Zenon, <1>5 DEF ProcessCertifiedProposal, o, networkVars, Verified
    <2>2. HeaderAgrees(r, TxOf(b))
      BY Zenon, <2>1 DEF AdmitForSigning, HeaderAgrees
    <2>3. \A qc \in C : Certified(qc)
      BY Zenon, <2>1
    <2>4. Finalizes(r)
      <3> HIDE DEF C
      <3> QED BY Zenon, <1>1, <1>2, <1>3, <2>1, <2>2, <2>3, EventShape
    <2> QED BY Zenon, <2>1, <2>4 DEF HandlerStep, VotesGrow
  <1>6. CASE ReplayVote(r, b)
    <2>1. /\ votes' = [votes EXCEPT ![r] = @ \cup {b}]
          /\ UNCHANGED <<state, header, nonceLock, applied, archive, outcomes>>
      BY Zenon, <1>6 DEF ReplayVote, economicVars
    <2>2. VotesGrow
      BY Zenon, <2>1 DEF VotesGrow, IInv, TypeOK
    <2> QED BY Zenon, <2>1, <2>2 DEF HandlerStep
  <1>7. ASSUME NEW delivered \in BOOLEAN, ObserveProposal(r, b, delivered)
        PROVE  HandlerStep
    <2> DEFINE tx == IF delivered THEN TxOf(b) ELSE NoTx
    <2>1. /\ FinalizeEvent(r, o, tx, FALSE) /\ UNCHANGED votes
          /\ Certified(Justify(b))
          /\ delivered => HeaderAgrees(r, TxOf(b))
      BY Zenon, <1>7 DEF ObserveProposal, o, networkVars, Verified
    <2>2. tx \in Candidate /\ HeaderAgrees(r, tx)
      BY Zenon, <1>1, <2>1 DEF Candidate, HeaderAgrees
    <2>3. \A qc \in C : Certified(qc)
      BY Zenon, <2>1
    <2> HIDE DEF tx
    <2>4. Finalizes(r)
      <3> HIDE DEF C
      <3> QED BY Zenon, <1>1, <1>2, <1>3, <2>1, <2>2, <2>3, EventShape
    <2> QED BY Zenon, <2>1, <2>4 DEF HandlerStep, VotesGrow
  <1> QED BY Zenon, <1>4, <1>5, <1>6, <1>7 DEF Deliver

LEMMA CertificateShape ==
    ASSUME IInv, PrefixInv, NEW r \in Honest, NEW qc \in Proposal, ProcessCertificate(r, qc)
    PROVE  HandlerStep
PROOF
  <1> DEFINE s == state[r]
             o == CertificateApplied(s, qc)
             C == {qc}
  <1>1. /\ s \in ConsensusState /\ CertificatesPast(s) /\ Settled(s)
        /\ qc \in Block /\ C \in SUBSET Block /\ NoTx \in Candidate /\ HeaderAgrees(r, NoTx)
    BY Zenon DEF IInv, TypeOK, StatesBehind, PrefixInv, PrefixOf, Proposal, Candidate, HeaderAgrees
  <1>2. /\ ViewHasSuccessor(qc) /\ FinalizeEvent(r, o, NoTx, FALSE) /\ UNCHANGED votes
        /\ \A c \in C : Certified(c)
    BY Zenon DEF ProcessCertificate, networkVars
  <1>3. Preserves(s, o) /\ o.state.lastVoted = s.lastVoted
    BY Zenon, <1>1, <1>2, CertificateAppliedOutput
  <1>4. Effect(s, o, C) /\ TwoWalks(s.committedHeight, o)
    BY Zenon, <1>1, <1>2, CertificateAppliedEffect
  <1> HIDE DEF o, C
  <1>5. Finalizes(r)
    BY Zenon, <1>1, <1>2, <1>3, <1>4, EventShape
  <1> QED BY Zenon, <1>2, <1>5 DEF HandlerStep, VotesGrow

LEMMA TickShape ==
    ASSUME IInv, PrefixInv, NEW r \in Honest, Tick(r)
    PROVE  HandlerStep
PROOF
  <1> DEFINE s == state[r]
             o == TickApplied(s)
             C == {}
  <1>1. /\ s \in ConsensusState /\ CertificatesPast(s) /\ Settled(s)
        /\ C \in SUBSET Block /\ NoTx \in Candidate /\ HeaderAgrees(r, NoTx)
    BY Zenon DEF IInv, TypeOK, StatesBehind, PrefixInv, PrefixOf, Candidate, HeaderAgrees
  <1>2. /\ s.currentView < MaxView /\ FinalizeEvent(r, o, NoTx, FALSE) /\ UNCHANGED votes
        /\ \A c \in C : Certified(c)
    BY Zenon DEF Tick, networkVars
  <1>3. Preserves(s, o) /\ o.state.lastVoted = s.lastVoted
    BY Zenon, <1>1, <1>2, TickAppliedOutput
  <1>4. Effect(s, o, C) /\ TwoWalks(s.committedHeight, o)
    BY Zenon, <1>1, <1>2, TickAppliedEffect
  <1> HIDE DEF o, C
  <1>5. Finalizes(r)
    BY Zenon, <1>1, <1>2, <1>3, <1>4, EventShape
  <1> QED BY Zenon, <1>2, <1>5 DEF HandlerStep, VotesGrow

LEMMA NextShape ==
    ASSUME IInv, PrefixInv, [Next]_vars
    PROVE  HandlerStep
PROOF
  <1>1. CASE UNCHANGED vars
    BY Zenon, <1>1 DEF vars, economicVars, networkVars, HandlerStep, VotesGrow
  <1>2. CASE Next
    <2>1. PICK r \in Honest :
              \/ Lead(r)
              \/ \E b \in proposals \cup FaultyProposal : Deliver(r, b)
              \/ \E qc \in proposals \cup FaultyBlock : ProcessCertificate(r, qc)
              \/ Tick(r)
      BY Zenon, <1>2 DEF Next
    <2>2. proposals \cup FaultyProposal \cup FaultyBlock \subseteq Proposal
      BY Zenon DEF IInv, RecordsAreProposals, FaultyProposal, FaultyBlock, Proposal
    <2> QED BY Zenon, <2>1, <2>2, LeadShape, DeliverShape, CertificateShape, TickShape
  <1> QED BY Zenon, <1>1, <1>2

-------------------------------------------------------------------------------
(***************************************************************************)
(* The committed prefix.                                                   *)
(***************************************************************************)
\* The blocks of a walk on the tip p have their parents in K, where p is the
\* only block of its height; the first of them is then a child of p.
Follows(K, p, t) ==
    /\ \A b \in Walk(Height(p), t) : Justify(b) \in K \cup {Genesis}
    /\ \A x \in K : Height(x) = Height(p) => x = p

LEMMA ChildOfTip ==
    ASSUME NEW K, NEW p \in Block, NEW t \in Block, Height(t) > Height(p), Follows(K, p, t)
    PROVE  Justify(Ancestor(t, Height(p) + 1)) = p
PROOF
  <1> DEFINE f == Ancestor(t, Height(p) + 1)
  <1>1. Height(p) \in Nat /\ Height(t) \in Nat
    BY Zenon, BlockType
  <1>2. Height(p) + 1 \in (Height(p) + 1)..Height(t) /\ Height(p) + 1 \in 0..Height(t)
    BY <1>1
  <1>3. f \in Walk(Height(p), t) /\ f \in Block /\ Height(f) = Height(p) + 1
    BY Zenon, <1>1, <1>2, WalkBlocks, AncestorIsBlock
  <1>4. f # Genesis
    BY <1>1, <1>3, GenesisIsBlock
  <1>5. Height(Justify(f)) = Height(p)
    <2>1. Height(Justify(f)) = Height(f) - 1
      BY Zenon, <1>3, <1>4, JustifyIsBlock
    <2> QED BY <1>1, <1>3, <2>1
  <1>6. Justify(f) = Genesis => p = Genesis
    BY Zenon, <1>5, GenesisIsBlock, BlockType
  <1> HIDE DEF f
  <1> QED BY Zenon, <1>3, <1>5, <1>6 DEF f, Follows

\* The tip after a walk towards t.
Tip(p, t) == IF Height(t) > Height(p) THEN t ELSE p

LEMMA TipAfter ==
    ASSUME NEW K, NEW p \in Block, NEW t \in Block, Follows(K, p, t)
    PROVE  /\ Tip(p, t) \in Block
           /\ Height(Tip(p, t)) = Max2(Height(p), Height(t))
           /\ Walk(0, p) \cup Walk(Height(p), t) = Walk(0, Tip(p, t))
PROOF
  <1>1. Height(p) \in Nat /\ Height(t) \in Nat
    BY Zenon, BlockType
  <1>2. CASE Height(t) > Height(p)
    <2>1. Justify(Ancestor(t, Height(p) + 1)) = p
      BY Zenon, <1>2, ChildOfTip
    <2>2. Max2(Height(p), Height(t)) = Height(t)
      BY <1>1, <1>2 DEF Max2
    <2> QED BY Zenon, <1>2, <2>1, <2>2, WalkExtends DEF Tip
  <1>3. CASE ~(Height(t) > Height(p))
    <2>1. Walk(Height(p), t) = {}
      BY Zenon, <1>1, <1>3, WalkBlocks
    <2>2. Max2(Height(p), Height(t)) = Height(p)
      BY <1>1, <1>3 DEF Max2
    <2> QED BY Zenon, <1>3, <2>1, <2>2 DEF Tip
  <1> QED BY Zenon, <1>2, <1>3

\* A block on a walk is the ancestor of the walk's end at its own height.
LEMMA WalkedBlock ==
    ASSUME NEW low \in Nat, NEW t \in Block, NEW b \in Walk(low, t)
    PROVE  Height(b) \in (low + 1)..Height(t) /\ b = Ancestor(t, Height(b))
PROOF
  <1>1. \A x \in Walk(low, t) :
            /\ x \in Block /\ x # Genesis /\ View(x) <= View(t)
            /\ Height(x) \in (low + 1)..Height(t)
            /\ x = Ancestor(t, Height(x))
    BY Zenon, WalkBlocks
  <1> QED BY Zenon, <1>1

\* What an event commits extends the replica's chain.
LEMMA EventTip ==
    ASSUME IInv, NEW r \in Honest, PrefixOf(r), NEW o \in EngineOutput,
           TwoWalks(state[r].committedHeight, o), ExtendsLocalPrefix(r, o)
    PROVE  \E q \in Block : /\ archive[r] \cup o.newly = Walk(0, q)
                            /\ Height(q) = o.state.committedHeight
PROOF
  <1> DEFINE n == state[r].committedHeight
  <1>1. n \in Nat
    BY Zenon DEF IInv, TypeOK, ConsensusState
  <1>2. PICK p \in Block : archive[r] = Walk(0, p) /\ Height(p) = n
    BY Zenon DEF PrefixOf, ArchiveEndsIn
  <1>3. PICK t \in Block, u \in Block :
            /\ o.newly = Walk(n, t) \cup Walk(Max2(n, Height(t)), u)
            /\ o.state.committedHeight = Max2(Max2(n, Height(t)), Height(u))
    BY Zenon DEF TwoWalks
  <1> DEFINE m == Max2(n, Height(t))
             K == archive[r] \cup o.newly
  <1>4. Height(p) \in Nat /\ Height(t) \in Nat /\ Height(u) \in Nat /\ m \in Nat /\ n <= m
    BY <1>1, BlockType DEF Max2
  <1>5. \A b \in o.newly : Justify(b) \in K \cup {Genesis}
    BY Zenon DEF ExtendsLocalPrefix, PrefixOf
  <1>6. \A x \in Walk(0, p) : Height(x) \in 1..n /\ x = Ancestor(p, Height(x))
    <2> TAKE x \in Walk(0, p)
    <2>1. 0 + 1 = 1 /\ 0 \in Nat
      OBVIOUS
    <2>2. Height(x) \in (0 + 1)..Height(p) /\ x = Ancestor(p, Height(x))
      BY Zenon, <2>1, WalkedBlock
    <2> QED BY Zenon, <1>2, <2>1, <2>2
  <1>7. \A x \in Walk(n, t) : Height(x) \in (n + 1)..Height(t) /\ x = Ancestor(t, Height(x))
    BY Zenon, <1>1, WalkedBlock
  <1>8. \A x \in Walk(m, u) : Height(x) \in (m + 1)..Height(u)
    BY Zenon, <1>4, WalkedBlock
  <1>9. Ancestor(p, Height(p)) = p /\ Ancestor(t, Height(t)) = t
    <2>1. p \in Seq(Header) /\ t \in Seq(Header)
      BY Zenon, BlockType
    <2> QED BY <2>1 DEF Ancestor, Height
  <1> HIDE DEF n, m
  <1>10. Follows(K, p, t)
    <2>1. ASSUME NEW x \in K, Height(x) = n
          PROVE  x = p
      <3>1. x \notin Walk(n, t)
        BY SMTT(20), <1>1, <1>4, <1>7, <2>1
      <3>2. x \notin Walk(m, u)
        BY SMTT(20), <1>1, <1>4, <1>8, <2>1
      <3>3. x \in Walk(0, p)
        BY Zenon, <1>2, <1>3, <3>1, <3>2 DEF m, n
      <3> QED BY Zenon, <1>2, <1>6, <1>9, <2>1, <3>3
    <2>2. \A b \in Walk(Height(p), t) : Justify(b) \in K \cup {Genesis}
      BY Zenon, <1>2, <1>3, <1>5 DEF n
    <2> HIDE DEF K
    <2> QED BY Zenon, <1>2, <2>1, <2>2 DEF Follows
  <1> DEFINE q == Tip(p, t)
  <1>11. /\ q \in Block /\ Height(q) = m
         /\ Walk(0, p) \cup Walk(n, t) = Walk(0, q)
    <2> HIDE DEF K
    <2>1. /\ Tip(p, t) \in Block /\ Height(Tip(p, t)) = Max2(Height(p), Height(t))
          /\ Walk(0, p) \cup Walk(Height(p), t) = Walk(0, Tip(p, t))
      BY Zenon, <1>10, TipAfter
    <2> QED BY Zenon, <1>2, <2>1 DEF m
  <1>12. Follows(K, q, u)
    <2>1. ASSUME NEW x \in K, Height(x) = m
          PROVE  x = q
      <3>1. x \notin Walk(m, u)
        BY <1>1, <1>4, <1>8, <2>1
      <3>2. CASE x \in Walk(0, p)
        <4>1. m = n
          BY SMTT(20), <1>1, <1>4, <1>6, <2>1, <3>2
        <4>2. ~(Height(t) > Height(p))
          BY SMTT(20), <1>1, <1>2, <1>4, <4>1 DEF Max2, m
        <4>3. x = p
          BY Zenon, <1>2, <1>6, <1>9, <2>1, <3>2, <4>1
        <4> QED BY Zenon, <4>2, <4>3 DEF Tip
      <3>3. CASE x \in Walk(n, t)
        <4>1. Height(x) \in (n + 1)..Height(t)
          BY Zenon, <1>7, <3>3
        <4>2. Height(t) > Height(p) /\ m = Height(t)
          BY SMTT(20), <1>1, <1>2, <1>4, <4>1 DEF Max2, m
        <4>3. x = t
          BY Zenon, <1>7, <1>9, <2>1, <3>3, <4>2
        <4> QED BY Zenon, <4>2, <4>3 DEF Tip
      <3> QED BY Zenon, <1>2, <1>3, <3>1, <3>2, <3>3 DEF m, n
    <2>2. \A b \in Walk(Height(q), u) : Justify(b) \in K \cup {Genesis}
      BY Zenon, <1>3, <1>5, <1>11 DEF m, n
    <2> HIDE DEF K, q
    <2> QED BY Zenon, <1>11, <2>1, <2>2 DEF Follows
  <1>13. /\ Tip(q, u) \in Block /\ Height(Tip(q, u)) = Max2(m, Height(u))
         /\ Walk(0, q) \cup Walk(m, u) = Walk(0, Tip(q, u))
    <2> HIDE DEF K, q
    <2>1. q \in Block
      BY Zenon, <1>11
    <2>2. /\ Tip(q, u) \in Block /\ Height(Tip(q, u)) = Max2(Height(q), Height(u))
          /\ Walk(0, q) \cup Walk(Height(q), u) = Walk(0, Tip(q, u))
      BY Zenon, <1>12, <2>1, TipAfter
    <2> QED BY Zenon, <1>11, <2>2
  <1>14. archive[r] \cup o.newly = Walk(0, Tip(q, u))
    <2> HIDE DEF q
    <2> QED BY Zenon, <1>2, <1>3, <1>11, <1>13 DEF m, n
  <1>15. Height(Tip(q, u)) = o.state.committedHeight
    BY Zenon, <1>3, <1>13 DEF m, n
  <1> QED BY Zenon, <1>13, <1>14, <1>15

\* The rows of one replica after a step of another.
LEMMA PrefixOfOther ==
    ASSUME VotesGrow, NEW r \in Honest, PrefixOf(r), state'[r] = state[r],
           applied'[r] = applied[r], archive'[r] = archive[r]
    PROVE  PrefixOf(r)'
PROOF
  <1>1. \A qc \in StoredCertificates(state[r]) : Certified(qc)'
    BY Zenon, CertifiedStays DEF PrefixOf
  <1>2. \E t \in Block : archive'[r] = Walk(0, t) /\ Height(t) = state'[r].committedHeight
    BY Zenon DEF PrefixOf, ArchiveEndsIn
  <1> QED BY Zenon, <1>1, <1>2 DEF PrefixOf, ArchiveEndsIn

LEMMA EventPrefix ==
    ASSUME IInv, IInv', VotesGrow, NEW r \in Honest, PrefixOf(r),
           NEW o \in EngineOutput, NEW C, NEW admitted, NEW reserving,
           Event(r, o, C, admitted, reserving)
    PROVE  PrefixOf(r)'
PROOF
  <1>1. /\ Advances(state[r], o.state) /\ Effect(state[r], o, C)
        /\ TwoWalks(state[r].committedHeight, o) /\ ExtendsLocalPrefix(r, o)
        /\ \A qc \in C : Certified(qc)
        /\ View(o.state.lastVoted) < o.state.currentView
    BY Zenon DEF Event, FinalizeEvent
  <1>2. /\ state'[r] = o.state /\ archive'[r] = archive[r] \cup o.newly
        /\ applied'[r] = NewAppliedHeight(r, o)
    <2>1. /\ state' = [state EXCEPT ![r] = o.state]
          /\ archive' = [archive EXCEPT ![r] = @ \cup o.newly]
          /\ applied' = [applied EXCEPT ![r] = NewAppliedHeight(r, o)]
      BY Zenon DEF Event, FinalizeEvent
    <2>2. DOMAIN state = Honest /\ DOMAIN archive = Honest /\ DOMAIN applied = Honest
      BY Zenon DEF IInv, TypeOK
    <2> QED BY Zenon, <2>1, <2>2
  <1>3. PICK q \in Block : archive[r] \cup o.newly = Walk(0, q) /\ Height(q) = o.state.committedHeight
    BY Zenon, <1>1, EventTip
  <1>4. \A qc \in StoredCertificates(o.state) : Certified(qc)'
    <2>1. \A qc \in StoredCertificates(state[r]) \cup C : Certified(qc)
      BY Zenon, <1>1 DEF PrefixOf
    <2>2. StoredCertificates(o.state) \subseteq StoredCertificates(state[r]) \cup C
      BY Zenon, <1>1 DEF Effect
    <2> QED BY Zenon, <2>1, <2>2, CertifiedStays
  <1>5. NewAppliedHeight(r, o) = o.state.committedHeight
    <2> SUFFICES ASSUME o.newly = {} PROVE applied[r] = o.state.committedHeight
      BY Zenon DEF NewAppliedHeight
    <2>1. PICK p \in Block : archive[r] = Walk(0, p) /\ Height(p) = state[r].committedHeight
      BY Zenon DEF PrefixOf, ArchiveEndsIn
    <2>2. Walk(0, p) = Walk(0, q)
      BY Zenon, <1>3, <2>1
    <2>3. \A x, y \in Block : Walk(0, x) = Walk(0, y) => Height(x) <= Height(y)
      <3> SUFFICES ASSUME NEW x \in Block, NEW y \in Block, Walk(0, x) = Walk(0, y)
                   PROVE  Height(x) <= Height(y)
        BY Zenon
      <3>1. 0 \in Nat /\ Height(x) \in Nat /\ Height(y) \in Nat
        BY BlockType
      <3>2. Walk(0, x) = {} => Height(x) <= 0
        BY Zenon, <3>1, WalkBlocks
      <3>3. Walk(0, x) # {} => x \in Walk(0, y)
        BY Zenon, <3>1, WalkBlocks
      <3>4. x \in Walk(0, y) => Height(x) \in (0 + 1)..Height(y)
        BY Zenon, <3>1, WalkBlocks
      <3> QED BY <3>1, <3>2, <3>3, <3>4
    <2>4. Height(p) = Height(q)
      <3>1. Height(p) <= Height(q) /\ Height(q) <= Height(p)
        BY Zenon, <2>2, <2>3
      <3>2. Height(p) \in Nat /\ Height(q) \in Nat
        BY Zenon, BlockType
      <3> QED BY <3>1, <3>2
    <2> QED BY Zenon, <1>3, <2>1, <2>4 DEF PrefixOf
  <1>6. o.state.committed \subseteq archive[r] \cup o.newly
    BY Zenon, <1>1 DEF Effect, PrefixOf
  <1>7. \A b \in archive[r] \cup o.newly : View(b) < View(o.state.lockedQC)
    <2> SUFFICES ASSUME NEW b \in archive[r]
                 PROVE  View(b) < View(o.state.lockedQC)
      BY Zenon, <1>1 DEF Effect
    <2>1. View(b) < View(state[r].lockedQC)
      BY Zenon DEF PrefixOf
    <2>2. View(o.state.lockedQC) >= View(state[r].lockedQC)
      BY Zenon, <1>1 DEF Advances
    <2>3. b \in Block /\ state[r].lockedQC \in Block /\ o.state.lockedQC \in Block
      BY Zenon DEF IInv, TypeOK, ConsensusState, EngineOutput
    <2>4. View(b) \in Nat /\ View(state[r].lockedQC) \in Nat /\ View(o.state.lockedQC) \in Nat
      BY Zenon, <2>3, ViewIsNat
    <2> QED BY <2>1, <2>2, <2>4
  <1>8. Settled(o.state)
    BY Zenon, <1>1 DEF Effect
  <1> QED BY Zenon, <1>1, <1>2, <1>3, <1>4, <1>5, <1>6, <1>7, <1>8 DEF PrefixOf, ArchiveEndsIn

LEMMA PrefixStep ==
    ASSUME IInv, IInv', PrefixInv, HandlerStep
    PROVE  PrefixInv'
PROOF
  <1> SUFFICES ASSUME NEW v \in Honest PROVE PrefixOf(v)'
    BY Zenon DEF PrefixInv
  <1>1. PrefixOf(v) /\ VotesGrow
    BY Zenon DEF PrefixInv, HandlerStep
  <1>2. CASE UNCHANGED <<state, applied, archive>>
    BY Zenon, <1>1, <1>2, PrefixOfOther
  <1>3. ASSUME NEW r \in Honest, Finalizes(r) PROVE PrefixOf(v)'
    <2>1. PICK o \in EngineOutput, C \in SUBSET Block, admitted \in Candidate, reserving \in BOOLEAN :
              Event(r, o, C, admitted, reserving)
      BY Zenon, <1>3 DEF Finalizes
    <2>2. CASE v = r
      BY Zenon, <1>1, <2>1, <2>2, EventPrefix
    <2>3. CASE v # r
      <3>1. state'[v] = state[v] /\ applied'[v] = applied[v] /\ archive'[v] = archive[v]
        <4>1. /\ state' = [state EXCEPT ![r] = o.state]
              /\ archive' = [archive EXCEPT ![r] = @ \cup o.newly]
              /\ applied' = [applied EXCEPT ![r] = NewAppliedHeight(r, o)]
          BY Zenon, <2>1 DEF Event, FinalizeEvent
        <4>2. DOMAIN state = Honest /\ DOMAIN archive = Honest /\ DOMAIN applied = Honest
          BY Zenon DEF IInv, TypeOK
        <4> QED BY Zenon, <2>3, <4>1, <4>2
      <3> QED BY Zenon, <1>1, <3>1, PrefixOfOther
    <2> QED BY Zenon, <2>2, <2>3
  <1> QED BY Zenon, <1>2, <1>3 DEF HandlerStep, Signs

LEMMA InitPrefix == Init => PrefixInv
PROOF
  <1> SUFFICES ASSUME Init, NEW r \in Honest PROVE PrefixOf(r)
    BY Zenon DEF PrefixInv
  <1> DEFINE g == GenesisState
  <1>1. state[r] = g /\ applied[r] = 0 /\ archive[r] = {}
    BY Zenon DEF Init
  <1>2. /\ g.currentView = 1 /\ g.lastVoted = Genesis /\ g.highQC = Genesis
        /\ g.lockedQC = Genesis /\ g.committedHeight = 0 /\ g.known = {}
        /\ g.certificates = {} /\ g.committed = {}
    BY Zenon DEF GenesisState
  <1> HIDE DEF g
  <1>3. View(Genesis) = 0 /\ Height(Genesis) = 0 /\ Genesis \in Block /\ 0 < 1 /\ 0 <= 0
    BY GenesisIsBlock
  <1>4. Settled(g)
    BY Zenon, <1>2, <1>3 DEF Settled, Coherent, Retained
  <1>5. StoredCertificates(g) = {}
    BY Zenon, <1>2 DEF StoredCertificates
  <1>6. Walk(0, Genesis) = {}
    <2>1. (0 + 1)..Height(Genesis) = {}
      BY <1>3
    <2> QED BY Zenon, <2>1 DEF Walk
  <1> QED BY Zenon, <1>1, <1>2, <1>3, <1>4, <1>5, <1>6 DEF PrefixOf, ArchiveEndsIn

\* The archive by heights.
LEMMA ArchiveChain ==
    ASSUME NEW r \in Honest, PrefixOf(r)
    PROVE  /\ applied[r] = state[r].committedHeight
           /\ {Height(b) : b \in archive[r]} = 1..applied[r]
           /\ \A b, c \in archive[r] : Height(c) <= Height(b) => c = Ancestor(b, Height(c))
PROOF
  <1>1. PICK t \in Block : archive[r] = Walk(0, t) /\ Height(t) = applied[r]
    BY Zenon DEF PrefixOf, ArchiveEndsIn
  <1>2. Height(t) \in Nat
    BY Zenon, BlockType
  <1>3. \A b \in archive[r] : b \in Block /\ Height(b) \in 1..Height(t) /\ b = Ancestor(t, Height(b))
    BY Zenon, <1>1, ChainBlocks
  <1>4. \A h \in 1..Height(t) : Ancestor(t, h) \in archive[r] /\ Height(Ancestor(t, h)) = h
    BY Zenon, <1>1, ChainBlocks
  <1>5. {Height(b) : b \in archive[r]} = 1..Height(t)
    BY Zenon, <1>3, <1>4
  <1>6. ASSUME NEW b \in archive[r], NEW c \in archive[r], Height(c) <= Height(b)
        PROVE  c = Ancestor(b, Height(c))
    <2>1. Height(b) \in 0..Height(t) /\ Height(c) \in 0..Height(b)
      BY <1>2, <1>3, <1>6
    <2>2. b = Ancestor(t, Height(b)) /\ c = Ancestor(t, Height(c))
      BY Zenon, <1>3
    <2> QED BY Zenon, <2>1, <2>2, AncestorOfAncestor
  <1>7. applied[r] = state[r].committedHeight
    BY Zenon DEF PrefixOf
  <1> QED BY Zenon, <1>1, <1>5, <1>6, <1>7

\* A replica that sees no fork of its chain loads the row it wrote: its high
\* certificate and its lock descend from the tip.
LEMMA LoadsUnlessFork ==
    ASSUME IInv, NEW r \in Honest, PrefixOf(r), ~SeesFork(r)
    PROVE  Loaded(r)
PROOF
  <1> DEFINE s == state[r]
             n == s.committedHeight
  <1>1. /\ s \in ConsensusState /\ s.highQC \in Block /\ s.lockedQC \in Block /\ n \in Nat
    BY Zenon DEF IInv, TypeOK, ConsensusState
  <1>2. /\ View(s.highQC) < s.currentView /\ View(s.lockedQC) <= View(s.highQC)
        /\ s.highQC \in s.certificates \cup {Genesis} /\ s.committed \subseteq s.known
        /\ Retained(s, s.lockedQC) /\ View(s.lastVoted) < s.currentView
        /\ \A qc \in StoredCertificates(s) : Certified(qc)
    BY Zenon DEF PrefixOf, Settled, Coherent
  <1>3. PICK t \in Block : archive[r] = Walk(0, t) /\ Height(t) = n
    BY Zenon DEF PrefixOf, ArchiveEndsIn
  <1>4. /\ View(t) \in Nat /\ View(s.highQC) \in Nat /\ View(s.lockedQC) \in Nat
        /\ Height(s.highQC) \in Nat /\ Height(s.lockedQC) \in Nat
        /\ RetainCommittedHeights \in Nat
    BY Zenon, <1>1, ViewIsNat, BlockType, ChainedHotStuffAssumption
  <1>5. n <= Height(s.highQC) /\ n <= Height(s.lockedQC)
    <2>1. CASE n = 0
      BY <1>4, <2>1
    <2>2. CASE n # 0
      <3>1. t \in archive[r]
        <4>1. 0 \in Nat /\ ~(Height(t) <= 0)
          BY <1>1, <1>3, <2>2
        <4> QED BY Zenon, <1>3, <4>1, WalkBlocks
      <3>2. View(t) < View(s.lockedQC)
        BY Zenon, <3>1 DEF PrefixOf
      <3>3. View(s.highQC) > View(t) /\ View(s.lockedQC) > View(t) /\ View(s.highQC) # 0
        BY <1>2, <1>4, <3>2
      <3>4. s.highQC \in s.certificates
        BY Zenon, <1>2, <3>3, GenesisIsBlock
      <3>5. Descends(s.highQC, t) /\ Descends(s.lockedQC, t)
        BY Zenon, <3>1, <3>3, <3>4 DEF SeesFork
      <3> QED BY Zenon, <1>3, <3>5 DEF Descends
    <2> QED BY Zenon, <2>1, <2>2
  <1>6. s.lockedQC \in s.certificates \cup {Genesis}
    <2>1. ~(Height(s.lockedQC) < s.committedHeight - RetainCommittedHeights)
      BY <1>1, <1>4, <1>5
    <2> QED BY Zenon, <1>2, <2>1 DEF Retained
  <1>7. ValidState(s)
    BY Zenon, <1>2, <1>5, <1>6 DEF ValidState
  <1> QED BY Zenon, <1>2, <1>7 DEF Loaded

-------------------------------------------------------------------------------
(***************************************************************************)
(* Theorems.                                                               *)
(***************************************************************************)
\* The archived commits of a replica are one chain, below its lock, and its
\* consensus row agrees with it, after every handler.
THEOREM PrefixInvariance == Spec => []PrefixInv
PROOF
  <1>1. IInv /\ PrefixInv /\ [Next]_vars => PrefixInv'
    <2> SUFFICES ASSUME IInv, PrefixInv, [Next]_vars PROVE PrefixInv'
      BY Zenon
    <2>1. IInv'
      BY NextStep, Zenon
    <2>2. HandlerStep
      BY Zenon, NextShape
    <2> QED BY Zenon, <2>1, <2>2, PrefixStep
  <1> QED BY <1>1, InitPrefix, Invariance, PTL DEF Spec

\* What a replica commits, by whatever mixture of votes, observed proposals and
\* certificates, is one chain without gaps up to its applied height.
THEOREM CommitsOneChain == Spec => []LocalPrefixIsChain
PROOF
  <1>1. PrefixInv => LocalPrefixIsChain
    BY Zenon, ArchiveChain DEF PrefixInv, LocalPrefixIsChain
  <1> QED BY <1>1, PrefixInvariance, PTL

\* A replica loads every row it wrote, unless it sees a fork of its commits.
THEOREM LoadsWhatItWrote == Spec => []PersistedStateValid
PROOF
  <1>1. IInv /\ PrefixInv => PersistedStateValid
    BY Zenon, LoadsUnlessFork DEF PrefixInv, PersistedStateValid
  <1> QED BY <1>1, PrefixInvariance, Invariance, PTL
===============================================================================
