--------------------------- MODULE ChainedHotStuff ---------------------------
(***************************************************************************)
(* The chained HotStuff engine of crates/consensus as what it is in the    *)
(* code: pure transition functions from a persisted ConsensusState and an  *)
(* authenticated event to the next ConsensusState.                         *)
(*                                                                         *)
(* A proposal is identified with its digest, and a digest with the path of *)
(* headers from the genesis anchor to the proposal: the digest of a        *)
(* proposal covers its view, its transactions and its justify certificate, *)
(* which covers the parent's digest, and so on.  Height, leader and parent *)
(* are therefore functions of the digest, and a quorum certificate is      *)
(* named by the block it certifies.  A message that fails validate_proposal *)
(* or verify_certificate changes no state (the engine discards its clone), *)
(* so only well-formed messages are represented; which certificates exist  *)
(* is decided by the module that composes the replicas.                    *)
(***************************************************************************)
EXTENDS ValidatorSet, Integers

CONSTANTS
    Tx,                     \* transaction digests a block can carry
    NoTx,                   \* the empty transaction list
    MaxView,                \* the largest representable view (u64::MAX)
    MaxFutureViewGap,       \* MAX_FUTURE_VIEW_GAP
    RetainCommittedHeights  \* RETAIN_COMMITTED_HEIGHTS

ASSUME ChainedHotStuffAssumption ==
    /\ NoTx \notin Tx
    /\ MaxView \in Nat \ {0}
    /\ MaxFutureViewGap \in Nat
    /\ RetainCommittedHeights \in Nat

-------------------------------------------------------------------------------
(***************************************************************************)
(* Blocks.                                                                 *)
(***************************************************************************)
Header == [view : 1..MaxView, tx : Tx \cup {NoTx}]

Genesis == << >>

Height(b) == Len(b)

View(b) == IF b = Genesis THEN 0 ELSE b[Len(b)].view

\* The prefix of b at height h; Justify(b) is the block b's certificate is for.
Ancestor(b, h) == SubSeq(b, 1, h)

Justify(b) == Ancestor(b, Height(b) - 1)

\* validate_proposal: the view of a block exceeds that of its certificate.
Block == {b \in Seq(Header) : \A i, j \in 1..Len(b) : i < j => b[i].view < b[j].view}

Max2(x, y) == IF x >= y THEN x ELSE y

-------------------------------------------------------------------------------
(***************************************************************************)
(* The persisted state.  The view timer is abstracted: Tick may find its   *)
(* deadline passed at any time.  pending_votes and observed_votes belong   *)
(* to the Vote event, which no ordered-economics route delivers.           *)
(***************************************************************************)
ConsensusState ==
    [currentView     : 1..MaxView,
     lastVoted       : Block,
     highQC          : Block,
     lockedQC        : Block,
     committedHeight : Nat,
     known           : SUBSET Block,
     certificates    : SUBSET Block,
     committed       : SUBSET Block]

GenesisState ==
    [currentView     |-> 1,
     lastVoted       |-> Genesis,
     highQC          |-> Genesis,
     lockedQC        |-> Genesis,
     committedHeight |-> 0,
     known           |-> {},
     certificates    |-> {},
     committed       |-> {}]

\* decode_consensus_state and validate_state: what a loaded row must satisfy.
ValidState(s) ==
    /\ View(s.highQC) < s.currentView
    /\ View(s.lastVoted) < s.currentView
    /\ View(s.lockedQC) <= View(s.highQC)
    /\ s.committedHeight <= Height(s.highQC)
    /\ {s.highQC, s.lockedQC} \subseteq s.certificates \cup {Genesis}
    /\ s.committed \subseteq s.known

\* The certificates whose signatures validate_state verifies.
StoredCertificates(s) == s.certificates \cup {Justify(b) : b \in s.known}

-------------------------------------------------------------------------------
(***************************************************************************)
(* Ancestry as one replica can establish it from the proposals it knows.   *)
(***************************************************************************)
KnownBetween(s, low, b) ==
    \A h \in (low + 1)..Height(b) : Ancestor(b, h) \in s.known

Extends(s, candidate, ancestor) ==
    /\ Height(ancestor) <= Height(candidate)
    /\ Ancestor(candidate, Height(ancestor)) = ancestor
    /\ KnownBetween(s, Height(ancestor), candidate)

\* Mutant: the lock is ignored.
SafeToVoteUnlocked(s, b) == TRUE

SafeToVote(s, b) ==
    \/ View(Justify(b)) > View(s.lockedQC)
    \/ Extends(s, Justify(b), s.lockedQC)

(***************************************************************************)
(* An event's working value: the state and the blocks committed so far.    *)
(* CommitThrough commits the whole walk from committedHeight + 1 up to the *)
(* target, or nothing when an ancestor in between is not known.            *)
(***************************************************************************)
Output(s) == [state |-> s, newly |-> {}]

CommitThrough(o, target) ==
    LET s == o.state
        walk == {Ancestor(target, h) : h \in (s.committedHeight + 1)..Height(target)}
    IN  IF walk \subseteq s.known /\ walk # {}
        THEN [state |-> [s EXCEPT !.committedHeight = Height(target),
                                  !.committed = @ \cup walk],
              newly |-> o.newly \cup walk]
        ELSE o

ApplyCertificate(o, qc) ==
    LET s == o.state
        recorded == [s EXCEPT
            !.certificates = @ \cup {qc},
            !.highQC = IF View(qc) > View(@) THEN qc ELSE @,
            !.currentView = Max2(@, View(qc) + 1)]
        locked == [recorded EXCEPT
            !.lockedQC = IF View(Justify(qc)) > View(@) THEN Justify(qc) ELSE @]
    IN  IF qc = Genesis
        THEN o
        ELSE IF qc \notin s.known
        THEN [o EXCEPT !.state = recorded]
        ELSE IF Justify(qc) \notin s.known
        THEN [o EXCEPT !.state = locked]
        ELSE CommitThrough([o EXCEPT !.state = locked], Justify(Justify(qc)))

Prune(o) ==
    LET s == o.state
        minimum == s.committedHeight - RetainCommittedHeights
        keep(b) == Height(b) >= minimum \/ b \in {s.highQC, s.lockedQC}
        known == {b \in s.known : keep(b)}
    IN  [o EXCEPT !.state =
            [s EXCEPT !.known = known,
                      !.certificates = {b \in s.certificates : keep(b)},
                      !.committed = @ \cap known]]

-------------------------------------------------------------------------------
(***************************************************************************)
(* The events.  Each is an enabling condition (the early returns that      *)
(* report an error and leave the state unchanged) and an output.           *)
(***************************************************************************)
Insert(s, b) == Output([s EXCEPT !.known = @ \cup {b}])

WithinFutureGap(s, b) == View(b) <= s.currentView + MaxFutureViewGap

\* A view whose successor overflows is refused by every handler.
ViewHasSuccessor(b) == View(b) < MaxView

\* propose: the block the leader of the current view builds on its high QC.
ProposalOn(s, tx) == Append(s.highQC, [view |-> s.currentView, tx |-> tx])

\* process_proposal, when the proposal's own certificate is already held:
\* record it and apply both certificates, without voting.  The observer does
\* the same for every proposal.
ObservedProposal(s, b) ==
    LET justified == ApplyCertificate(Insert(s, b), Justify(b))
    IN  Prune(IF b \in justified.state.certificates
              THEN ApplyCertificate(justified, b)
              ELSE justified)

\* process_proposal, when the replica votes.
CanVote(s, b) ==
    /\ b \notin s.certificates
    /\ View(b) > View(s.lastVoted)
    /\ View(b) >= s.currentView
    /\ WithinFutureGap(s, b)
    /\ SafeToVote(s, b)
    /\ ViewHasSuccessor(b)

\* Mutant: voting does not leave the view.
VotedInPlace(s, b) ==
    LET justified == ApplyCertificate(Insert(s, b), Justify(b))
    IN  Prune([justified EXCEPT !.state.lastVoted = b])

VotedProposal(s, b) ==
    LET justified == ApplyCertificate(Insert(s, b), Justify(b))
    IN  Prune([justified EXCEPT
            !.state.lastVoted = b,
            !.state.currentView = Max2(@, View(b) + 1)])

CertificateApplied(s, qc) == Prune(ApplyCertificate(Output(s), qc))

TickApplied(s) == Prune(Output([s EXCEPT !.currentView = @ + 1]))
===============================================================================
