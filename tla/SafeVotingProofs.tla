--------------------------- MODULE SafeVotingProofs ---------------------------
(***************************************************************************)
(* For every validator set, every set of candidates and every number of    *)
(* views.  About blocks: what validate_proposal's conditions on a proposal *)
(* and its certificate give for every chain of proposals.  About the       *)
(* engine's events: what each of them records, locks, commits and retains. *)
(* About votes: within the fault bound no view has two certificates, and a *)
(* three-chain of consecutive views is final.                              *)
(***************************************************************************)
EXTENDS SafeVoting, ValidatorSetProofs, SequenceTheorems, WellFoundedInduction

-------------------------------------------------------------------------------
(***************************************************************************)
(* Blocks.                                                                 *)
(***************************************************************************)
\* Heights and views of blocks are numbers, and only the anchor has view 0.
LEMMA BlockType ==
    ASSUME NEW b \in Block
    PROVE  /\ b \in Seq(Header)
           /\ Height(b) \in Nat
           /\ View(b) \in 0..MaxView
           /\ \A i \in 1..Height(b) : b[i] \in Header /\ b[i].view \in 1..MaxView
           /\ b # Genesis => View(b) \in 1..MaxView /\ Height(b) >= 1
           /\ Height(b) = 0 => b = Genesis
PROOF
  <1>1. b \in Seq(Header)
    BY Zenon DEF Block
  <1>2. Len(b) \in Nat /\ \A i \in 1..Len(b) : b[i] \in Header
    BY <1>1
  <1>3. \A i \in 1..Len(b) : b[i].view \in 1..MaxView
    BY <1>2, Zenon DEF Header
  <1>4. Len(b) = 0 => b = << >>
    BY <1>1, EmptySeq, Zenon
  <1> QED BY <1>1, <1>2, <1>3, <1>4, ChainedHotStuffAssumption DEF Height, View, Genesis

LEMMA ViewIsNat ==
    ASSUME NEW b \in Block
    PROVE  View(b) \in Nat
  BY BlockType, ChainedHotStuffAssumption

LEMMA GenesisIsBlock ==
    /\ Genesis \in Block
    /\ Height(Genesis) = 0
    /\ View(Genesis) = 0
  BY DEF Genesis, Block, Height, View

\* A prefix of a block is a block, no later than it.
LEMMA AncestorIsBlock ==
    ASSUME NEW b \in Block, NEW h \in 0..Height(b)
    PROVE  /\ Ancestor(b, h) \in Block
           /\ Height(Ancestor(b, h)) = h
           /\ View(Ancestor(b, h)) <= View(b)
           /\ h < Height(b) => View(Ancestor(b, h)) < View(b)
PROOF
  <1> DEFINE a == Ancestor(b, h)
  <1>1. b \in Seq(Header) /\ Len(b) \in Nat /\ h \in Int
    BY BlockType DEF Height
  <1>2. \A i \in 1..h : b[i] \in Header
    BY BlockType DEF Height
  <1>3. /\ a \in Seq(Header)
        /\ Len(a) = IF 1 <= h THEN h - 1 + 1 ELSE 0
        /\ \A i \in 1..(h - 1 + 1) : a[i] = b[1 + i - 1]
    BY <1>1, <1>2, SubSeqProperties DEF Ancestor
  <1>4. Len(a) = h /\ \A i \in 1..h : a[i] = b[i]
    BY <1>3
  <1>5. \A i, j \in 1..Len(b) : i < j => b[i].view < b[j].view
    BY Zenon DEF Block
  <1>6. \A i, j \in 1..Len(a) : i < j => a[i].view < a[j].view
    BY <1>1, <1>4, <1>5 DEF Height
  <1>7. a \in Block
    BY <1>3, <1>6, Zenon DEF Block
  <1>8. a # << >> <=> h > 0
    BY <1>3, <1>4, EmptySeq
  <1>9. h > 0 => View(a) = b[h].view
    BY <1>4, <1>8 DEF View, Genesis
  <1>10. h = 0 => View(a) = 0
    BY <1>8 DEF View, Genesis
  <1>11. Len(b) > 0 => View(b) = b[Len(b)].view /\ b[Len(b)].view \in 1..MaxView
    BY BlockType DEF View, Genesis, Height
  <1>12. h = Len(b) => View(a) = View(b)
    BY <1>1, <1>9, <1>10, <1>11, BlockType DEF View, Genesis, Height
  <1>13. h < Len(b) => View(a) < View(b)
    <2> SUFFICES ASSUME h < Len(b) PROVE View(a) < View(b)
      BY Zenon
    <2>1. CASE h = 0
      BY <1>1, <1>10, <1>11, <2>1
    <2>2. CASE h > 0
      BY <1>1, <1>5, <1>9, <1>11, <2>2
    <2> QED BY <1>1, <2>1, <2>2
  <1>14. View(a) \in Nat /\ View(b) \in Nat
    BY <1>7, BlockType
  <1> HIDE DEF a
  <1>15. h \in 0..Len(b)
    BY Zenon DEF Height
  <1>16. View(a) <= View(b)
    BY <1>1, <1>12, <1>13, <1>14, <1>15
  <1> QED BY <1>4, <1>7, <1>13, <1>16, Zenon DEF a, Height

\* An ancestor's ancestor is an ancestor.
LEMMA AncestorOfAncestor ==
    ASSUME NEW b \in Block, NEW h \in 0..Height(b), NEW k \in 0..h
    PROVE  Ancestor(Ancestor(b, h), k) = Ancestor(b, k)
PROOF
  <1> DEFINE a == Ancestor(b, h)
  <1>1. a \in Block /\ Height(a) = h
    BY AncestorIsBlock, Zenon
  <1>2. b \in Seq(Header) /\ a \in Seq(Header) /\ Len(a) = h /\ Len(b) \in Nat /\ h <= Len(b)
    BY <1>1, BlockType DEF Height
  <1>3. \A i \in 1..h : a[i] = b[i] /\ b[i] \in Header
    BY <1>2, SubSeqProperties, BlockType DEF Ancestor, Height
  <1>4. /\ Ancestor(a, k) \in Seq(Header) /\ Len(Ancestor(a, k)) = k
        /\ \A i \in 1..k : Ancestor(a, k)[i] = a[i]
    BY <1>2, <1>3, SubSeqProperties DEF Ancestor
  <1>5. /\ Ancestor(b, k) \in Seq(Header) /\ Len(Ancestor(b, k)) = k
        /\ \A i \in 1..k : Ancestor(b, k)[i] = b[i]
    BY <1>2, <1>3, SubSeqProperties DEF Ancestor
  <1> QED BY <1>3, <1>4, <1>5, SeqEqual

\* The certified parent of a block is a block of a lower view, one height below.
LEMMA JustifyIsBlock ==
    ASSUME NEW b \in Block
    PROVE  /\ Justify(b) \in Block
           /\ b # Genesis => /\ Height(Justify(b)) = Height(b) - 1
                             /\ View(Justify(b)) < View(b)
           /\ b = Genesis => Justify(b) = Genesis
           /\ View(Justify(b)) <= View(b)
PROOF
  <1>1. CASE b # Genesis
    <2>1. Height(b) - 1 \in 0..Height(b) /\ Height(b) - 1 < Height(b)
      BY <1>1, BlockType
    <2> QED BY <1>1, <2>1, AncestorIsBlock, Zenon DEF Justify
  <1>2. CASE b = Genesis
    <2>1. Justify(b) = << >>
      BY <1>2, GenesisIsBlock, SubSeqEmpty DEF Justify, Ancestor, Height
    <2> QED BY <1>2, <2>1, GenesisIsBlock DEF Genesis
  <1> QED BY <1>1, <1>2, Zenon

-------------------------------------------------------------------------------
(***************************************************************************)
(* Facts about the transition functions.                                   *)
(***************************************************************************)
EngineOutput == [state : ConsensusState, newly : SUBSET (Block \ {Genesis})]

\* The certificates a replica holds are for views it has left.
CertificatesPast(s) == \A c \in s.certificates : View(c) < s.currentView

\* What no transition undoes: the view and the lock only rise.
Advances(s, t) ==
    /\ t.currentView >= s.currentView
    /\ View(t.lockedQC) >= View(s.lockedQC)

LEMMA AdvancesTransitive ==
    ASSUME NEW s \in ConsensusState, NEW t \in ConsensusState, NEW u \in ConsensusState,
           Advances(s, t), Advances(t, u)
    PROVE  Advances(s, u)
PROOF
  <1>1. /\ s.currentView \in Nat /\ t.currentView \in Nat /\ u.currentView \in Nat
        /\ s.lockedQC \in Block /\ t.lockedQC \in Block /\ u.lockedQC \in Block
    BY DEF ConsensusState
  <1>2. View(s.lockedQC) \in Nat /\ View(t.lockedQC) \in Nat /\ View(u.lockedQC) \in Nat
    BY SMTT(20), <1>1, BlockType
  <1> QED BY <1>1, <1>2 DEF Advances

LEMMA OutputType ==
    ASSUME NEW s \in ConsensusState
    PROVE  Output(s) \in EngineOutput /\ Output(s).state = s
  BY Zenon DEF Output, EngineOutput

LEMMA CommitThroughOutput ==
    ASSUME NEW o \in EngineOutput, NEW target \in Block
    PROVE  LET n == CommitThrough(o, target) IN
           /\ n \in EngineOutput
           /\ n.state.currentView = o.state.currentView
           /\ n.state.lastVoted = o.state.lastVoted
           /\ n.state.lockedQC = o.state.lockedQC
           /\ n.state.certificates = o.state.certificates
PROOF
  <1> DEFINE s == o.state
             walk == {Ancestor(target, h) : h \in (s.committedHeight + 1)..Height(target)}
             t == [s EXCEPT !.committedHeight = Height(target),
                            !.committed = @ \cup walk]
  <1>1. s \in ConsensusState /\ o.newly \subseteq Block \ {Genesis}
    BY Zenon DEF EngineOutput
  <1>2. s.committedHeight \in Nat /\ Height(target) \in Nat
    BY <1>1, BlockType, Zenon DEF ConsensusState
  <1>3. walk \subseteq Block \ {Genesis}
    <2> SUFFICES ASSUME NEW h \in (s.committedHeight + 1)..Height(target)
                 PROVE  Ancestor(target, h) \in Block \ {Genesis}
      BY Zenon
    <2>1. h \in 0..Height(target) /\ h > 0
      BY <1>2
    <2> QED BY <2>1, AncestorIsBlock, GenesisIsBlock
  <1>4. t \in ConsensusState
    BY <1>1, <1>2, <1>3, Zenon DEF ConsensusState
  <1>5. /\ t.currentView = s.currentView /\ t.lastVoted = s.lastVoted
        /\ t.lockedQC = s.lockedQC /\ t.certificates = s.certificates
    BY <1>1, Zenon DEF ConsensusState
  <1>6. CommitThrough(o, target) = IF walk \subseteq s.known /\ walk # {}
                                   THEN [state |-> t, newly |-> o.newly \cup walk]
                                   ELSE o
    BY Zenon DEF CommitThrough
  <1> HIDE DEF s, walk, t
  <1>7. CASE walk \subseteq s.known /\ walk # {}
    BY <1>1, <1>3, <1>4, <1>5, <1>6, <1>7 DEF EngineOutput, s
  <1>8. CASE ~(walk \subseteq s.known /\ walk # {})
    BY <1>6, <1>8, Zenon
  <1> QED BY <1>7, <1>8, Zenon

\* A certificate with a successor view is recorded, and moves the lock to its
\* block's parent when the block is known.
LEMMA ApplyCertificateOutput ==
    ASSUME NEW o \in EngineOutput, NEW qc \in Block, View(qc) < MaxView,
           CertificatesPast(o.state)
    PROVE  LET n == ApplyCertificate(o, qc) IN
           /\ n \in EngineOutput
           /\ Advances(o.state, n.state)
           /\ CertificatesPast(n.state)
           /\ n.state.lastVoted = o.state.lastVoted
           /\ n.state.certificates \subseteq o.state.certificates \cup {qc}
           /\ qc \in o.state.known => View(n.state.lockedQC) >= View(Justify(qc))
PROOF
  <1> DEFINE s == o.state
             recorded == [s EXCEPT
                 !.certificates = @ \cup {qc},
                 !.highQC = IF View(qc) > View(@) THEN qc ELSE @,
                 !.currentView = Max2(@, View(qc) + 1)]
             locked == [recorded EXCEPT
                 !.lockedQC = IF View(Justify(qc)) > View(@) THEN Justify(qc) ELSE @]
  <1>1. s \in ConsensusState /\ o.newly \subseteq Block \ {Genesis}
    BY Zenon DEF EngineOutput
  <1>2. /\ s.currentView \in 1..MaxView /\ s.lockedQC \in Block /\ s.highQC \in Block
        /\ s.certificates \subseteq Block
    BY <1>1, Zenon DEF ConsensusState
  <1>3. /\ View(qc) \in Nat /\ View(s.lockedQC) \in Nat /\ View(Justify(qc)) \in Nat
        /\ Justify(qc) \in Block /\ Justify(Justify(qc)) \in Block
        /\ \A c \in s.certificates : View(c) \in Nat
    <2>1. /\ Justify(qc) \in Block /\ Justify(Justify(qc)) \in Block
      BY JustifyIsBlock, Zenon
    <2> QED BY <1>2, <2>1, ViewIsNat, Zenon
  <1>4. /\ Max2(s.currentView, View(qc) + 1) \in 1..MaxView
        /\ Max2(s.currentView, View(qc) + 1) >= s.currentView
        /\ Max2(s.currentView, View(qc) + 1) > View(qc)
    BY <1>2, <1>3, ChainedHotStuffAssumption DEF Max2
  <1>5. /\ recorded \in ConsensusState
        /\ recorded.currentView = Max2(s.currentView, View(qc) + 1)
        /\ recorded.lockedQC = s.lockedQC /\ recorded.lastVoted = s.lastVoted
        /\ recorded.certificates = s.certificates \cup {qc}
    BY <1>1, <1>2, <1>4, Zenon DEF ConsensusState
  <1>6. CertificatesPast(recorded)
    BY <1>2, <1>3, <1>4, <1>5 DEF CertificatesPast
  <1> HIDE DEF recorded
  <1>7. /\ locked \in ConsensusState
        /\ locked.currentView = recorded.currentView
        /\ locked.lastVoted = recorded.lastVoted
        /\ locked.certificates = recorded.certificates
        /\ locked.lockedQC = IF View(Justify(qc)) > View(s.lockedQC)
                             THEN Justify(qc) ELSE s.lockedQC
    BY <1>3, <1>5, Zenon DEF ConsensusState
  <1> HIDE DEF locked
  <1>8. View(locked.lockedQC) >= View(s.lockedQC) /\ View(locked.lockedQC) >= View(Justify(qc))
    BY <1>3, <1>7
  <1>9. CertificatesPast(locked)
    BY <1>6, <1>7, Zenon DEF CertificatesPast
  <1>10. CASE qc = Genesis
    <2>1. ApplyCertificate(o, qc) = o
      BY <1>10, Zenon DEF ApplyCertificate
    <2>2. View(Justify(qc)) = 0
      BY <1>10, JustifyIsBlock, GenesisIsBlock, Zenon
    <2> QED BY <1>2, <1>3, <2>1, <2>2 DEF Advances
  <1>11. CASE qc # Genesis /\ qc \notin s.known
    <2>1. ApplyCertificate(o, qc) = [o EXCEPT !.state = recorded]
      BY <1>11, Zenon DEF ApplyCertificate, recorded
    <2>2. [o EXCEPT !.state = recorded] \in EngineOutput
          /\ [o EXCEPT !.state = recorded].state = recorded
      BY <1>5, Zenon DEF EngineOutput
    <2>3. Advances(s, recorded)
      BY <1>2, <1>3, <1>4, <1>5 DEF Advances
    <2> QED BY <1>5, <1>6, <1>11, <2>1, <2>2, <2>3, Zenon
  <1>12. CASE qc # Genesis /\ qc \in s.known
    <2> DEFINE l == [o EXCEPT !.state = locked]
    <2>1. l \in EngineOutput /\ l.state = locked
      BY <1>7, Zenon DEF EngineOutput
    <2>2. Advances(s, locked)
      BY <1>2, <1>3, <1>4, <1>5, <1>7, <1>8, Zenon DEF Advances
    <2>3. ApplyCertificate(o, qc) =
              IF Justify(qc) \notin s.known THEN l
              ELSE CommitThrough(l, Justify(Justify(qc)))
      BY <1>12, Zenon DEF ApplyCertificate, recorded, locked
    <2>4. LET n == CommitThrough(l, Justify(Justify(qc))) IN
          /\ n \in EngineOutput
          /\ n.state.currentView = l.state.currentView
          /\ n.state.lastVoted = l.state.lastVoted
          /\ n.state.lockedQC = l.state.lockedQC
          /\ n.state.certificates = l.state.certificates
      BY <1>3, <2>1, CommitThroughOutput, Zenon
    <2> HIDE DEF l
    <2>5. CASE Justify(qc) \notin s.known
      BY <1>5, <1>7, <1>8, <1>9, <2>1, <2>2, <2>3, <2>5
    <2>6. CASE Justify(qc) \in s.known
      BY <1>5, <1>7, <1>8, <1>9, <2>1, <2>2, <2>3, <2>4, <2>6
         DEF Advances, CertificatesPast
    <2> QED BY <2>5, <2>6, Zenon
  <1> QED BY <1>10, <1>11, <1>12, Zenon

LEMMA PruneOutput ==
    ASSUME NEW o \in EngineOutput, CertificatesPast(o.state)
    PROVE  LET n == Prune(o) IN
           /\ n \in EngineOutput
           /\ Advances(o.state, n.state)
           /\ CertificatesPast(n.state)
           /\ n.state.lastVoted = o.state.lastVoted
           /\ n.state.lockedQC = o.state.lockedQC
PROOF
  <1> DEFINE s == o.state
             minimum == s.committedHeight - RetainCommittedHeights
             keep(b) == Height(b) >= minimum \/ b \in {s.highQC, s.lockedQC}
             known == {b \in s.known : keep(b)}
             t == [s EXCEPT !.known = known,
                            !.certificates = {b \in s.certificates : keep(b)},
                            !.committed = @ \cap known]
  <1>1. s \in ConsensusState
    BY Zenon DEF EngineOutput
  <1>2. /\ t \in ConsensusState
        /\ t.currentView = s.currentView /\ t.lastVoted = s.lastVoted
        /\ t.lockedQC = s.lockedQC /\ t.certificates \subseteq s.certificates
    BY <1>1, Zenon DEF ConsensusState
  <1>3. Prune(o) = [o EXCEPT !.state = t]
    BY Zenon DEF Prune
  <1> HIDE DEF t
  <1>4. Prune(o) \in EngineOutput /\ Prune(o).state = t
    BY <1>2, <1>3, Zenon DEF EngineOutput
  <1>5. s.currentView \in Nat /\ View(s.lockedQC) \in Nat
    BY <1>1, BlockType DEF ConsensusState
  <1> QED BY <1>2, <1>4, <1>5 DEF Advances, CertificatesPast

\* What every event of the engine preserves, from a loaded state s.
Preserves(s, o) ==
    /\ o \in EngineOutput
    /\ Advances(s, o.state)
    /\ CertificatesPast(o.state)

LEMMA InsertOutput ==
    ASSUME NEW s \in ConsensusState, NEW b \in Block, CertificatesPast(s)
    PROVE  LET n == Insert(s, b) IN
           /\ Preserves(s, n)
           /\ n.state.lastVoted = s.lastVoted
           /\ n.state.currentView = s.currentView
           /\ n.state.lockedQC = s.lockedQC
           /\ n.state.certificates = s.certificates
           /\ n.state.known = s.known \cup {b}
PROOF
  <1> DEFINE t == [s EXCEPT !.known = @ \cup {b}]
  <1>1. /\ t \in ConsensusState
        /\ t.currentView = s.currentView /\ t.lastVoted = s.lastVoted
        /\ t.lockedQC = s.lockedQC /\ t.certificates = s.certificates
        /\ t.known = s.known \cup {b}
    BY Zenon DEF ConsensusState
  <1>2. Insert(s, b) = Output(t)
    BY Zenon DEF Insert
  <1> HIDE DEF t
  <1>3. s.currentView \in Nat /\ View(s.lockedQC) \in Nat
    BY BlockType, ChainedHotStuffAssumption DEF ConsensusState
  <1> QED BY <1>1, <1>2, <1>3, OutputType DEF Advances, CertificatesPast, Preserves

\* A proposal is inserted and its justify certificate applied.
Justified(s, b) == ApplyCertificate(Insert(s, b), Justify(b))

LEMMA JustifiedOutput ==
    ASSUME NEW s \in ConsensusState, NEW b \in Block \ {Genesis}, CertificatesPast(s)
    PROVE  LET n == Justified(s, b) IN
           /\ Preserves(s, n)
           /\ n.state.lastVoted = s.lastVoted
           /\ n.state.certificates \subseteq s.certificates \cup {Justify(b)}
           /\ Justify(b) \in s.known =>
                 View(n.state.lockedQC) >= View(Justify(Justify(b)))
PROOF
  <1> DEFINE i == Insert(s, b)
             n == Justified(s, b)
  <1>1. /\ Justify(b) \in Block /\ View(Justify(b)) < View(b)
        /\ View(Justify(b)) \in Nat /\ View(b) \in 0..MaxView
    BY JustifyIsBlock, BlockType, ChainedHotStuffAssumption
  <1>2. View(Justify(b)) < MaxView
    BY <1>1, ChainedHotStuffAssumption
  <1>3. /\ Preserves(s, i) /\ i.state.lastVoted = s.lastVoted
        /\ i.state.certificates = s.certificates
        /\ i.state.known = s.known \cup {b}
    BY InsertOutput, Zenon
  <1>4. i \in EngineOutput /\ CertificatesPast(i.state) /\ Advances(s, i.state)
    BY <1>3, Zenon DEF Preserves
  <1>5. n = ApplyCertificate(i, Justify(b))
    BY Zenon DEF Justified
  <1> HIDE DEF i, n
  <1>6. /\ n \in EngineOutput /\ Advances(i.state, n.state)
        /\ CertificatesPast(n.state)
        /\ n.state.lastVoted = i.state.lastVoted
        /\ n.state.certificates \subseteq i.state.certificates \cup {Justify(b)}
        /\ Justify(b) \in i.state.known => View(n.state.lockedQC) >= View(Justify(Justify(b)))
    BY <1>1, <1>2, <1>4, <1>5, ApplyCertificateOutput, Zenon
  <1>7. Advances(s, n.state)
    BY <1>4, <1>6, AdvancesTransitive, Zenon DEF EngineOutput
  <1> QED BY <1>3, <1>6, <1>7, Zenon DEF Preserves, n

LEMMA ObservedProposalOutput ==
    ASSUME NEW s \in ConsensusState, NEW b \in Block \ {Genesis}, CertificatesPast(s)
    PROVE  LET n == ObservedProposal(s, b) IN
           /\ Preserves(s, n)
           /\ n.state.lastVoted = s.lastVoted
PROOF
  <1> DEFINE j == Justified(s, b)
             a == ApplyCertificate(j, b)
             m == IF b \in j.state.certificates THEN a ELSE j
  <1>1. /\ Preserves(s, j) /\ j.state.lastVoted = s.lastVoted
        /\ j.state.certificates \subseteq s.certificates \cup {Justify(b)}
    BY JustifiedOutput, Zenon
  <1>2. ObservedProposal(s, b) = Prune(m)
    BY Zenon DEF ObservedProposal, Justified
  <1>3. j \in EngineOutput /\ CertificatesPast(j.state) /\ Advances(s, j.state)
    BY <1>1, Zenon DEF Preserves
  <1> HIDE DEF j
  <1>4. ASSUME b \in j.state.certificates
        PROVE  /\ a \in EngineOutput /\ Advances(s, a.state)
               /\ CertificatesPast(a.state) /\ a.state.lastVoted = s.lastVoted
    <2>1. View(b) < j.state.currentView
      BY <1>3, <1>4, Zenon DEF CertificatesPast
    <2>2. j.state.currentView \in 1..MaxView
      BY <1>3, Zenon DEF EngineOutput, ConsensusState
    <2>3. View(b) < MaxView
      BY <2>1, <2>2, ViewIsNat, ChainedHotStuffAssumption
    <2>4. /\ a \in EngineOutput /\ Advances(j.state, a.state)
          /\ CertificatesPast(a.state) /\ a.state.lastVoted = j.state.lastVoted
      BY <1>3, <2>3, ApplyCertificateOutput, Zenon
    <2>5. Advances(s, a.state)
      BY <1>3, <2>4, AdvancesTransitive, Zenon DEF EngineOutput
    <2> QED BY <1>1, <2>4, <2>5, Zenon
  <1> HIDE DEF a
  <1>6. /\ m \in EngineOutput /\ Advances(s, m.state)
        /\ CertificatesPast(m.state) /\ m.state.lastVoted = s.lastVoted
    <2>1. CASE b \in j.state.certificates
      BY <1>4, <2>1, Zenon
    <2>2. CASE b \notin j.state.certificates
      BY <1>1, <1>3, <2>2, Zenon
    <2> QED BY <2>1, <2>2, Zenon
  <1> HIDE DEF m
  <1>7. /\ Prune(m) \in EngineOutput /\ Advances(m.state, Prune(m).state)
        /\ CertificatesPast(Prune(m).state)
        /\ Prune(m).state.lastVoted = m.state.lastVoted
    BY <1>6, PruneOutput, Zenon
  <1>8. Advances(s, Prune(m).state)
    BY <1>6, <1>7, AdvancesTransitive, Zenon DEF EngineOutput
  <1> QED BY <1>2, <1>6, <1>7, <1>8, Zenon DEF Preserves

\* A vote becomes the last one, leaves the block's view behind, and locks the
\* grandparent when the parent is known.
LEMMA VotedProposalOutput ==
    ASSUME NEW s \in ConsensusState, NEW b \in Block \ {Genesis}, CertificatesPast(s),
           ViewHasSuccessor(b)
    PROVE  LET n == VotedProposal(s, b) IN
           /\ Preserves(s, n)
           /\ n.state.lastVoted = b
           /\ n.state.currentView > View(b)
           /\ Justify(b) \in s.known =>
                 View(n.state.lockedQC) >= View(Justify(Justify(b)))
PROOF
  <1> DEFINE j == Justified(s, b)
             m == [j EXCEPT !.state.lastVoted = b,
                            !.state.currentView = Max2(@, View(b) + 1)]
             t == [j.state EXCEPT !.lastVoted = b,
                                  !.currentView = Max2(@, View(b) + 1)]
  <1>1. /\ Preserves(s, j)
        /\ Justify(b) \in s.known => View(j.state.lockedQC) >= View(Justify(Justify(b)))
    BY JustifiedOutput, Zenon
  <1>2. VotedProposal(s, b) = Prune(m)
    BY Zenon DEF VotedProposal, Justified
  <1>3. j \in EngineOutput /\ CertificatesPast(j.state) /\ Advances(s, j.state)
    BY <1>1, Zenon DEF Preserves
  <1> HIDE DEF j
  <1>4. j.state \in ConsensusState /\ j.newly \subseteq Block \ {Genesis}
    BY <1>3, Zenon DEF EngineOutput
  <1>5. View(b) \in Nat /\ j.state.currentView \in 1..MaxView /\ View(j.state.lockedQC) \in Nat
        /\ \A c \in j.state.certificates : View(c) \in Nat
    BY <1>4, ViewIsNat, Zenon DEF ConsensusState
  <1>6. /\ Max2(j.state.currentView, View(b) + 1) \in 1..MaxView
        /\ Max2(j.state.currentView, View(b) + 1) >= j.state.currentView
        /\ Max2(j.state.currentView, View(b) + 1) > View(b)
    BY <1>5, ChainedHotStuffAssumption DEF Max2, ViewHasSuccessor
  <1>7. /\ t \in ConsensusState
        /\ t.lastVoted = b /\ t.currentView = Max2(j.state.currentView, View(b) + 1)
        /\ t.lockedQC = j.state.lockedQC /\ t.certificates = j.state.certificates
    BY <1>4, <1>6, Zenon DEF ConsensusState
  <1>8. m = [j EXCEPT !.state = t]
    BY <1>3, <1>4, Zenon DEF EngineOutput, ConsensusState
  <1> HIDE DEF m, t
  <1>9. m \in EngineOutput /\ m.state = t
    BY <1>3, <1>7, <1>8, Zenon DEF EngineOutput
  <1>10. Advances(j.state, t) /\ CertificatesPast(t)
    BY <1>3, <1>5, <1>6, <1>7 DEF Advances, CertificatesPast
  <1>11. /\ Prune(m) \in EngineOutput /\ Advances(m.state, Prune(m).state)
         /\ CertificatesPast(Prune(m).state)
         /\ Prune(m).state.lastVoted = m.state.lastVoted
         /\ Prune(m).state.lockedQC = m.state.lockedQC
    BY <1>9, <1>10, PruneOutput, Zenon
  <1>12. Prune(m).state \in ConsensusState
    BY <1>11, Zenon DEF EngineOutput
  <1>13. Advances(s, t)
    BY <1>3, <1>4, <1>7, <1>10, AdvancesTransitive, Zenon
  <1>14. Advances(s, Prune(m).state)
    BY <1>7, <1>9, <1>11, <1>12, <1>13, AdvancesTransitive, Zenon
  <1>15. Prune(m).state.currentView > View(b)
    <2>1. Prune(m).state.currentView \in Nat /\ t.currentView \in Nat
      BY <1>7, <1>12 DEF ConsensusState
    <2>2. Prune(m).state.currentView >= t.currentView
      BY <1>9, <1>11, Zenon DEF Advances
    <2> QED BY <1>5, <1>6, <1>7, <2>1, <2>2
  <1> QED BY <1>1, <1>2, <1>7, <1>9, <1>11, <1>14, <1>15, Zenon DEF Preserves

LEMMA CertificateAppliedOutput ==
    ASSUME NEW s \in ConsensusState, NEW qc \in Block, CertificatesPast(s),
           ViewHasSuccessor(qc)
    PROVE  LET n == CertificateApplied(s, qc) IN
           /\ Preserves(s, n)
           /\ n.state.lastVoted = s.lastVoted
PROOF
  <1> DEFINE a == ApplyCertificate(Output(s), qc)
  <1>1. Output(s) \in EngineOutput /\ Output(s).state = s
    BY OutputType, Zenon
  <1>2. /\ a \in EngineOutput /\ Advances(s, a.state) /\ CertificatesPast(a.state)
        /\ a.state.lastVoted = s.lastVoted
    BY <1>1, ApplyCertificateOutput DEF ViewHasSuccessor
  <1>3. CertificateApplied(s, qc) = Prune(a)
    BY Zenon DEF CertificateApplied
  <1> HIDE DEF a
  <1>4. /\ Prune(a) \in EngineOutput /\ Advances(a.state, Prune(a).state)
        /\ CertificatesPast(Prune(a).state)
        /\ Prune(a).state.lastVoted = a.state.lastVoted
    BY <1>2, PruneOutput, Zenon
  <1>5. Advances(s, Prune(a).state)
    BY <1>2, <1>4, AdvancesTransitive, Zenon DEF EngineOutput
  <1> QED BY <1>2, <1>3, <1>4, <1>5, Zenon DEF Preserves

LEMMA TickAppliedOutput ==
    ASSUME NEW s \in ConsensusState, CertificatesPast(s), s.currentView < MaxView
    PROVE  LET n == TickApplied(s) IN
           /\ Preserves(s, n)
           /\ n.state.lastVoted = s.lastVoted
PROOF
  <1> DEFINE t == [s EXCEPT !.currentView = @ + 1]
             o == Output(t)
  <1>1. s.currentView \in 1..MaxView /\ View(s.lockedQC) \in Nat
        /\ \A c \in s.certificates : View(c) \in Nat
    BY BlockType, ChainedHotStuffAssumption DEF ConsensusState
  <1>2. s.currentView + 1 \in 1..MaxView
    BY <1>1, ChainedHotStuffAssumption
  <1>3. /\ t \in ConsensusState
        /\ t.currentView = s.currentView + 1 /\ t.lastVoted = s.lastVoted
        /\ t.lockedQC = s.lockedQC /\ t.certificates = s.certificates
    BY <1>2, Zenon DEF ConsensusState
  <1>4. TickApplied(s) = Prune(o)
    BY Zenon DEF TickApplied
  <1> HIDE DEF t
  <1>5. Advances(s, t) /\ CertificatesPast(t)
    BY <1>1, <1>3, ChainedHotStuffAssumption DEF Advances, CertificatesPast
  <1>6. o \in EngineOutput /\ o.state = t
    BY <1>3, OutputType, Zenon
  <1> HIDE DEF o
  <1>7. /\ Prune(o) \in EngineOutput /\ Advances(o.state, Prune(o).state)
        /\ CertificatesPast(Prune(o).state)
        /\ Prune(o).state.lastVoted = o.state.lastVoted
    BY <1>5, <1>6, PruneOutput, Zenon
  <1>8. Advances(s, Prune(o).state)
    BY <1>3, <1>5, <1>6, <1>7, AdvancesTransitive, Zenon DEF EngineOutput
  <1> QED BY <1>3, <1>4, <1>6, <1>7, <1>8, Zenon DEF Preserves

-------------------------------------------------------------------------------
(***************************************************************************)
(* What an event commits, retains and locks.                               *)
(***************************************************************************)
\* The blocks of the chain that ends in t, above height low.
Walk(low, t) == {Ancestor(t, h) : h \in (low + 1)..Height(t)}

LEMMA WalkBlocks ==
    ASSUME NEW low \in Nat, NEW t \in Block
    PROVE  /\ \A b \in Walk(low, t) :
                 /\ b \in Block /\ b # Genesis /\ View(b) <= View(t)
                 /\ Height(b) \in (low + 1)..Height(t)
                 /\ b = Ancestor(t, Height(b))
           /\ \A h \in (low + 1)..Height(t) : Ancestor(t, h) \in Walk(low, t)
           /\ Height(t) \in Nat
           /\ Walk(low, t) = {} => Height(t) <= low
           /\ Walk(low, t) # {} => Height(t) > low /\ t \in Walk(low, t)
PROOF
  <1>1. Height(t) \in Nat
    BY BlockType, Zenon
  <1>2. ASSUME NEW h \in (low + 1)..Height(t)
        PROVE  /\ Ancestor(t, h) \in Block /\ Height(Ancestor(t, h)) = h
               /\ View(Ancestor(t, h)) <= View(t) /\ Ancestor(t, h) # Genesis
    <2>1. h \in 0..Height(t) /\ h # 0
      BY <1>1
    <2> QED BY <2>1, AncestorIsBlock, GenesisIsBlock, Zenon
  <1>3. Height(t) > low => Height(t) \in (low + 1)..Height(t)
    BY <1>1
  <1>4. Height(t) <= low => (low + 1)..Height(t) = {}
    BY <1>1
  <1>5. Ancestor(t, Height(t)) = t
    <2>1. t \in Seq(Header)
      BY BlockType, Zenon
    <2> QED BY <2>1 DEF Ancestor, Height
  <1>6. Height(t) > low \/ Height(t) <= low
    BY <1>1
  <1>7. Height(t) <= low => Walk(low, t) = {}
    BY Zenon, <1>4 DEF Walk
  <1>8. Height(t) > low => t \in Walk(low, t)
    BY Zenon, <1>3, <1>5 DEF Walk
  <1>9. \A b \in Walk(low, t) :
                 /\ b \in Block /\ b # Genesis /\ View(b) <= View(t)
                 /\ Height(b) \in (low + 1)..Height(t)
                 /\ b = Ancestor(t, Height(b))
    BY Zenon, <1>2 DEF Walk
  <1>10. \A h \in (low + 1)..Height(t) : Ancestor(t, h) \in Walk(low, t)
    BY Zenon DEF Walk
  <1> QED BY Zenon, <1>1, <1>6, <1>7, <1>8, <1>9, <1>10

\* CommitThrough either does nothing or commits the walk to its target.
LEMMA CommitThroughEffect ==
    ASSUME NEW o \in EngineOutput, NEW target \in Block
    PROVE  LET s == o.state
               n == CommitThrough(o, target)
               walk == Walk(s.committedHeight, target)
           IN  \/ n = o
               \/ /\ walk # {} /\ walk \subseteq s.known
                  /\ n.newly = o.newly \cup walk
                  /\ n.state.committedHeight = Height(target)
                  /\ n.state.committed = s.committed \cup walk
                  /\ n.state.known = s.known
                  /\ n.state.highQC = s.highQC
PROOF
  <1> DEFINE s == o.state
             walk == Walk(s.committedHeight, target)
             t == [s EXCEPT !.committedHeight = Height(target),
                            !.committed = @ \cup walk]
  <1>1. s \in ConsensusState
    BY Zenon DEF EngineOutput
  <1>2. /\ t.committedHeight = Height(target) /\ t.committed = s.committed \cup walk
        /\ t.known = s.known /\ t.highQC = s.highQC
    BY <1>1, Zenon DEF ConsensusState
  <1>3. CommitThrough(o, target) = IF walk \subseteq s.known /\ walk # {}
                                   THEN [state |-> t, newly |-> o.newly \cup walk]
                                   ELSE o
    BY Zenon DEF CommitThrough, Walk
  <1> HIDE DEF s, walk, t
  <1>4. CASE walk \subseteq s.known /\ walk # {}
    BY <1>2, <1>3, <1>4 DEF s, walk
  <1>5. CASE ~(walk \subseteq s.known /\ walk # {})
    BY <1>3, <1>5, Zenon
  <1> QED BY <1>4, <1>5, Zenon

\* From o to n the walk to t is committed; each of its blocks is older than the
\* lock.  The walk to the anchor is empty.
Commits(o, n, t) ==
    LET walk == Walk(o.state.committedHeight, t) IN
    /\ n.newly = o.newly \cup walk
    /\ n.state.committed = o.state.committed \cup walk
    /\ n.state.committedHeight = Max2(o.state.committedHeight, Height(t))
    /\ walk \subseteq o.state.known
    /\ \A b \in walk : View(b) < View(n.state.lockedQC)

LEMMA CommitsNothing ==
    ASSUME NEW o \in EngineOutput, NEW n, n.newly = o.newly,
           n.state.committed = o.state.committed,
           n.state.committedHeight = o.state.committedHeight
    PROVE  Commits(o, n, Genesis)
PROOF
  <1>1. o.state.committedHeight \in Nat
    BY Zenon DEF EngineOutput, ConsensusState
  <1>2. Walk(o.state.committedHeight, Genesis) = {}
    BY <1>1, WalkBlocks, GenesisIsBlock, Zenon
  <1>3. Max2(o.state.committedHeight, Height(Genesis)) = o.state.committedHeight
    BY <1>1, GenesisIsBlock DEF Max2
  <1> QED BY Zenon, <1>2, <1>3 DEF Commits

\* What a loaded state has in order, apart from its lock.
Coherent(s) ==
    /\ View(s.highQC) < s.currentView
    /\ View(s.lockedQC) <= View(s.highQC)
    /\ s.highQC \in s.certificates \cup {Genesis}
    /\ s.committed \subseteq s.known

\* apply_certificate records qc, and moves the lock to its parent or not at all.
LEMMA ApplyCertificateEffect ==
    ASSUME NEW o \in EngineOutput, NEW qc \in Block, View(qc) < MaxView,
           CertificatesPast(o.state), Coherent(o.state)
    PROVE  LET n == ApplyCertificate(o, qc) IN
           /\ Coherent(n.state)
           /\ n.state.known = o.state.known
           /\ n.state.certificates \cup {Genesis} = o.state.certificates \cup {qc, Genesis}
           /\ n.state.certificates \subseteq o.state.certificates \cup {qc}
           /\ \/ n.state.lockedQC = o.state.lockedQC
              \/ qc \in o.state.known /\ n.state.lockedQC = Justify(qc)
           /\ \E t \in Block : Commits(o, n, t)
PROOF
  <1> DEFINE s == o.state
             recorded == [s EXCEPT
                 !.certificates = @ \cup {qc},
                 !.highQC = IF View(qc) > View(@) THEN qc ELSE @,
                 !.currentView = Max2(@, View(qc) + 1)]
             locked == [recorded EXCEPT
                 !.lockedQC = IF View(Justify(qc)) > View(@) THEN Justify(qc) ELSE @]
  <1>1. s \in ConsensusState /\ o.newly \subseteq Block \ {Genesis}
    BY Zenon DEF EngineOutput
  <1>2. /\ s.currentView \in 1..MaxView /\ s.lockedQC \in Block /\ s.highQC \in Block
        /\ s.certificates \subseteq Block /\ s.committedHeight \in Nat
    BY <1>1, Zenon DEF ConsensusState
  <1>3. /\ View(qc) \in Nat /\ View(s.lockedQC) \in Nat /\ View(Justify(qc)) \in Nat
        /\ View(s.highQC) \in Nat
        /\ Justify(qc) \in Block /\ Justify(Justify(qc)) \in Block
        /\ View(Justify(qc)) <= View(qc)
    <2>1. /\ Justify(qc) \in Block /\ Justify(Justify(qc)) \in Block
          /\ View(Justify(qc)) <= View(qc)
      BY JustifyIsBlock, Zenon
    <2> QED BY <1>2, <2>1, ViewIsNat, Zenon
  <1>4. /\ recorded.currentView = Max2(s.currentView, View(qc) + 1)
        /\ recorded.highQC = IF View(qc) > View(s.highQC) THEN qc ELSE s.highQC
        /\ recorded.lockedQC = s.lockedQC
        /\ recorded.certificates = s.certificates \cup {qc}
        /\ recorded.known = s.known /\ recorded.committed = s.committed
        /\ recorded.committedHeight = s.committedHeight
        /\ recorded \in ConsensusState
    <2>1. Max2(s.currentView, View(qc) + 1) \in 1..MaxView
      BY <1>2, <1>3, ChainedHotStuffAssumption DEF Max2
    <2> QED BY <1>1, <1>2, <2>1, Zenon DEF ConsensusState
  <1>5. Coherent(recorded) /\ View(qc) <= View(recorded.highQC)
    <2>1. /\ View(s.highQC) < s.currentView /\ View(s.lockedQC) <= View(s.highQC)
          /\ s.highQC \in s.certificates \cup {Genesis} /\ s.committed \subseteq s.known
      BY Zenon DEF Coherent
    <2>2. CASE View(qc) > View(s.highQC)
      BY <1>2, <1>3, <1>4, <2>1, <2>2 DEF Coherent, Max2
    <2>3. CASE ~(View(qc) > View(s.highQC))
      BY <1>2, <1>3, <1>4, <2>1, <2>3 DEF Coherent, Max2
    <2> QED BY <2>2, <2>3, Zenon
  <1> HIDE DEF recorded
  <1>6. /\ locked \in ConsensusState
        /\ locked.currentView = recorded.currentView
        /\ locked.highQC = recorded.highQC
        /\ locked.certificates = recorded.certificates
        /\ locked.known = recorded.known /\ locked.committed = recorded.committed
        /\ locked.committedHeight = recorded.committedHeight
        /\ locked.lockedQC = IF View(Justify(qc)) > View(s.lockedQC)
                             THEN Justify(qc) ELSE s.lockedQC
    BY <1>3, <1>4, Zenon DEF ConsensusState
  <1> HIDE DEF locked
  <1>7. Coherent(locked) /\ View(Justify(qc)) <= View(locked.lockedQC)
    <2>1. recorded.highQC \in Block
      BY <1>4, Zenon DEF ConsensusState
    <2>2. View(recorded.highQC) \in Nat
      BY <2>1, ViewIsNat, Zenon
    <2> QED BY <1>3, <1>4, <1>5, <1>6, <2>2 DEF Coherent
  <1>8. CASE qc = Genesis
    <2>1. ApplyCertificate(o, qc) = o
      BY <1>8, Zenon DEF ApplyCertificate
    <2>2. Commits(o, o, Genesis)
      BY CommitsNothing, Zenon
    <2> QED BY Zenon, <1>8, <2>1, <2>2, GenesisIsBlock
  <1>9. CASE qc # Genesis /\ qc \notin s.known
    <2> DEFINE n == [o EXCEPT !.state = recorded]
    <2>1. ApplyCertificate(o, qc) = n
      BY <1>9, Zenon DEF ApplyCertificate, recorded
    <2>2. n.state = recorded /\ n.newly = o.newly
      BY Zenon DEF EngineOutput
    <2> HIDE DEF n
    <2>3. Commits(o, n, Genesis)
      BY <1>4, <2>2, CommitsNothing, Zenon
    <2> QED BY Zenon, <1>4, <1>5, <2>1, <2>2, <2>3, GenesisIsBlock
  <1>10. CASE qc # Genesis /\ qc \in s.known
    <2> DEFINE l == [o EXCEPT !.state = locked]
               target == Justify(Justify(qc))
               n == ApplyCertificate(o, qc)
    <2>1. l \in EngineOutput /\ l.state = locked /\ l.newly = o.newly
      BY <1>6, Zenon DEF EngineOutput
    <2>2. n = IF Justify(qc) \notin s.known THEN l ELSE CommitThrough(l, target)
      BY <1>10, Zenon DEF ApplyCertificate, recorded, locked
    <2> HIDE DEF l, n, target
    <2>3. target \in Block
      BY Zenon, <1>3 DEF target
    <2>4. CASE n = l
      <3>1. Commits(o, n, Genesis)
        BY <1>4, <1>6, <2>1, <2>4, CommitsNothing, Zenon
      <3> QED BY Zenon, <1>4, <1>6, <1>7, <1>10, <2>1, <2>4, <3>1, GenesisIsBlock DEF n
    <2>5. CASE n # l
      <3> DEFINE walk == Walk(s.committedHeight, target)
      <3>1. n = CommitThrough(l, target)
        BY Zenon, <2>2, <2>5
      <3>2. /\ walk # {} /\ walk \subseteq s.known /\ n.newly = o.newly \cup walk
            /\ n.state.committedHeight = Height(target)
            /\ n.state.committed = s.committed \cup walk
            /\ n.state.known = s.known /\ n.state.highQC = locked.highQC
        BY <1>4, <1>6, <2>1, <2>3, <2>5, <3>1, CommitThroughEffect
      <3>3. /\ n.state.currentView = locked.currentView
            /\ n.state.lockedQC = locked.lockedQC
            /\ n.state.certificates = locked.certificates
        BY <2>1, <2>3, <3>1, CommitThroughOutput, Zenon
      <3>4. Coherent(n.state)
        BY Zenon, <1>4, <1>5, <1>6, <1>7, <3>2, <3>3 DEF Coherent
      <3>5. Height(target) > s.committedHeight /\ Height(target) \in Nat
        BY Zenon, <1>2, <2>3, <3>2, WalkBlocks
      <3>6. Max2(s.committedHeight, Height(target)) = Height(target)
        BY <1>2, <3>5 DEF Max2
      <3>7. Justify(qc) # Genesis
        BY Zenon, <1>2, <2>3, <3>2, JustifyIsBlock, GenesisIsBlock, WalkBlocks DEF target
      <3>8. View(target) < View(Justify(qc)) /\ View(target) \in Nat
        BY Zenon, <1>3, <2>3, <3>7, JustifyIsBlock, ViewIsNat DEF target
      <3>9. \A b \in walk : View(b) < View(n.state.lockedQC)
        <4> TAKE b \in walk
        <4>1. View(b) <= View(target) /\ View(b) \in Nat
          BY Zenon, <1>2, <2>3, WalkBlocks, ViewIsNat
        <4>2. View(locked.lockedQC) \in Nat
          BY Zenon, <1>6, ViewIsNat DEF ConsensusState
        <4> QED BY <1>3, <1>7, <3>3, <3>8, <4>1, <4>2
      <3>10. Commits(o, n, target)
        BY Zenon, <3>2, <3>6, <3>9 DEF Commits
      <3> QED BY Zenon, <1>4, <1>6, <1>10, <2>3, <3>2, <3>3, <3>4, <3>10 DEF n
    <2> QED BY Zenon, <2>4, <2>5
  <1> QED BY Zenon, <1>8, <1>9, <1>10

\* The parent of a known block, and the lock, are retained as certificates or
\* are below the heights that pruning keeps.
Retained(s, b) ==
    \/ b \in s.certificates \cup {Genesis}
    \/ Height(b) < s.committedHeight - RetainCommittedHeights

Settled(s) ==
    /\ Coherent(s)
    /\ \A b \in s.known : Retained(s, Justify(b))
    /\ Retained(s, s.lockedQC)

\* An event takes a settled state to a settled one with the certificates C it
\* brings, and commits only blocks that are older than the lock.
Effect(s, o, C) ==
    /\ Settled(o.state)
    /\ StoredCertificates(o.state) \subseteq StoredCertificates(s) \cup C
    /\ o.state.committed \subseteq s.committed \cup o.newly
    /\ \A b \in o.newly : View(b) < View(o.state.lockedQC)

\* What it commits are two walks at most, the second on top of the first.
TwoWalks(c, o) ==
    \E t, u \in Block :
        /\ o.newly = Walk(c, t) \cup Walk(Max2(c, Height(t)), u)
        /\ o.state.committedHeight = Max2(Max2(c, Height(t)), Height(u))

LEMMA PruneEffect ==
    ASSUME NEW s \in ConsensusState, NEW o \in EngineOutput, NEW C, Effect(s, o, C),
           TwoWalks(s.committedHeight, o)
    PROVE  Effect(s, Prune(o), C) /\ TwoWalks(s.committedHeight, Prune(o))
PROOF
  <1> DEFINE m == o.state
             minimum == m.committedHeight - RetainCommittedHeights
             keep(b) == Height(b) >= minimum \/ b \in {m.highQC, m.lockedQC}
             known == {b \in m.known : keep(b)}
             t == [m EXCEPT !.known = known,
                            !.certificates = {b \in m.certificates : keep(b)},
                            !.committed = @ \cap known]
             n == Prune(o)
  <1>1. m \in ConsensusState
    BY Zenon DEF EngineOutput
  <1>2. /\ t.currentView = m.currentView /\ t.highQC = m.highQC /\ t.lockedQC = m.lockedQC
        /\ t.committedHeight = m.committedHeight /\ t.known = {b \in m.known : keep(b)}
        /\ t.certificates = {b \in m.certificates : keep(b)}
        /\ t.committed = m.committed \cap known
    BY <1>1, Zenon DEF ConsensusState
  <1>3. n = [o EXCEPT !.state = t]
    BY Zenon DEF Prune
  <1> HIDE DEF t, n
  <1>4. n.state = t /\ n.newly = o.newly
    BY <1>3, Zenon DEF EngineOutput
  <1>5. minimum \in Int /\ m.known \subseteq Block /\ m.lockedQC \in Block
        /\ m.certificates \subseteq Block
    BY <1>1, ChainedHotStuffAssumption DEF ConsensusState
  <1>6. \A b \in Block : Height(b) \in Nat /\ (Height(b) >= minimum \/ Height(b) < minimum)
    BY <1>5, BlockType
  <1>7. ASSUME NEW b \in Block, Retained(m, b)
        PROVE  Retained(t, b)
    <2>1. CASE b \in m.certificates /\ ~(Height(b) < minimum)
      BY Zenon, <1>2, <1>6, <2>1 DEF Retained
    <2>2. CASE Height(b) < minimum
      BY Zenon, <1>2, <2>2 DEF Retained
    <2>3. CASE b = Genesis
      BY Zenon, <2>3 DEF Retained
    <2> QED BY Zenon, <1>7, <2>1, <2>2, <2>3 DEF Retained
  <1>8. Coherent(m) /\ Retained(m, m.lockedQC) /\ \A b \in m.known : Retained(m, Justify(b))
    BY Zenon DEF Effect, Settled
  <1>9. Coherent(t)
    <2>1. t.highQC \in t.certificates \cup {Genesis} /\ t.committed \subseteq t.known
      BY Zenon, <1>2, <1>8 DEF Coherent
    <2> QED BY Zenon, <1>2, <1>8, <2>1 DEF Coherent
  <1>10. \A b \in t.known : Retained(t, Justify(b))
    BY Zenon, <1>2, <1>5, <1>7, <1>8, JustifyIsBlock
  <1>11. Retained(t, t.lockedQC)
    BY Zenon, <1>2, <1>5, <1>7, <1>8
  <1>12. Settled(n.state)
    BY Zenon, <1>4, <1>9, <1>10, <1>11 DEF Settled
  <1>13. StoredCertificates(n.state) \subseteq StoredCertificates(o.state)
    BY Zenon, <1>2, <1>4 DEF StoredCertificates
  <1>14. n.state.committed \subseteq o.state.committed
    BY Zenon, <1>2, <1>4
  <1>15. Effect(s, n, C)
    BY Zenon, <1>2, <1>4, <1>12, <1>13, <1>14 DEF Effect
  <1>16. TwoWalks(s.committedHeight, n)
    BY Zenon, <1>2, <1>4 DEF TwoWalks
  <1> QED BY Zenon, <1>15, <1>16 DEF n

\* One walk is two.
LEMMA WalkThenNothing ==
    ASSUME NEW c \in Nat, NEW t \in Block, NEW o, o.newly = Walk(c, t),
           o.state.committedHeight = Max2(c, Height(t))
    PROVE  TwoWalks(c, o)
PROOF
  <1>1. Height(t) \in Nat
    BY BlockType, Zenon
  <1>2. Max2(c, Height(t)) \in Nat
    BY <1>1, Zenon DEF Max2
  <1>3. Walk(Max2(c, Height(t)), Genesis) = {}
    BY Zenon, <1>2, WalkBlocks, GenesisIsBlock
  <1>4. Max2(Max2(c, Height(t)), Height(Genesis)) = Max2(c, Height(t))
    BY <1>2, GenesisIsBlock DEF Max2
  <1> QED BY Zenon, <1>3, <1>4, GenesisIsBlock DEF TwoWalks

\* A settled state, but for the parent qc of a block inserted just now.
SettledBut(s, o, qc, C) ==
    /\ Coherent(o.state) /\ CertificatesPast(o.state)
    /\ \A b \in o.state.known : Retained(o.state, Justify(b)) \/ Justify(b) = qc
    /\ qc \in o.state.known => Retained(o.state, Justify(qc))
    /\ Retained(o.state, o.state.lockedQC)
    /\ StoredCertificates(o.state) \subseteq StoredCertificates(s) \cup C
    /\ o.state.committed \subseteq s.committed \cup o.newly
    /\ \A b \in o.newly : View(b) < View(o.state.lockedQC)

\* Recording qc settles it.
Applied(s, o, qc, C, n) ==
    /\ Effect(s, n, C)
    /\ n \in EngineOutput /\ CertificatesPast(n.state)
    /\ n.state.known = o.state.known
    /\ qc \in n.state.certificates \cup {Genesis}
    /\ \E t \in Block : /\ n.newly = o.newly \cup Walk(o.state.committedHeight, t)
                        /\ n.state.committedHeight = Max2(o.state.committedHeight, Height(t))

LEMMA ApplyEffect ==
    ASSUME NEW s \in ConsensusState, NEW o \in EngineOutput, NEW qc \in Block, View(qc) < MaxView,
           NEW C, qc \in C, SettledBut(s, o, qc, C)
    PROVE  Applied(s, o, qc, C, ApplyCertificate(o, qc))
PROOF
  <1> DEFINE n == ApplyCertificate(o, qc)
             m == o.state
  <1> USE DEF SettledBut
  <1>1. /\ Coherent(n.state) /\ n.state.known = m.known
        /\ n.state.certificates \cup {Genesis} = m.certificates \cup {qc, Genesis}
        /\ n.state.certificates \subseteq m.certificates \cup {qc}
        /\ \/ n.state.lockedQC = m.lockedQC
           \/ qc \in m.known /\ n.state.lockedQC = Justify(qc)
        /\ \E t \in Block : Commits(o, n, t)
    BY Zenon, ApplyCertificateEffect
  <1>2. n \in EngineOutput /\ CertificatesPast(n.state) /\ Advances(m, n.state)
    BY Zenon, ApplyCertificateOutput
  <1> HIDE DEF n
  <1>3. PICK t \in Block : Commits(o, n, t)
    BY Zenon, <1>1
  <1>4. /\ n.newly = o.newly \cup Walk(m.committedHeight, t)
        /\ n.state.committed = m.committed \cup Walk(m.committedHeight, t)
        /\ n.state.committedHeight = Max2(m.committedHeight, Height(t))
        /\ \A b \in Walk(m.committedHeight, t) : View(b) < View(n.state.lockedQC)
    BY Zenon, <1>3 DEF Commits
  <1>5. m.committedHeight \in Nat /\ Height(t) \in Nat
    BY BlockType, Zenon DEF EngineOutput, ConsensusState
  <1>6. n.state.committedHeight >= m.committedHeight /\ n.state.committedHeight \in Nat
    BY <1>4, <1>5 DEF Max2
  <1>7. ASSUME NEW b \in Block, Retained(m, b)
        PROVE  Retained(n.state, b)
    <2>1. CASE b \in m.certificates \cup {Genesis}
      BY Zenon, <1>1, <2>1 DEF Retained
    <2>2. CASE Height(b) < m.committedHeight - RetainCommittedHeights
      <3>1. Height(b) < n.state.committedHeight - RetainCommittedHeights
        <4>1. Height(b) \in Nat /\ RetainCommittedHeights \in Nat
          BY Zenon, BlockType, ChainedHotStuffAssumption
        <4> QED BY <1>5, <1>6, <2>2, <4>1
      <3> QED BY Zenon, <3>1 DEF Retained
    <2> QED BY Zenon, <1>7, <2>1, <2>2 DEF Retained
  <1>8. Retained(n.state, qc)
    BY Zenon, <1>1 DEF Retained
  <1>9. m.known \subseteq Block /\ m.lockedQC \in Block
    BY Zenon DEF EngineOutput, ConsensusState
  <1>10. \A b \in n.state.known : Retained(n.state, Justify(b))
    BY Zenon, <1>1, <1>7, <1>8, <1>9, JustifyIsBlock
  <1>11. Retained(n.state, n.state.lockedQC)
    BY Zenon, <1>1, <1>7, <1>9, JustifyIsBlock
  <1>12. StoredCertificates(n.state) \subseteq StoredCertificates(s) \cup C
    <2>1. StoredCertificates(n.state) \subseteq StoredCertificates(m) \cup {qc}
      BY Zenon, <1>1 DEF StoredCertificates
    <2> QED BY Zenon, <2>1
  <1>13. \A b \in n.newly : View(b) < View(n.state.lockedQC)
    <2> SUFFICES ASSUME NEW b \in o.newly
                 PROVE  View(b) < View(n.state.lockedQC)
      BY Zenon, <1>4
    <2>1. View(b) < View(m.lockedQC) /\ View(m.lockedQC) <= View(n.state.lockedQC)
      BY <1>2, Zenon DEF Advances, EngineOutput, ConsensusState
    <2>2. b \in Block /\ n.state.lockedQC \in Block
      BY Zenon, <1>2 DEF EngineOutput, ConsensusState
    <2>3. View(b) \in Nat /\ View(m.lockedQC) \in Nat /\ View(n.state.lockedQC) \in Nat
      BY Zenon, <1>9, <2>2, ViewIsNat
    <2> QED BY <2>1, <2>3
  <1>14. n.state.committed \subseteq s.committed \cup n.newly
    BY Zenon, <1>4
  <1>15. Effect(s, n, C)
    BY Zenon, <1>1, <1>10, <1>11, <1>12, <1>13, <1>14 DEF Effect, Settled
  <1>16. qc \in n.state.certificates \cup {Genesis}
    BY Zenon, <1>1
  <1> QED BY Zenon, <1>1, <1>2, <1>4, <1>15, <1>16 DEF n, Applied

LEMMA JustifiedEffect ==
    ASSUME NEW s \in ConsensusState, NEW b \in Block \ {Genesis}, CertificatesPast(s),
           Settled(s), NEW C, Justify(b) \in C
    PROVE  LET n == Justified(s, b) IN
           /\ Effect(s, n, C)
           /\ n \in EngineOutput /\ CertificatesPast(n.state)
           /\ n.state.known = s.known \cup {b}
           /\ Justify(b) \in n.state.certificates \cup {Genesis}
           /\ \E t \in Block : /\ n.newly = Walk(s.committedHeight, t)
                               /\ n.state.committedHeight = Max2(s.committedHeight, Height(t))
PROOF
  <1> DEFINE t == [s EXCEPT !.known = @ \cup {b}]
             i == Insert(s, b)
             q == Justify(b)
  <1>1. /\ t \in ConsensusState
        /\ t.currentView = s.currentView /\ t.lastVoted = s.lastVoted /\ t.highQC = s.highQC
        /\ t.lockedQC = s.lockedQC /\ t.certificates = s.certificates
        /\ t.known = s.known \cup {b} /\ t.committed = s.committed
        /\ t.committedHeight = s.committedHeight
    BY Zenon DEF ConsensusState
  <1>2. i = Output(t) /\ i \in EngineOutput /\ i.state = t /\ i.newly = {}
    BY <1>1, OutputType, Zenon DEF Insert, Output
  <1> HIDE DEF t, i
  <1>3. q \in Block /\ View(q) < MaxView /\ q # b
    <2>1. q \in Block /\ View(q) < View(b) /\ View(q) \in Nat /\ View(b) \in 0..MaxView
      BY JustifyIsBlock, BlockType, ChainedHotStuffAssumption
    <2> QED BY <2>1, ChainedHotStuffAssumption
  <1>4. /\ Coherent(s) /\ Retained(s, s.lockedQC)
        /\ \A x \in s.known : Retained(s, Justify(x))
    BY Zenon DEF Settled
  <1>5. Coherent(t) /\ CertificatesPast(t) /\ \A x : Retained(s, x) => Retained(t, x)
    BY Zenon, <1>1, <1>4 DEF Coherent, CertificatesPast, Retained
  <1>6. /\ \A x \in t.known : Retained(t, Justify(x)) \/ Justify(x) = q
        /\ q \in t.known => Retained(t, Justify(q))
        /\ Retained(t, t.lockedQC)
    BY Zenon, <1>1, <1>3, <1>4, <1>5
  <1>7. StoredCertificates(t) \subseteq StoredCertificates(s) \cup C
    BY Zenon, <1>1 DEF StoredCertificates
  <1> DEFINE n == ApplyCertificate(i, q)
  <1>8. /\ Effect(s, n, C)
        /\ n \in EngineOutput /\ CertificatesPast(n.state)
        /\ n.state.known = t.known
        /\ q \in n.state.certificates \cup {Genesis}
        /\ \E u \in Block : /\ n.newly = i.newly \cup Walk(t.committedHeight, u)
                            /\ n.state.committedHeight = Max2(t.committedHeight, Height(u))
    <2>1. SettledBut(s, i, q, C)
      BY Zenon, <1>1, <1>2, <1>5, <1>6, <1>7 DEF SettledBut
    <2>2. Applied(s, i, q, C, n)
      BY Zenon, <1>2, <1>3, <2>1, ApplyEffect
    <2> HIDE DEF n, q
    <2> QED BY Zenon, <1>2, <2>2 DEF Applied
  <1>9. Justified(s, b) = n
    BY Zenon DEF Justified, i
  <1> HIDE DEF n
  <1>10. \E u \in Block : /\ n.newly = Walk(s.committedHeight, u)
                          /\ n.state.committedHeight = Max2(s.committedHeight, Height(u))
    BY <1>1, <1>2, <1>8, Zenon
  <1> QED BY Zenon, <1>1, <1>8, <1>9, <1>10

\* The events.
LEMMA ObservedProposalEffect ==
    ASSUME NEW s \in ConsensusState, NEW b \in Block \ {Genesis}, CertificatesPast(s), Settled(s)
    PROVE  LET n == ObservedProposal(s, b) IN
           /\ Effect(s, n, {Justify(b)})
           /\ TwoWalks(s.committedHeight, n)
PROOF
  <1> DEFINE C == {Justify(b)}
             j == Justified(s, b)
             a == ApplyCertificate(j, b)
             m == IF b \in j.state.certificates THEN a ELSE j
  <1>1. /\ Effect(s, j, C) /\ j \in EngineOutput /\ CertificatesPast(j.state)
        /\ j.state.known = s.known \cup {b} /\ Justify(b) \in j.state.certificates \cup {Genesis}
        /\ \E t \in Block : /\ j.newly = Walk(s.committedHeight, t)
                            /\ j.state.committedHeight = Max2(s.committedHeight, Height(t))
    BY Zenon, JustifiedEffect
  <1>2. ObservedProposal(s, b) = Prune(m)
    BY Zenon DEF ObservedProposal, Justified
  <1>3. s.committedHeight \in Nat
    BY Zenon DEF ConsensusState
  <1> HIDE DEF j
  <1>4. PICK t \in Block : /\ j.newly = Walk(s.committedHeight, t)
                          /\ j.state.committedHeight = Max2(s.committedHeight, Height(t))
    BY Zenon, <1>1
  <1>5. CASE b \in j.state.certificates
    <2>1. View(b) < MaxView
      <3>1. View(b) < j.state.currentView /\ j.state.currentView \in 1..MaxView
        BY Zenon, <1>1, <1>5 DEF CertificatesPast, EngineOutput, ConsensusState
      <3> QED BY <3>1, ViewIsNat, ChainedHotStuffAssumption
    <2>2. /\ Coherent(j.state) /\ Retained(j.state, j.state.lockedQC)
          /\ \A x \in j.state.known : Retained(j.state, Justify(x))
          /\ StoredCertificates(j.state) \subseteq StoredCertificates(s) \cup C
          /\ j.state.committed \subseteq s.committed \cup j.newly
          /\ \A x \in j.newly : View(x) < View(j.state.lockedQC)
      BY Zenon, <1>1 DEF Effect, Settled
    <2>3. Retained(j.state, Justify(b))
      BY Zenon, <1>1, <2>2
    <2>4. /\ Effect(s, a, C \cup {b}) /\ a \in EngineOutput
          /\ \E u \in Block : /\ a.newly = j.newly \cup Walk(j.state.committedHeight, u)
                              /\ a.state.committedHeight = Max2(j.state.committedHeight, Height(u))
      <3>1. StoredCertificates(j.state) \subseteq StoredCertificates(s) \cup (C \cup {b})
        BY Zenon, <2>2
      <3>2. SettledBut(s, j, b, C \cup {b})
        <4> HIDE DEF C
        <4> QED BY Zenon, <1>1, <2>2, <2>3, <3>1 DEF SettledBut
      <3>3. Applied(s, j, b, C \cup {b}, a)
        <4> HIDE DEF C
        <4> QED BY Zenon, <1>1, <2>1, <3>2, ApplyEffect
      <3> HIDE DEF a, C
      <3> QED BY Zenon, <3>3 DEF Applied
    <2> HIDE DEF a
    <2>5. Effect(s, a, C)
      <3>1. b \in StoredCertificates(s) \cup C
        BY Zenon, <1>5, <2>2 DEF StoredCertificates
      <3> HIDE DEF C
      <3> QED BY Zenon, <2>4, <3>1 DEF Effect
    <2>6. TwoWalks(s.committedHeight, a)
      BY Zenon, <1>4, <2>4 DEF TwoWalks
    <2>7. m = a
      BY Zenon, <1>5
    <2> HIDE DEF m, C
    <2> QED BY Zenon, <1>2, <2>4, <2>5, <2>6, <2>7, PruneEffect DEF C
  <1>6. CASE b \notin j.state.certificates
    <2>1. m = j
      BY Zenon, <1>6
    <2> HIDE DEF m, C
    <2>2. TwoWalks(s.committedHeight, j)
      BY Zenon, <1>3, <1>4, WalkThenNothing
    <2> QED BY Zenon, <1>1, <1>2, <2>1, <2>2, PruneEffect DEF C
  <1> QED BY Zenon, <1>5, <1>6

LEMMA VotedProposalEffect ==
    ASSUME NEW s \in ConsensusState, NEW b \in Block \ {Genesis}, CertificatesPast(s), Settled(s),
           ViewHasSuccessor(b)
    PROVE  LET n == VotedProposal(s, b) IN
           /\ Effect(s, n, {Justify(b)})
           /\ TwoWalks(s.committedHeight, n)
           /\ n.newly = Justified(s, b).newly
PROOF
  <1> DEFINE C == {Justify(b)}
             j == Justified(s, b)
             m == [j EXCEPT !.state.lastVoted = b,
                            !.state.currentView = Max2(@, View(b) + 1)]
             v == [j.state EXCEPT !.lastVoted = b,
                                  !.currentView = Max2(@, View(b) + 1)]
  <1>1. /\ Effect(s, j, C) /\ j \in EngineOutput
        /\ \E t \in Block : /\ j.newly = Walk(s.committedHeight, t)
                            /\ j.state.committedHeight = Max2(s.committedHeight, Height(t))
    BY Zenon, JustifiedEffect
  <1>2. VotedProposal(s, b) = Prune(m)
    BY Zenon DEF VotedProposal, Justified
  <1> HIDE DEF j
  <1>3. j.state \in ConsensusState /\ j.state.currentView \in 1..MaxView /\ View(b) \in Nat
    BY <1>1, ViewIsNat, Zenon DEF EngineOutput, ConsensusState
  <1>4. /\ Max2(j.state.currentView, View(b) + 1) \in 1..MaxView
        /\ Max2(j.state.currentView, View(b) + 1) >= j.state.currentView
    BY <1>3, ChainedHotStuffAssumption DEF Max2, ViewHasSuccessor
  <1>5. /\ v \in ConsensusState /\ v.currentView = Max2(j.state.currentView, View(b) + 1)
        /\ v.highQC = j.state.highQC /\ v.lockedQC = j.state.lockedQC
        /\ v.certificates = j.state.certificates /\ v.known = j.state.known
        /\ v.committed = j.state.committed /\ v.committedHeight = j.state.committedHeight
    BY <1>3, <1>4, Zenon DEF ConsensusState
  <1>6. m = [j EXCEPT !.state = v]
    BY <1>1, <1>3, Zenon DEF EngineOutput, ConsensusState
  <1> HIDE DEF m, v
  <1>7. m \in EngineOutput /\ m.state = v /\ m.newly = j.newly
    BY <1>1, <1>5, <1>6, Zenon DEF EngineOutput
  <1>8. Settled(v)
    <2>1. View(j.state.highQC) < v.currentView
      <3>1. View(j.state.highQC) < j.state.currentView
        BY Zenon, <1>1 DEF Effect, Settled, Coherent
      <3>2. View(j.state.highQC) \in Nat
        BY Zenon, <1>3, ViewIsNat DEF ConsensusState
      <3> QED BY <1>3, <1>4, <1>5, <3>1, <3>2
    <2>2. Coherent(j.state) /\ Retained(j.state, j.state.lockedQC)
          /\ \A x \in j.state.known : Retained(j.state, Justify(x))
      BY Zenon, <1>1 DEF Effect, Settled
    <2>3. \A x : Retained(j.state, x) => Retained(v, x)
      BY Zenon, <1>5 DEF Retained
    <2> QED BY Zenon, <1>5, <2>1, <2>2, <2>3 DEF Settled, Coherent
  <1>9. Effect(s, m, C)
    <2>1. StoredCertificates(v) = StoredCertificates(j.state)
      BY Zenon, <1>5 DEF StoredCertificates
    <2> HIDE DEF C
    <2> QED BY Zenon, <1>1, <1>5, <1>7, <1>8, <2>1 DEF Effect
  <1>10. TwoWalks(s.committedHeight, m)
    <2>1. s.committedHeight \in Nat
      BY Zenon DEF ConsensusState
    <2> QED BY Zenon, <1>1, <1>5, <1>7, <2>1, WalkThenNothing
  <1>11. Prune(m).newly = m.newly
    BY <1>7, Zenon DEF Prune, EngineOutput
  <1> HIDE DEF C
  <1> QED BY Zenon, <1>2, <1>7, <1>9, <1>10, <1>11, PruneEffect DEF C, j

LEMMA CertificateAppliedEffect ==
    ASSUME NEW s \in ConsensusState, NEW qc \in Block, CertificatesPast(s), Settled(s),
           ViewHasSuccessor(qc)
    PROVE  LET n == CertificateApplied(s, qc) IN
           /\ Effect(s, n, {qc})
           /\ TwoWalks(s.committedHeight, n)
           /\ n.newly = ApplyCertificate(Output(s), qc).newly
PROOF
  <1> DEFINE C == {qc}
             o == Output(s)
             a == ApplyCertificate(o, qc)
  <1>1. o \in EngineOutput /\ o.state = s /\ o.newly = {}
    BY OutputType, Zenon DEF Output
  <1>2. CertificateApplied(s, qc) = Prune(a)
    BY Zenon DEF CertificateApplied
  <1> HIDE DEF o
  <1>3. SettledBut(s, o, qc, C)
    <2> HIDE DEF C
    <2> QED BY Zenon, <1>1 DEF SettledBut, Settled
  <1>4. Applied(s, o, qc, C, a)
    BY Zenon, <1>1, <1>3, ApplyEffect DEF ViewHasSuccessor
  <1> HIDE DEF a, C
  <1>5. Effect(s, a, C) /\ a \in EngineOutput
    BY Zenon, <1>4 DEF Applied
  <1>6. TwoWalks(s.committedHeight, a)
    <2>1. s.committedHeight \in Nat
      BY Zenon DEF ConsensusState
    <2>2. PICK t \in Block : /\ a.newly = {} \cup Walk(s.committedHeight, t)
                            /\ a.state.committedHeight = Max2(s.committedHeight, Height(t))
      BY Zenon, <1>1, <1>4 DEF Applied
    <2>3. a.newly = Walk(s.committedHeight, t)
      BY Zenon, <2>2
    <2> QED BY Zenon, <2>1, <2>2, <2>3, WalkThenNothing
  <1>7. Prune(a).newly = a.newly
    BY <1>5, Zenon DEF Prune, EngineOutput
  <1> QED BY Zenon, <1>2, <1>5, <1>6, <1>7, PruneEffect DEF C, a, o

LEMMA TickAppliedEffect ==
    ASSUME NEW s \in ConsensusState, CertificatesPast(s), Settled(s), s.currentView < MaxView
    PROVE  LET n == TickApplied(s) IN
           /\ Effect(s, n, {})
           /\ TwoWalks(s.committedHeight, n)
PROOF
  <1> DEFINE t == [s EXCEPT !.currentView = @ + 1]
             o == Output(t)
  <1>1. s.currentView \in 1..MaxView /\ s.committedHeight \in Nat /\ View(s.highQC) \in Nat
    BY ViewIsNat, Zenon DEF ConsensusState
  <1>2. /\ t \in ConsensusState /\ t.currentView = s.currentView + 1
        /\ t.highQC = s.highQC /\ t.lockedQC = s.lockedQC
        /\ t.certificates = s.certificates /\ t.known = s.known
        /\ t.committed = s.committed /\ t.committedHeight = s.committedHeight
    BY <1>1, ChainedHotStuffAssumption DEF ConsensusState
  <1>3. TickApplied(s) = Prune(o)
    BY Zenon DEF TickApplied
  <1> HIDE DEF t
  <1>4. o \in EngineOutput /\ o.state = t /\ o.newly = {}
    BY <1>2, OutputType, Zenon DEF Output
  <1> HIDE DEF o
  <1>5. Settled(t)
    <2>1. View(t.highQC) < t.currentView
      BY <1>1, <1>2 DEF Settled, Coherent
    <2>2. \A x : Retained(s, x) => Retained(t, x)
      BY Zenon, <1>2 DEF Retained
    <2> QED BY Zenon, <1>2, <2>1, <2>2 DEF Settled, Coherent
  <1>6. Effect(s, o, {})
    <2>1. StoredCertificates(t) = StoredCertificates(s)
      BY Zenon, <1>2 DEF StoredCertificates
    <2> QED BY Zenon, <1>2, <1>4, <1>5, <2>1 DEF Effect
  <1>7. TwoWalks(s.committedHeight, o)
    <2>1. Walk(s.committedHeight, Genesis) = {}
      BY Zenon, <1>1, GenesisIsBlock, WalkBlocks
    <2>2. Max2(s.committedHeight, Height(Genesis)) = s.committedHeight
      BY <1>1, GenesisIsBlock DEF Max2
    <2> QED BY Zenon, <1>1, <1>2, <1>4, <2>1, <2>2, GenesisIsBlock, WalkThenNothing
  <1> QED BY Zenon, <1>3, <1>4, <1>6, <1>7, PruneEffect

\* What applying a certificate commits.
LEMMA ApplyNewly ==
    ASSUME NEW o \in EngineOutput, NEW qc \in Block
    PROVE  LET s == o.state
               walk == Walk(s.committedHeight, Justify(Justify(qc)))
           IN  ApplyCertificate(o, qc).newly =
                   IF qc # Genesis /\ {qc, Justify(qc)} \cup walk \subseteq s.known
                   THEN o.newly \cup walk ELSE o.newly
PROOF
  <1> DEFINE s == o.state
             target == Justify(Justify(qc))
             walk == Walk(s.committedHeight, target)
             recorded == [s EXCEPT
                 !.certificates = @ \cup {qc},
                 !.highQC = IF View(qc) > View(@) THEN qc ELSE @,
                 !.currentView = Max2(@, View(qc) + 1)]
             locked == [recorded EXCEPT
                 !.lockedQC = IF View(Justify(qc)) > View(@) THEN Justify(qc) ELSE @]
             l == [o EXCEPT !.state = locked]
             n == ApplyCertificate(o, qc)
  <1>1. s \in ConsensusState
    BY Zenon DEF EngineOutput
  <1>2. locked.known = s.known /\ locked.committedHeight = s.committedHeight
    BY <1>1, Zenon DEF ConsensusState
  <1>3. l.state = locked /\ l.newly = o.newly /\ [o EXCEPT !.state = recorded].newly = o.newly
    BY Zenon DEF EngineOutput
  <1>4. n = IF qc = Genesis THEN o
            ELSE IF qc \notin s.known THEN [o EXCEPT !.state = recorded]
            ELSE IF Justify(qc) \notin s.known THEN l
            ELSE CommitThrough(l, target)
    BY Zenon DEF ApplyCertificate
  <1>5. CommitThrough(l, target).newly = IF walk \subseteq s.known /\ walk # {}
                                         THEN o.newly \cup walk ELSE o.newly
    <2> HIDE DEF l, locked
    <2>1. CASE walk \subseteq s.known /\ walk # {}
      BY <1>2, <1>3, <2>1, Zenon DEF CommitThrough, Walk
    <2>2. CASE ~(walk \subseteq s.known /\ walk # {})
      <3>1. CommitThrough(l, target) = l
        BY Zenon, <1>2, <1>3, <2>2 DEF CommitThrough, Walk
      <3> QED BY Zenon, <1>3, <2>2, <3>1
    <2> QED BY Zenon, <2>1, <2>2
  <1> HIDE DEF recorded, l, n, walk, target
  <1> QED BY <1>3, <1>4, <1>5, Zenon DEF n, walk, target

\* What a block's certificate commits does not depend on the block.
LEMMA JustifiedNewly ==
    ASSUME NEW s \in ConsensusState, NEW b \in Block \ {Genesis}
    PROVE  Justified(s, b).newly = ApplyCertificate(Output(s), Justify(b)).newly
PROOF
  <1> DEFINE q == Justify(b)
             p == Justify(q)
             target == Justify(p)
             walk == Walk(s.committedHeight, target)
             t == [s EXCEPT !.known = @ \cup {b}]
  <1>1. /\ t \in ConsensusState /\ t.known = s.known \cup {b}
        /\ t.committedHeight = s.committedHeight /\ s.committedHeight \in Nat
    BY Zenon DEF ConsensusState
  <1> HIDE DEF t
  <1>2. /\ Output(s) \in EngineOutput /\ Output(s).state = s /\ Output(s).newly = {}
        /\ Output(t) \in EngineOutput /\ Output(t).state = t /\ Output(t).newly = {}
    BY <1>1, OutputType, Zenon DEF Output
  <1>3. /\ b \in Block /\ q \in Block /\ p \in Block /\ target \in Block
        /\ View(q) < View(b) /\ View(p) <= View(q) /\ View(target) <= View(p)
    <2>1. q \in Block /\ View(q) < View(b)
      BY Zenon, JustifyIsBlock
    <2>2. p \in Block /\ View(p) <= View(q)
      BY Zenon, <2>1, JustifyIsBlock
    <2>3. target \in Block /\ View(target) <= View(p)
      BY Zenon, <2>2, JustifyIsBlock
    <2> QED BY Zenon, <2>1, <2>2, <2>3
  <1>4. View(b) \in Nat /\ View(q) \in Nat /\ View(p) \in Nat /\ View(target) \in Nat
    BY Zenon, <1>3, ViewIsNat
  <1> HIDE DEF q, p, target
  <1>5. q # b /\ p # b
    BY <1>3, <1>4
  <1>6. b \notin walk
    <2>1. b \in walk => View(b) <= View(target)
      BY Zenon, <1>1, <1>3, WalkBlocks
    <2> QED BY <1>3, <1>4, <2>1
  <1> HIDE DEF walk
  <1>7. {q, p} \cup walk \subseteq t.known <=> {q, p} \cup walk \subseteq s.known
    BY Zenon, <1>1, <1>5, <1>6
  <1>8. Insert(s, b) = Output(t)
    BY Zenon DEF Insert, t
  <1>9. ApplyCertificate(Output(s), q).newly =
            IF q # Genesis /\ {q, p} \cup walk \subseteq s.known THEN {} \cup walk ELSE {}
    BY Zenon, <1>2, <1>3, ApplyNewly DEF walk, target, p
  <1>10. ApplyCertificate(Output(t), q).newly =
            IF q # Genesis /\ {q, p} \cup walk \subseteq t.known THEN {} \cup walk ELSE {}
    BY Zenon, <1>1, <1>2, <1>3, ApplyNewly DEF walk, target, p
  <1>11. Justified(s, b) = ApplyCertificate(Output(t), q)
    BY Zenon, <1>8 DEF Justified, q
  <1> QED BY Zenon, <1>7, <1>9, <1>10, <1>11 DEF q

-------------------------------------------------------------------------------
(***************************************************************************)
(* Votes.                                                                  *)
(***************************************************************************)
(***************************************************************************)
(* The inductive invariant: what the votes of one replica have in common.  *)
(***************************************************************************)
VotesAreProposals == voteRecord \in [Honest -> SUBSET Proposal]

OneVotePerView ==
    \A r \in Honest : \A x, y \in voteRecord[r] : View(x) = View(y) => x = y

ParentCertifiable ==
    \A r \in Honest : \A x \in voteRecord[r] : Certifiable(Justify(x))

LockRespected ==
    \A r \in Honest : \A x, y \in voteRecord[r] :
        View(x) < View(y) => View(Lock(x)) <= View(Justify(y))

Promise == VotesAreProposals /\ OneVotePerView /\ ParentCertifiable /\ LockRespected

LEMMA ProposalViews ==
    ASSUME NEW b \in Proposal
    PROVE  b \in Block /\ b # Genesis /\ View(b) \in Nat /\ View(Justify(b)) \in Nat
           /\ View(Lock(b)) \in Nat
PROOF
  <1>1. b \in Block /\ b # Genesis
    BY Zenon DEF Proposal
  <1>2. Justify(b) \in Block /\ Justify(Justify(b)) \in Block
    BY <1>1, JustifyIsBlock, Zenon
  <1> QED BY <1>1, <1>2, BlockType DEF Lock

\* Certificates are never lost: signatures stay.
LEMMA CertifiableStable ==
    ASSUME VotesAreProposals, SafeVotingNext, NEW b, Certifiable(b)
    PROVE  Certifiable(b)'
PROOF
  <1>1. PICK r \in Honest : \E c \in Proposal : Cast(r, c)
    BY Zenon DEF SafeVotingNext, Cast
  <1>2. \A v \in Honest : voteRecord[v] \subseteq voteRecord'[v]
    BY <1>1, Zenon DEF Cast, VotesAreProposals
  <1>3. CASE b = Genesis
    BY <1>3, Zenon DEF Certifiable
  <1>4. CASE b # Genesis
    <2> DEFINE S == {v \in Honest : b \in voteRecord[v]} \cup Faulty
               T == {v \in Honest : b \in voteRecord'[v]} \cup Faulty
    <2>1. S \in Quorum
      BY <1>4, Zenon DEF Certifiable
    <2>2. S \subseteq T /\ T \in SUBSET Validator
      BY <1>2, SafeVotingAssumption, Zenon DEF Honest
    <2>3. T \in Quorum
      BY <2>1, <2>2, QuorumMonotone, Zenon
    <2> QED BY <2>3, Zenon DEF Certifiable
  <1> QED BY <1>3, <1>4, Zenon

LEMMA InitPromise == SafeVotingInit => Promise
  BY Zenon DEF SafeVotingInit, Promise, VotesAreProposals, OneVotePerView, ParentCertifiable, LockRespected

LEMMA NextPromise == Promise /\ [SafeVotingNext]_voteRecord => Promise'
PROOF
  <1> SUFFICES ASSUME Promise, [SafeVotingNext]_voteRecord PROVE Promise'
    BY Zenon
  <1>1. CASE UNCHANGED voteRecord
    BY <1>1 DEF Promise, VotesAreProposals, OneVotePerView, ParentCertifiable, LockRespected, Certifiable
  <1>2. CASE SafeVotingNext
    <2>1. PICK r \in Honest, b \in Proposal : Cast(r, b)
      BY <1>2, Zenon DEF SafeVotingNext, Cast
    <2>2. \A v \in Honest :
              voteRecord'[v] = IF v = r THEN voteRecord[r] \cup {b} ELSE voteRecord[v]
      BY <2>1, Zenon DEF Cast, Promise, VotesAreProposals
    <2>3. VotesAreProposals'
      BY <2>1, Zenon DEF Cast, Promise, VotesAreProposals
    <2>4. \A x \in voteRecord[r] : View(x) < View(b) /\ View(Lock(x)) <= View(Justify(b))
      BY <2>1, Zenon DEF Cast
    <2>5. View(b) \in Nat /\ \A v \in Honest : \A x \in voteRecord[v] : View(x) \in Nat
      BY ProposalViews, Zenon DEF Promise, VotesAreProposals
    <2>6. OneVotePerView'
      BY <2>2, <2>4, <2>5 DEF Promise, OneVotePerView
    <2>7. ParentCertifiable'
      <3>1. \A v \in Honest : \A x \in voteRecord'[v] : Certifiable(Justify(x))
        BY <2>1, <2>2 DEF Cast, Promise, ParentCertifiable
      <3>2. \A v \in Honest : \A x \in voteRecord'[v] : Certifiable(Justify(x))'
        BY <1>2, <3>1, CertifiableStable, Zenon DEF Promise
      <3> QED BY <3>2, Zenon DEF ParentCertifiable
    <2>8. LockRespected'
      BY <2>2, <2>4, <2>5 DEF Promise, LockRespected
    <2> QED BY <2>3, <2>6, <2>7, <2>8, Zenon DEF Promise
  <1> QED BY <1>1, <1>2, Zenon

(***************************************************************************)
(* Consequences of the invariant in one state.                             *)
(***************************************************************************)
\* Two certified blocks have a common honest voter.
LEMMA CommonVoter ==
    ASSUME FaultBound, Promise, NEW b, NEW c, Certifiable(b), Certifiable(c),
           b # Genesis, c # Genesis
    PROVE  \E r \in Honest : b \in voteRecord[r] /\ c \in voteRecord[r]
PROOF
  <1> DEFINE S == {v \in Honest : b \in voteRecord[v]} \cup Faulty
             T == {v \in Honest : c \in voteRecord[v]} \cup Faulty
  <1>1. S \in Quorum /\ T \in Quorum
    BY Zenon DEF Certifiable
  <1>2. \E v \in S \cap T : v \notin Faulty
    BY <1>1, QuorumIntersection, SafeVotingAssumption DEF FaultBound
  <1> QED BY <1>2, Zenon

\* A certified block is a proposal whose parent is certified.
LEMMA CertifiableParent ==
    ASSUME FaultBound, Promise, NEW b, Certifiable(b), b # Genesis
    PROVE  b \in Proposal /\ Certifiable(Justify(b))
PROOF
  <1>1. PICK r \in Honest : b \in voteRecord[r]
    BY CommonVoter, Zenon
  <1> QED BY <1>1, Zenon DEF Promise, VotesAreProposals, ParentCertifiable

LEMMA CertifiableUnique ==
    ASSUME FaultBound, Promise, NEW b, NEW c, Certifiable(b), Certifiable(c),
           b # Genesis, c # Genesis, View(b) = View(c)
    PROVE  b = c
  BY CommonVoter, Zenon DEF Promise, OneVotePerView

\* Every certified block of the view of Lock(g) or a later one descends from it.
LEMMA ConsecutiveFinal ==
    ASSUME FaultBound, Promise, NEW g \in Proposal, Certifiable(g), Consecutive(g),
           NEW d \in Proposal, Certifiable(d), View(d) >= View(Lock(g))
    PROVE  Descends(d, Lock(g))
PROOF
  <1> DEFINE b == Lock(g)
             p == Justify(g)
             Bad == {n \in Nat : \E e \in Proposal :
                        /\ Certifiable(e) /\ View(e) = n
                        /\ View(e) >= View(b) /\ ~Descends(e, b)}
  <1>1. g \in Block /\ g # Genesis /\ Height(g) \in Nat /\ Height(g) >= 3
    BY ProposalViews, BlockType, Zenon DEF Consecutive
  <1>2. p \in Block /\ Height(p) = Height(g) - 1 /\ p # Genesis
    BY <1>1, JustifyIsBlock, GenesisIsBlock
  <1>3. b \in Block /\ Height(b) = Height(g) - 2 /\ b # Genesis
    BY <1>1, <1>2, JustifyIsBlock, GenesisIsBlock DEF Lock
  <1>4. Certifiable(p) /\ Certifiable(b)
    BY <1>1, <1>2, CertifiableParent, Zenon DEF Lock
  <1>5. Descends(b, b) /\ Descends(p, b) /\ Descends(g, b)
    <2>1. b = Ancestor(p, Height(b))
      BY <1>1, <1>2, <1>3 DEF Lock, Justify
    <2>2. p = Ancestor(g, Height(p))
      BY <1>1, <1>2, Zenon DEF Justify
    <2>3. b = Ancestor(g, Height(b))
      BY <1>1, <1>2, <1>3, <2>1, <2>2, AncestorOfAncestor
    <2>4. b = Ancestor(b, Height(b))
      BY <1>1, <1>2, <1>3, <2>1, AncestorOfAncestor
    <2> QED BY SMTT(20), <1>1, <1>2, <1>3, <2>1, <2>3, <2>4 DEF Descends
  <1>6. /\ View(b) \in Nat /\ View(b) >= 1
        /\ View(p) = View(b) + 1
        /\ View(g) = View(b) + 2
    <2>1. View(p) = View(g) - 1 /\ View(b) = View(g) - 2
      BY Zenon DEF Consecutive
    <2>2. View(g) \in Nat /\ View(b) \in 1..MaxView
      BY <1>1, <1>3, BlockType
    <2> HIDE DEF p, b
    <2> QED BY <2>1, <2>2
  <1>7. ASSUME NEW n \in Bad, \A m \in Bad : ~(m < n)
        PROVE  FALSE
    <2>1. PICK e \in Proposal : /\ Certifiable(e) /\ View(e) = n
                                /\ View(e) >= View(b) /\ ~Descends(e, b)
      BY <1>7, Zenon
    <2>2. e \in Block /\ e # Genesis /\ n \in Nat
      BY ProposalViews, Zenon
    <2>3. e # b /\ e # p /\ e # g
      BY <1>5, <2>1, Zenon
    <2>4. View(e) # View(b) /\ View(e) # View(p) /\ View(e) # View(g)
      BY SMTT(20), <1>1, <1>2, <1>3, <1>4, <2>1, <2>2, <2>3, CertifiableUnique
    <2>5. View(e) > View(g)
      <3> HIDE DEF b, p
      <3> QED BY <1>6, <2>1, <2>2, <2>4
    <2>6. PICK r \in Honest : g \in voteRecord[r] /\ e \in voteRecord[r]
      BY <1>1, <2>1, <2>2, CommonVoter, Zenon
    <2>7. View(b) <= View(Justify(e))
      BY <2>5, <2>6, Zenon DEF Promise, LockRespected
    <2>8. /\ Justify(e) \in Block /\ View(Justify(e)) < View(e)
          /\ Height(Justify(e)) = Height(e) - 1
          /\ View(Justify(e)) \in Nat
      BY <2>2, JustifyIsBlock, BlockType
    <2>9. Justify(e) # Genesis
      <3> HIDE DEF b
      <3> QED BY <1>6, <2>7, <2>8, GenesisIsBlock
    <2>10. Justify(e) \in Proposal /\ Certifiable(Justify(e))
      BY <2>1, <2>2, <2>9, CertifiableParent, Zenon
    <2>11. Descends(Justify(e), b)
      <3> SUFFICES ASSUME ~Descends(Justify(e), b) PROVE FALSE
        BY Zenon
      <3>1. View(Justify(e)) \in Bad
        BY <1>6, <2>7, <2>8, <2>10, Zenon
      <3> HIDE DEF Bad
      <3> QED BY <1>7, <2>1, <2>8, <3>1, Zenon
    <2>12. Descends(e, b)
      <3>1. Height(e) \in Nat /\ Height(e) >= 1 /\ Height(b) \in Nat
        BY <1>3, <2>2, BlockType, Zenon
      <3>2. Height(b) <= Height(e) - 1 /\ Ancestor(Justify(e), Height(b)) = b
        BY <2>8, <2>11, Zenon DEF Descends
      <3>3. Ancestor(e, Height(b)) = b
        <4>1. Height(e) - 1 \in 0..Height(e) /\ Height(b) \in 0..(Height(e) - 1)
          BY <3>1, <3>2
        <4>2. Ancestor(Ancestor(e, Height(e) - 1), Height(b)) = Ancestor(e, Height(b))
          BY <2>2, <4>1, AncestorOfAncestor, Zenon
        <4> QED BY <3>2, <4>2, Zenon DEF Justify
      <3> QED BY <3>1, <3>2, <3>3 DEF Descends
    <2> QED BY <2>1, <2>12, Zenon
  <1>8. Bad = {}
    <2> SUFFICES ASSUME Bad # {} PROVE FALSE
      BY Zenon
    <2>1. \E n \in Bad : \A m \in Bad : ~(<<m, n>> \in OpToRel(<, Nat))
      BY NatLessThanWellFounded, WFMin, Zenon
    <2>2. \A m, n \in Bad : m < n => <<m, n>> \in OpToRel(<, Nat)
      BY Zenon DEF OpToRel
    <2> HIDE DEF Bad
    <2> QED BY <1>7, <2>1, <2>2, Zenon
  <1> QED BY <1>8, ProposalViews, Zenon

(***************************************************************************)
(* The theorems.                                                           *)
(***************************************************************************)
\* Votes that Cast allows keep the promise forever.
THEOREM PromiseInvariant == SafeVotingSpec => []Promise
  BY InitPromise, NextPromise, PTL DEF SafeVotingSpec

LEMMA CertifiableVotesAreProposals ==
    ASSUME Promise, NEW b \in CertifiableVotes
    PROVE  b \in Proposal /\ Certifiable(b) /\ b # Genesis
  BY Zenon DEF CertifiableVotes, Promise, VotesAreProposals, Proposal

\* Within the fault bound no view ever has two certificates.
THEOREM CertificatesAreUnique ==
    ASSUME FaultBound
    PROVE  SafeVotingSpec => []OneCertificatePerView
PROOF
  <1>1. Promise => OneCertificatePerView
    BY CertifiableUnique, CertifiableVotesAreProposals DEF OneCertificatePerView
  <1> QED BY <1>1, PromiseInvariant, PTL

\* Within the fault bound a commit by three consecutive views is final.
THEOREM ConsecutiveCommitsAreFinal ==
    ASSUME FaultBound
    PROVE  SafeVotingSpec => []ConsecutiveCommitIsFinal
PROOF
  <1>1. Promise => ConsecutiveCommitIsFinal
    BY ConsecutiveFinal, CertifiableVotesAreProposals, Zenon DEF ConsecutiveCommitIsFinal
  <1> QED BY <1>1, PromiseInvariant, PTL
===============================================================================
