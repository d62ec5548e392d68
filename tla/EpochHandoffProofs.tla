-------------------------- MODULE EpochHandoffProofs --------------------------
(***************************************************************************)
(* Leaving an epoch, for every set of requests, replicas and partial       *)
(* prepares: the inductive invariant, and what follows from it.  What was  *)
(* applied is drained, the drain is never refused, what it displaces was   *)
(* never certified, the cut is unique, and the handoff implements the      *)
(* ledger of spent references.                                             *)
(***************************************************************************)
EXTENDS EpochHandoff, FastPathProofs

\* There is one epoch, and one validator set for it.
LEMMA OneEpoch ==
    /\ Epoch = {0} /\ \A q \in Request : EpochOf(q) = 0
    /\ Committee \in SUBSET Validator /\ Committee # {} /\ Committees[0] = {Committee}
    /\ \A q \in Request : CertifiedSomewhere(q) <=> Certified(q, Committee)
    /\ TypeOK => \A r \in Honest : epoch[r] = 0 /\ members[r] = Committee
    /\ AgreedCommittees
PROOF
  <1>1. Epoch = {0}
    BY HandoffAssumption DEF Epoch
  <1>2. \A q \in Request : EpochOf(q) = 0
    BY Zenon, <1>1, IntentType
  <1>3. PICK C \in SUBSET Validator : Committees[0] = {C}
    BY Zenon, FastPathAssumption
  <1>4. Committee = C
    BY Zenon, <1>3 DEF Committee
  <1>5. C # {}
    BY Zenon, <1>1, <1>3, FastPathAssumption
  <1>6. \A q \in Request : CertifiedSomewhere(q) <=> Certified(q, Committee)
    BY Zenon, <1>2, <1>3, <1>4 DEF CertifiedSomewhere
  <1>7. TypeOK => \A r \in Honest : epoch[r] = 0 /\ members[r] = Committee
    BY Zenon, <1>1, <1>3, <1>4 DEF TypeOK
  <1>8. AgreedCommittees
    BY <1>1, <1>3 DEF AgreedCommittees
  <1> QED BY Zenon, <1>1, <1>2, <1>3, <1>4, <1>5, <1>6, <1>7, <1>8

-------------------------------------------------------------------------------
(***************************************************************************)
(* What is retained reaches the drain set.                                 *)
(***************************************************************************)
\* A frontier is a set of requests.
LEMMA FrontierType ==
    ASSUME HandoffTypeOK, NEW r \in Honest, NEW s \in Validator, Frontier(r, s) # None
    PROVE  Frontier(r, s) \in SUBSET Request
PROOF
  <1>1. CASE s \in Faulty
    BY Zenon, <1>1 DEF Frontier, HandoffTypeOK
  <1>2. CASE s \in Honest /\ s \in signed
    BY Zenon, <1>2 DEF Frontier, HandoffTypeOK, Honest
  <1> QED BY Zenon, <1>1, <1>2 DEF Frontier, Honest

\* The steps of the fast path keep its types, and leave the handoff rows alone.
LEMMA TypeDrain ==
    ASSUME TypeOK, NEW r \in Honest, NEW q \in Request, DrainApply(r, q)
    PROVE  TypeOK'
PROOF
  <1>1. Finalize(r, q) /\ ClearLocks(r, q)
    BY Zenon DEF DrainApply
  <1>2. nonceLock' \in [Honest -> [NonceKey -> RequestId \cup {None}]]
    <2>1. Slot(q) \in NonceKey
      BY Zenon, IntentType
    <2> QED BY Zenon, <2>1 DEF DrainApply, TypeOK
  <1>3. certificate' \in [Honest -> SUBSET Request]
    BY Zenon DEF DrainApply, TypeOK
  <1>4. UNCHANGED <<epoch, members, prepared, voted, proposed>>
    BY Zenon DEF DrainApply
  <1> QED BY Zenon, <1>1, <1>2, <1>3, <1>4, TypeFinalize, TypeClear DEF TypeOK

\* Every step of the handoff keeps the types of its rows.
LEMMA HandoffTypeNext == HandoffTypeOK /\ [HandoffNext]_hvars => HandoffTypeOK'
PROOF
  <1> SUFFICES ASSUME HandoffTypeOK, [HandoffNext]_hvars PROVE HandoffTypeOK'
    BY Zenon
  <1>1. CASE UNCHANGED hvars
    BY Zenon, <1>1 DEF HandoffTypeOK, TypeOK, hvars, vars, rows, handoff
  <1>2. ASSUME TypeOK', UNCHANGED handoff PROVE HandoffTypeOK'
    BY Zenon, <1>2 DEF HandoffTypeOK, handoff
  <1>3. ASSUME UNCHANGED vars PROVE TypeOK'
    BY Zenon, <1>3 DEF HandoffTypeOK, TypeOK, vars, rows
  <1>4. ASSUME NEW r \in Honest, NEW q \in Request,
               OpenPrepare(r, q) \/ ApplyPublished(r, q) \/ DrainApply(r, q)
        PROVE  HandoffTypeOK'
    <2>1. TypeOK'
      BY Zenon, <1>4, TypePrepare, TypeApply, TypeDrain DEF OpenPrepare, ApplyPublished, HandoffTypeOK
    <2>2. UNCHANGED handoff
      BY Zenon, <1>4 DEF OpenPrepare, ApplyPublished, DrainApply
    <2> QED BY Zenon, <1>2, <2>1, <2>2
  <1>5. ASSUME NEW r \in Honest, NEW q \in Request, Retain(r, q) PROVE HandoffTypeOK'
    <2>1. retained' \in [Honest -> SUBSET Request]
      BY Zenon, <1>5 DEF Retain, HandoffTypeOK
    <2> QED BY Zenon, <1>3, <1>5, <2>1 DEF Retain, HandoffTypeOK
  <1>6. ASSUME NEW r \in Honest,
               Freeze(r) \/ SignFrontier(r) \/ InstallDrainSet(r) \/ Seal(r)
        PROVE  HandoffTypeOK'
    <2>1. TypeOK' /\ UNCHANGED <<retained, indexed, progress, drainSet, ready>>
      BY Zenon, <1>3, <1>6 DEF Freeze, SignFrontier, InstallDrainSet, Seal
    <2>2. closed' \subseteq Honest /\ signed' \subseteq closed' /\ installed' \subseteq closed'
      BY Zenon, <1>6 DEF Freeze, SignFrontier, InstallDrainSet, Seal, DrainReady, HandoffTypeOK
    <2>3. sealed' \subseteq installed' /\ (installed' # {} => drainSet # None)
      BY Zenon, <1>6 DEF Freeze, SignFrontier, InstallDrainSet, Seal, Drained, HandoffTypeOK
    <2> QED BY Zenon, <2>1, <2>2, <2>3 DEF HandoffTypeOK
  <1>7. ASSUME NEW r \in Honest, IndexNext(r) PROVE HandoffTypeOK'
    <2>1. indexed' \in [Honest -> SUBSET Request]
      BY <1>7 DEF IndexNext, Unindexed, HandoffTypeOK
    <2> QED BY Zenon, <1>3, <1>7, <2>1 DEF IndexNext, HandoffTypeOK
  <1>8. ASSUME NEW r \in Honest, NEW s \in Faulty, NEW F \in SUBSET Request, Gather(r, s, F)
        PROVE  HandoffTypeOK'
    <2>1. progress' \in [Honest -> [Faulty -> (SUBSET Request) \cup {None}]]
      BY Zenon, <1>8 DEF Gather, HandoffTypeOK
    <2> QED BY Zenon, <1>3, <1>8, <2>1 DEF Gather, HandoffTypeOK
  <1>9. ASSUME NEW r \in Honest, NEW Q \in QuorumOf(Committee), CommitDrainSet(r, Q)
        PROVE  HandoffTypeOK'
    <2>1. Q \in SUBSET Validator
      BY Zenon, OneEpoch DEF QuorumOf
    <2>2. \A s \in Q : Frontier(r, s) \in SUBSET Request
      BY Zenon, <1>9, <2>1, FrontierType DEF CommitDrainSet
    <2>3. drainSet' = [s \in Q |-> Frontier(r, s)]
      BY Zenon, <1>9 DEF CommitDrainSet
    <2>4. drainSet' \in Selection
      BY <2>2, <2>3 DEF Selection
    <2>5. installed' = {}
      BY Zenon, <1>9 DEF CommitDrainSet, HandoffTypeOK
    <2> QED BY Zenon, <1>3, <1>9, <2>4, <2>5 DEF CommitDrainSet, HandoffTypeOK
  <1>10. ASSUME NEW r \in Honest, NEW v \in Honest \cap Incoming, SignReadiness(v, r)
         PROVE  HandoffTypeOK'
    <2>1. Cut(r) \in BusinessCut
      BY DEF Cut, BusinessCut, HandoffTypeOK, TypeOK
    <2>2. ready' \in [Honest \cap Incoming -> SUBSET BusinessCut]
      BY Zenon, <1>10, <2>1 DEF SignReadiness, HandoffTypeOK
    <2> QED BY Zenon, <1>3, <1>10, <2>2 DEF SignReadiness, HandoffTypeOK
  <1> QED BY Zenon, <1>1, <1>4, <1>5, <1>6, <1>7, <1>8, <1>9, <1>10 DEF HandoffNext

\* Availability is kept while records are added, and so is what is drained.
LEMMA AvailableStays ==
    ASSUME NEW q, Available(q), \A r \in Honest : retained[r] \subseteq retained'[r]
    PROVE  Available(q)'
PROOF
  <1> DEFINE S == {r \in Honest \cap Committee : q \in retained[r]} \cup (Faulty \cap Committee)
             T == {r \in Honest \cap Committee : q \in retained'[r]} \cup (Faulty \cap Committee)
  <1>1. S \subseteq T /\ T \in SUBSET Committee
    BY Zenon
  <1>2. S \in QuorumOf(Committee)
    BY Zenon DEF Available
  <1> HIDE DEF S, T
  <1>3. T \in QuorumOf(Committee)
    BY Zenon, <1>1, <1>2, OneEpoch, QuorumOfMonotone
  <1> QED BY Zenon, <1>3 DEF Available, Committee, T

\* The frontier of a replica, and the selection, from the rows they are about.
LEMMA FrozenFrame ==
    ASSUME UNCHANGED handoff, (\A r \in Honest : FrontierInv(r)) /\ SelectionInv
    PROVE  (\A r \in Honest : FrontierInv(r)') /\ SelectionInv'
  BY Zenon DEF handoff, FrontierInv, SelectionInv, Id

\* Indexing in the order of request ids never skips a retained publication.
LEMMA FrontierNext ==
    ASSUME HandoffTypeOK, NEW r \in Honest, FrontierInv(r), IndexNext(r)
    PROVE  FrontierInv(r)'
PROOF
  <1>1. PICK q \in Unindexed(r) :
            /\ \A p \in Unindexed(r) : Id(q) <= Id(p)
            /\ indexed' = [indexed EXCEPT ![r] = @ \cup {q}]
    BY Zenon DEF IndexNext
  <1>2. /\ indexed'[r] = indexed[r] \cup {q} /\ r \in closed /\ r \notin signed
        /\ UNCHANGED <<retained, closed, signed>>
    BY Zenon, <1>1 DEF IndexNext, HandoffTypeOK
  <1>3. retained[r] \subseteq Request /\ q \in retained[r]
    BY Zenon, <1>1 DEF Unindexed, HandoffTypeOK
  <1>4. \A p \in retained[r] : Id(p) \in Nat
    BY Zenon, <1>3, IntentType, HandoffAssumption
  <1>5. ASSUME NEW p \in retained[r] \ indexed'[r] PROVE Id(q) < Id(p)
    <2>1. p \in Unindexed(r) /\ p # q
      BY Zenon, <1>2, <1>5 DEF Unindexed, FrontierInv
    <2>2. Id(q) <= Id(p) /\ Id(q) # Id(p)
      BY Zenon, <1>1, <1>3, <1>5, <2>1 DEF FrontierInv
    <2> QED BY <1>3, <1>4, <1>5, <2>2
  <1>6. \A x \in indexed'[r], p \in retained[r] \ indexed'[r] : Id(x) < Id(p)
    BY Zenon, <1>2, <1>5 DEF FrontierInv
  <1> QED BY Zenon, <1>2, <1>3, <1>6 DEF FrontierInv, Id

\* The invariant of the freeze and the drain set holds in every behaviour.
LEMMA FrozenNext == FrozenInv /\ [HandoffNext]_hvars => FrozenInv'
PROOF
  <1> SUFFICES ASSUME FrozenInv, [HandoffNext]_hvars PROVE FrozenInv'
    BY Zenon
  <1>1. HandoffTypeOK /\ HandoffTypeOK'
    BY Zenon, HandoffTypeNext DEF FrozenInv
  <1>2. ASSUME \A r \in Honest : retained[r] \subseteq retained'[r],
               \A r \in Honest : Finalized(r)' = Finalized(r), DrainUnion \subseteq DrainUnion'
        PROVE  PublishedInv'
    BY Zenon, <1>2, AvailableStays DEF FrozenInv, PublishedInv
  <1>3. UNCHANGED vars => \A r \in Honest : Finalized(r)' = Finalized(r)
    BY Zenon DEF vars, rows, Finalized, Id
  <1>4. UNCHANGED drainSet => DrainUnion' = DrainUnion
    BY Zenon DEF DrainUnion
  <1>5. CASE UNCHANGED hvars
    <2>1. UNCHANGED handoff /\ UNCHANGED vars
      BY Zenon, <1>5 DEF hvars
    <2>2. PublishedInv'
      BY Zenon, <1>2, <1>3, <1>4, <2>1 DEF handoff
    <2> QED BY Zenon, <1>1, <2>1, <2>2, FrozenFrame DEF FrozenInv
  <1>6. ASSUME NEW r \in Honest, NEW q \in Request, OpenPrepare(r, q) PROVE FrozenInv'
    <2>1. UNCHANGED handoff
      BY Zenon, <1>6 DEF OpenPrepare
    <2>2. \A t \in Honest : Finalized(t)' = Finalized(t)
      BY Zenon, <1>6 DEF OpenPrepare, Prepare, Finalized, Id
    <2>3. PublishedInv'
      BY Zenon, <1>2, <1>4, <2>1, <2>2 DEF handoff
    <2> QED BY Zenon, <1>1, <2>1, <2>3, FrozenFrame DEF FrozenInv
  <1>7. ASSUME NEW r \in Honest, NEW q \in Request, ApplyPublished(r, q) \/ DrainApply(r, q)
        PROVE  FrozenInv'
    <2>1. UNCHANGED handoff /\ Finalize(r, q) /\ (Available(q) \/ q \in DrainUnion)
      BY Zenon, <1>7 DEF ApplyPublished, DrainApply, ApplyPrepared, ApplyRecovery
    <2>2. \A t \in Honest : Finalized(t)' \subseteq Finalized(t) \cup {q}
      BY Zenon, <1>1, <2>1, FinalizedGrows DEF HandoffTypeOK
    <2>3. \A p : Available(p)' <=> Available(p)
      BY Zenon, <2>1 DEF handoff, Available, Committee
    <2>4. PublishedInv'
      BY <1>4, <2>1, <2>2, <2>3 DEF handoff, FrozenInv, PublishedInv
    <2> QED BY Zenon, <1>1, <2>1, <2>4, FrozenFrame DEF FrozenInv
  <1>8. ASSUME NEW r \in Honest, NEW q \in Request, Retain(r, q) PROVE FrozenInv'
    <2>1. /\ r \notin closed /\ r \notin signed /\ retained'[r] = retained[r] \cup {q}
          /\ \A t \in Honest \ {r} : retained'[t] = retained[t]
          /\ UNCHANGED <<vars, closed, indexed, signed, drainSet>>
      BY Zenon, <1>1, <1>8 DEF Retain, AdmissionOpen, HandoffTypeOK
    <2>2. \A p \in retained[r] : Id(p) # Id(q)
      BY Zenon, <1>8 DEF Retain
    <2>3. FrontierInv(r)'
      BY Zenon, <2>1, <2>2 DEF FrozenInv, FrontierInv, Id
    <2>4. \A t \in Honest \ {r} : FrontierInv(t)'
      BY Zenon, <2>1 DEF FrozenInv, FrontierInv, Id
    <2>5. SelectionInv'
      BY Zenon, <2>1 DEF FrozenInv, SelectionInv
    <2>6. PublishedInv'
      BY Zenon, <1>2, <1>3, <1>4, <2>1
    <2> QED BY Zenon, <1>1, <2>3, <2>4, <2>5, <2>6 DEF FrozenInv
  <1>9. ASSUME NEW r \in Honest, Freeze(r) \/ InstallDrainSet(r) \/ Seal(r) PROVE FrozenInv'
    <2>1. /\ UNCHANGED <<vars, retained, indexed, signed, drainSet>>
          /\ closed \subseteq closed'
      BY Zenon, <1>9 DEF Freeze, InstallDrainSet, Seal
    <2>2. \A t \in Honest : FrontierInv(t)'
      BY Zenon, <2>1 DEF FrozenInv, FrontierInv, Id
    <2>3. SelectionInv'
      BY Zenon, <2>1 DEF FrozenInv, SelectionInv
    <2>4. PublishedInv'
      BY Zenon, <1>2, <1>3, <1>4, <2>1
    <2> QED BY Zenon, <1>1, <2>2, <2>3, <2>4 DEF FrozenInv
  <1>10. ASSUME NEW r \in Honest, IndexNext(r) PROVE FrozenInv'
    <2>1. /\ UNCHANGED <<vars, retained, closed, signed, drainSet>> /\ r \notin signed
          /\ \A t \in Honest \ {r} : indexed'[t] = indexed[t]
      BY Zenon, <1>1, <1>10 DEF IndexNext, HandoffTypeOK
    <2>2. FrontierInv(r)'
      BY Zenon, <1>1, <1>10, FrontierNext DEF FrozenInv
    <2>3. \A t \in Honest \ {r} : FrontierInv(t)'
      BY Zenon, <2>1 DEF FrozenInv, FrontierInv, Id
    <2>4. SelectionInv'
      BY Zenon, <2>1 DEF FrozenInv, SelectionInv
    <2>5. PublishedInv'
      BY Zenon, <1>2, <1>3, <1>4, <2>1
    <2> QED BY Zenon, <1>1, <2>2, <2>3, <2>4, <2>5 DEF FrozenInv
  <1>11. ASSUME NEW r \in Honest, SignFrontier(r) PROVE FrozenInv'
    <2>1. /\ UNCHANGED <<vars, retained, closed, indexed, drainSet>>
          /\ signed' = signed \cup {r} /\ Unindexed(r) = {}
      BY Zenon, <1>11 DEF SignFrontier
    <2>2. indexed[r] = retained[r]
      BY Zenon, <2>1 DEF Unindexed, FrozenInv, FrontierInv
    <2>3. \A t \in Honest : FrontierInv(t)'
      BY Zenon, <2>1, <2>2 DEF FrozenInv, FrontierInv, Id
    <2>4. SelectionInv'
      BY Zenon, <2>1 DEF FrozenInv, SelectionInv
    <2>5. PublishedInv'
      BY Zenon, <1>2, <1>3, <1>4, <2>1
    <2> QED BY Zenon, <1>1, <2>3, <2>4, <2>5 DEF FrozenInv
  <1>12. ASSUME NEW r \in Honest, NEW s \in Faulty, NEW F \in SUBSET Request, Gather(r, s, F)
         PROVE  FrozenInv'
    <2>1. UNCHANGED <<vars, retained, closed, indexed, signed, drainSet>>
      BY Zenon, <1>12 DEF Gather
    <2>2. (\A t \in Honest : FrontierInv(t)') /\ SelectionInv'
      BY Zenon, <2>1 DEF FrozenInv, FrontierInv, SelectionInv, Id
    <2>3. PublishedInv'
      BY Zenon, <1>2, <1>3, <1>4, <2>1
    <2> QED BY Zenon, <1>1, <2>2, <2>3 DEF FrozenInv
  <1>13. ASSUME NEW r \in Honest, NEW Q \in QuorumOf(Committee), CommitDrainSet(r, Q)
         PROVE  FrozenInv'
    <2>1. /\ UNCHANGED <<vars, retained, closed, indexed, signed>> /\ drainSet = None
          /\ drainSet' = [s \in Q |-> Frontier(r, s)] /\ \A s \in Q : Frontier(r, s) # None
      BY Zenon, <1>13 DEF CommitDrainSet
    <2>2. \A t \in Honest : FrontierInv(t)'
      BY Zenon, <2>1 DEF FrozenInv, FrontierInv, Id
    <2>3. SelectionInv'
      BY Zenon, <2>1 DEF SelectionInv, Frontier, Honest
    <2>4. PublishedInv'
      BY Zenon, <1>2, <1>3, <2>1 DEF DrainUnion
    <2> QED BY Zenon, <1>1, <2>2, <2>3, <2>4 DEF FrozenInv
  <1>14. ASSUME NEW r \in Honest, NEW v \in Honest \cap Incoming, SignReadiness(v, r)
         PROVE  FrozenInv'
    <2>1. UNCHANGED <<vars, retained, closed, indexed, signed, drainSet>>
      BY Zenon, <1>14 DEF SignReadiness
    <2>2. (\A t \in Honest : FrontierInv(t)') /\ SelectionInv'
      BY Zenon, <2>1 DEF FrozenInv, FrontierInv, SelectionInv, Id
    <2>3. PublishedInv'
      BY Zenon, <1>2, <1>3, <1>4, <2>1
    <2> QED BY Zenon, <1>1, <2>2, <2>3 DEF FrozenInv
  <1> QED BY Zenon, <1>5, <1>6, <1>7, <1>8, <1>9, <1>10, <1>11, <1>12, <1>13, <1>14
          DEF HandoffNext

\* A genesis store has retained, indexed and selected nothing.
LEMMA FrozenInit == HandoffInit => FrozenInv
PROOF
  <1> SUFFICES ASSUME HandoffInit PROVE FrozenInv
    BY Zenon
  <1>1. HandoffTypeOK
    BY Zenon, TypeInit DEF HandoffInit, HandoffTypeOK
  <1>2. \A r \in Honest : Finalized(r) = {}
    BY Zenon, NothingFinalized DEF HandoffInit
  <1> QED BY Zenon, <1>1, <1>2 DEF HandoffInit, FrozenInv, FrontierInv, SelectionInv, PublishedInv

\* In every behaviour a frontier that is signed is complete, and the drain set is
\* a quorum of signed frontiers.
LEMMA FrozenInvariance == HandoffSpec => []FrozenInv
  BY FrozenInit, FrozenNext, PTL DEF HandoffSpec

\* A quorum's ACKs and a quorum's frontiers share an honest validator, whose
\* frontier lists whatever it has acknowledged.
LEMMA AppliedInUnion ==
    ASSUME FaultBound PROVE FrozenInv => AppliedIsDrained
PROOF
  <1> SUFFICES ASSUME FrozenInv, drainSet # None
               PROVE  /\ \A r \in Honest : Finalized(r) \subseteq DrainUnion
                      /\ \A q \in Request : Available(q) => q \in DrainUnion
    BY Zenon DEF AppliedIsDrained
  <1>1. DOMAIN drainSet \in QuorumOf(Committee)
    BY Zenon DEF FrozenInv, HandoffTypeOK, Selection
  <1>2. ASSUME NEW q, Available(q) PROVE q \in DrainUnion
    <2> DEFINE S == {r \in Honest \cap Committee : q \in retained[r]} \cup (Faulty \cap Committee)
    <2>1. S \in QuorumOf(Committee)
      BY Zenon, <1>2 DEF Available
    <2>2. /\ Committee \in SUBSET Validator /\ Committee # {}
          /\ Faulty \cap Committee \in SUBSET Validator
          /\ PowerOf(Faulty \cap Committee) <= (PowerOf(Committee) - 1) \div 3
      BY Zenon, OneEpoch DEF FaultBound
    <2>3. PICK s \in S \cap DOMAIN drainSet : s \notin Faulty \cap Committee
      <3> HIDE DEF S
      <3> QED BY <1>1, <2>1, <2>2, CommitteeIntersection
    <2>4. s \in Honest /\ q \in retained[s]
      BY Zenon, <2>3
    <2>5. drainSet[s] = retained[s]
      BY <2>3, <2>4 DEF FrozenInv, SelectionInv, FrontierInv
    <2> QED BY Zenon, <2>3, <2>4, <2>5 DEF DrainUnion
  <1> QED BY Zenon, <1>2 DEF FrozenInv, PublishedInv

\* Leaving the epoch loses no request that was applied or can still be, however
\* the Freeze reaches the replicas and whatever faulty signers list.
THEOREM HandoffLosesNothing ==
    ASSUME FaultBound PROVE HandoffSpec => []AppliedIsDrained
  BY FrozenInvariance, AppliedInUnion, PTL

-------------------------------------------------------------------------------
(***************************************************************************)
(* What votes and locks stand for.                                         *)
(***************************************************************************)
\* Replicas that do not move keep what they hold and what they have seen.
LEMMA HeldFrame ==
    ASSUME NEW t \in Honest, HeldInv(t), HistoryInv(t),
           head'[t] = head[t], nonce'[t] = nonce[t], receipt'[t] = receipt[t],
           lock'[t] = lock[t], nonceLock'[t] = nonceLock[t], prepared'[t] = prepared[t],
           voted'[t] = voted[t], epoch'[t] = epoch[t], certificate'[t] = certificate[t],
           installed \subseteq installed'
    PROVE  HeldInv(t)' /\ HistoryInv(t)'
PROOF
  <1>1. Finalized(t)' = Finalized(t)
    BY Zenon DEF Finalized, Id
  <1>2. \A q : Waiting(t, q)' <=> Waiting(t, q)
    BY DEF Waiting, NextNonce, HoldsLocks, PinsHold, OwnLock, OwnerOf, Id, Slot, Inputs, EpochOf
  <1>3. \A p, q, o, ref : /\ Compete(p, q)' <=> Compete(p, q)
                          /\ Displaced(t, q)' <=> Displaced(t, q)
                          /\ PinnedOnce(t, q, o, ref)' <=> PinnedOnce(t, q, o, ref)
    BY <1>1 DEF Compete, SameNonce, Slot, EpochOf, Spends, Writes, Displaced, PinnedOnce, OwnerOf
  <1>4. \A p, s, o : /\ NonceHeldFor(t, s, p)' <=> NonceHeldFor(t, s, p)
                     /\ HeldFor(t, o, p)' <=> HeldFor(t, o, p)
    <2> TAKE p, s, o
    <2>1. NonceHeldFor(t, s, p)' <=> NonceHeldFor(t, s, p)
      BY Zenon, <1>2 DEF NonceHeldFor, Id, Slot
    <2>2. HeldFor(t, o, p)' <=> HeldFor(t, o, p)
      BY Zenon, <1>2 DEF HeldFor, OwnLock, Id, Slot, Inputs
    <2> QED BY Zenon, <2>1, <2>2
  <1>5. HeldInv(t)'
    BY Zenon, <1>1, <1>2, <1>3, <1>4 DEF HeldInv
  <1>6. HistoryInv(t)'
    BY Zenon, <1>3 DEF HistoryInv, Slot, Inputs
  <1> QED BY Zenon, <1>5, <1>6

\* Before the drain set is installed, votes and locks are those of the fast path.
LEMMA HeldBefore ==
    ASSUME TypeOK, NEW r \in Honest, HeldInv(r), r \notin installed
    PROVE  VoteInv(r) /\ LockInv(r)
PROOF
  <1>1. epoch[r] = 0 /\ \A q \in voted[r] : EpochOf(q) = 0
    BY Zenon, OneEpoch DEF TypeOK
  <1>2. \A o \in Object : lock[r][o] # None => lock[r][o].epoch = 0
    BY OneEpoch DEF TypeOK, LockShape
  <1>3. VoteInv(r)
    BY <1>1 DEF HeldInv, VoteInv
  <1>4. LockInv(r)
    BY <1>1, <1>2 DEF HeldInv, LockInv, HeldFor
  <1> QED BY Zenon, <1>3, <1>4

\* What a request is admitted over is what its vote remembers.
LEMMA AdmittedPins ==
    ASSUME TypeOK, NEW r \in Honest, NEW q \in Request, LedgerInv(r), Admit(r, q),
           NEW o \in Inputs(q)
    PROVE  PinnedOnce(r, q, o, Intent[q].inputs[o])
PROOF
  <1>1. o \in Object /\ Intent[q].inputs[o] \in Ref
    BY Zenon, IntentType
  <1>2. head[r][o] = Intent[q].inputs[o] /\ OwnerOf(o, Intent[q].inputs[o]) = Intent[q].sender
    BY Zenon DEF Admit, PinsHold
  <1> QED BY Zenon, <1>1, <1>2 DEF LedgerInv, PinnedOnce

\* prepare at an open replica.
LEMMA HeldPrepare ==
    ASSUME UniqueIds, TypeOK, TypeOK', NEW r \in Honest, NEW q \in Request,
           LedgerInv(r), HeldInv(r), HistoryInv(r), r \notin installed, installed' = installed,
           Prepare(r, q)
    PROVE  HeldInv(r)' /\ HistoryInv(r)'
PROOF
  <1>1. VoteInv(r)' /\ LockInv(r)'
    BY Zenon, HeldBefore, VotePrepare
  <1>2. /\ Admit(r, q) /\ UNCHANGED <<head, nonce, receipt, certificate, epoch>>
        /\ voted'[r] = voted[r] \cup {q}
        /\ nonceLock'[r] = [nonceLock[r] EXCEPT ![Slot(q)] = Id(q)]
    <2>1. /\ Admit(r, q) /\ UNCHANGED <<head, nonce, receipt, certificate, epoch>>
          /\ voted' = [voted EXCEPT ![r] = @ \cup {q}]
          /\ nonceLock' = [nonceLock EXCEPT ![r][Slot(q)] = Id(q)]
      BY Zenon DEF Prepare
    <2>2. voted \in [Honest -> SUBSET Request] /\ nonceLock \in [Honest -> [NonceKey -> RequestId \cup {None}]]
      BY Zenon DEF TypeOK
    <2>3. voted'[r] = voted[r] \cup {q}
      BY Zenon, <2>1, <2>2
    <2>4. nonceLock'[r] = [nonceLock[r] EXCEPT ![Slot(q)] = Id(q)]
      BY Zenon, <2>1, <2>2
    <2> QED BY Zenon, <2>1, <2>3, <2>4
  <1>3. Finalized(r)' = Finalized(r)
    BY Zenon, <1>2 DEF Finalized, Id
  <1>4. /\ nonce[r][Slot(q)] = Intent[q].nonce /\ Intent[q].nonce \in Nat
        /\ Slot(q) \in NonceKey /\ Id(q) \in RequestId
    BY Zenon, <1>2, IntentType DEF Admit, NextNonce
  <1>5. \A p \in voted'[r] : p \in Finalized(r)' \/ Waiting(r, p)'
    BY Zenon, <1>1 DEF VoteInv
  <1>6. \A p \in voted'[r] : receipt'[r][Id(p)] = None => Waiting(r, p)'
    <2>1. \A p \in voted'[r] : p \in Request /\ p # None
      BY FastPathAssumption DEF TypeOK
    <2> QED BY Zenon, <1>5, <2>1 DEF Finalized, Id
  <1>7. ASSUME NEW s \in NonceKey, nonceLock'[r][s] # None
        PROVE  \E p \in voted'[r] : NonceHeldFor(r, s, p)'
    <2>1. nonceLock[r] \in [NonceKey -> RequestId \cup {None}]
      BY Zenon DEF TypeOK
    <2>2. CASE s = Slot(q)
      <3>1. q \notin Finalized(r)
        BY <1>4 DEF LedgerInv
      <3>2. Waiting(r, q)' /\ nonceLock'[r][s] = Id(q)
        BY Zenon, <1>2, <1>3, <1>4, <1>5, <2>1, <2>2, <3>1
      <3> QED BY Zenon, <1>2, <2>2, <3>2 DEF NonceHeldFor, Slot, Id
    <2>3. CASE s # Slot(q)
      <3>1. nonceLock'[r][s] = nonceLock[r][s]
        BY Zenon, <1>2, <2>1, <2>3
      <3>2. PICK p \in voted[r] : NonceHeldFor(r, s, p)
        BY Zenon, <1>7, <3>1 DEF HeldInv
      <3>3. receipt'[r][Id(p)] = None /\ p \in voted'[r]
        BY Zenon, <1>2, <3>2 DEF NonceHeldFor, Waiting
      <3>4. Waiting(r, p)'
        BY Zenon, <1>6, <3>3
      <3> QED BY Zenon, <3>1, <3>2, <3>3, <3>4 DEF NonceHeldFor, Slot, Id
    <2> QED BY Zenon, <2>2, <2>3
  <1>8. ASSUME NEW o \in Object, lock'[r][o] # None
        PROVE  lock'[r][o].ref = head'[r][o] /\ \E p \in voted'[r] : HeldFor(r, o, p)'
    <2>1. epoch'[r] = 0 /\ lock'[r][o].epoch = 0 /\ epoch[r] = 0
      BY <1>8, OneEpoch DEF TypeOK, LockShape
    <2>2. PICK p \in voted'[r] : HeldFor(r, o, p)'
      BY Zenon, <1>1, <1>8, <2>1 DEF LockInv, HeldFor
    <2>3. Waiting(r, p)' /\ p \in Request
      BY Zenon, <1>6, <2>2 DEF HeldFor, Id, TypeOK
    <2>4. EpochOf(p) = 0
      BY Zenon, <2>3, OneEpoch
    <2>5. head'[r][o] = Intent[p].inputs[o]
      BY Zenon, <2>1, <2>2, <2>3, <2>4 DEF Waiting, PinsHold, HeldFor, EpochOf, Inputs
    <2>6. lock'[r][o].ref = Intent[p].inputs[o]
      BY <2>2 DEF HeldFor, OwnLock
    <2> QED BY Zenon, <2>2, <2>5, <2>6
  <1>9. certificate'[r] \subseteq Finalized(r)'
    BY Zenon, <1>2, <1>3 DEF HeldInv
  <1>10. \A p, x \in voted'[r] : Compete(p, x)' => p = x
    BY Zenon, <1>1 DEF VoteInv
  <1>11. HeldInv(r)'
    BY Zenon, <1>5, <1>7, <1>8, <1>9, <1>10 DEF HeldInv
  <1>12. \A p, o, ref : PinnedOnce(r, p, o, ref)' <=> PinnedOnce(r, p, o, ref)
    BY <1>3 DEF PinnedOnce, OwnerOf, Slot, Writes, Spends
  <1>13. ASSUME NEW p \in voted'[r]
         PROVE  /\ Intent[p].nonce <= nonce'[r][Slot(p)]
                /\ \A o \in Inputs(p) : PinnedOnce(r, p, o, Intent[p].inputs[o])'
    <2>1. CASE p \in voted[r]
      BY Zenon, <1>2, <1>12, <2>1 DEF HistoryInv
    <2>2. CASE p = q
      BY <1>2, <1>4, <1>12, <2>2, AdmittedPins
    <2> QED BY Zenon, <1>2, <2>1, <2>2
  <1>14. HistoryInv(r)'
    BY Zenon, <1>13 DEF HistoryInv, Slot, Inputs
  <1> QED BY Zenon, <1>11, <1>14

\* Finalizing q at r, with a lock of another request on what q touches only when
\* the drain displaces it.
LEMMA HeldApply ==
    ASSUME UniqueIds, TypeOK, NEW r \in Honest, NEW q \in Request,
           LedgerInv(r), HeldInv(r), HistoryInv(r),
           Admit(r, q), Finalize(r, q), ClearLocks(r, q),
           nonceLock' = [nonceLock EXCEPT ![r][Slot(q)] = None],
           certificate' = [certificate EXCEPT ![r] = @ \cup {q}],
           UNCHANGED <<epoch, prepared, voted, installed>>,
           r \in installed \/ nonceLock[r][Slot(q)] \in {None, Id(q)}
    PROVE  HeldInv(r)' /\ HistoryInv(r)'
PROOF
  <1>1. Finalized(r)' = Finalized(r) \cup {q} /\ q \notin Finalized(r)
    BY Zenon, FinalizedGrows
  <1>2. /\ Id(q) \in RequestId /\ Slot(q) \in NonceKey /\ Inputs(q) \subseteq Object
        /\ Writes(q) \subseteq Inputs(q) /\ Intent[q].nonce \in Nat
    BY Zenon, IntentType
  <1>3. /\ nonceLock[r] \in [NonceKey -> RequestId \cup {None}]
        /\ nonceLock'[r] = [nonceLock[r] EXCEPT ![Slot(q)] = None]
        /\ receipt[r] \in [RequestId -> Request \cup {None}]
        /\ receipt'[r] = [receipt[r] EXCEPT ![Id(q)] = q]
        /\ nonce[r] \in [NonceKey -> Nat]
        /\ nonce'[r] = [nonce[r] EXCEPT ![Slot(q)] = Intent[q].nonce + 1]
        /\ nonce[r][Slot(q)] = Intent[q].nonce
    BY Zenon DEF TypeOK, Finalize, Admit, NextNonce
  <1>4. \A o \in Object : /\ head'[r][o] = IF o \in Writes(q) THEN q ELSE head[r][o]
                          /\ lock'[r][o] = IF o \in Inputs(q) THEN None ELSE lock[r][o]
    BY Zenon DEF TypeOK, Finalize, ClearLocks
  <1>5. /\ certificate'[r] = certificate[r] \cup {q} /\ epoch'[r] = epoch[r]
        /\ prepared'[r] = prepared[r] /\ voted'[r] = voted[r]
    BY Zenon DEF TypeOK
  <1>6. \A p \in voted[r] : /\ p \in Request /\ Id(p) \in RequestId /\ Slot(p) \in NonceKey
                            /\ Inputs(p) \subseteq Object /\ Id(p) # None
                            /\ Intent[p].nonce \in Nat
                            /\ (Id(p) = Id(q) => p = q)
    <2> SUFFICES ASSUME NEW p \in voted[r]
                 PROVE  /\ p \in Request /\ Id(p) \in RequestId /\ Slot(p) \in NonceKey
                        /\ Inputs(p) \subseteq Object /\ Id(p) # None
                        /\ Intent[p].nonce \in Nat
                        /\ (Id(p) = Id(q) => p = q)
      BY Zenon
    <2>1. p \in Request
      BY Zenon DEF TypeOK
    <2>2. /\ Id(p) \in RequestId /\ Slot(p) \in NonceKey
          /\ Inputs(p) \subseteq Object /\ Intent[p].nonce \in Nat
      BY Zenon, <2>1, IntentType
    <2>3. Id(p) # None
      BY Zenon, <2>2, FastPathAssumption
    <2>4. Id(p) = Id(q) => p = q
      BY Zenon, <2>1 DEF UniqueIds, Id
    <2> QED BY Zenon, <2>1, <2>2, <2>3, <2>4
  <1>7. \A p \in voted[r] : Waiting(r, p) /\ Slot(p) # Slot(q) => Waiting(r, p)'
    <2> SUFFICES ASSUME NEW p \in voted[r], Waiting(r, p), Slot(p) # Slot(q)
                 PROVE  Waiting(r, p)'
      BY Zenon
    <2>1. EpochOf(p) = epoch[r]
      BY Zenon, <1>6, OneEpoch
    <2>2. Inputs(p) \cap Inputs(q) = {}
      BY Zenon, <1>6, <2>1, WaitingDisjoint
    <2>3. \A o \in Inputs(p) : lock'[r][o] = lock[r][o] /\ head'[r][o] = head[r][o]
      BY Zenon, <1>2, <1>4, <1>6, <2>2
    <2>4. Id(p) # Id(q)
      BY Zenon, <1>6
    <2>5. /\ nonceLock'[r][Slot(p)] = nonceLock[r][Slot(p)]
          /\ nonce'[r][Slot(p)] = nonce[r][Slot(p)]
          /\ receipt'[r][Id(p)] = receipt[r][Id(p)]
      BY <1>3, <1>6, <2>4
    <2>6. nonceLock'[r][Slot(p)] = Id(p) /\ NextNonce(r, p)'
      BY Zenon, <2>5 DEF Waiting, NextNonce, Slot
    <2>7. prepared'[r][Id(p)] = p /\ receipt'[r][Id(p)] = None
      BY Zenon, <1>5, <2>5 DEF Waiting
    <2>8. HoldsLocks(r, p)'
      BY Zenon, <1>5, <2>1, <2>3, <2>6 DEF Waiting, HoldsLocks, OwnLock, Id, Slot, Inputs
    <2>9. PinsHold(r, p)'
      BY Zenon, <2>1, <2>3 DEF Waiting, PinsHold, OwnerOf, Inputs
    <2> QED BY Zenon, <2>6, <2>7, <2>8, <2>9 DEF Waiting, Id, Slot
  <1>8. ASSUME NEW p \in voted[r]
        PROVE  p \in Finalized(r)' \/ Waiting(r, p)' \/ (r \in installed /\ Displaced(r, p)')
    <2>1. CASE p \in Finalized(r) \/ p = q
      BY Zenon, <1>1, <2>1
    <2>2. CASE r \in installed /\ Displaced(r, p)
      BY Zenon, <1>1, <2>2 DEF Displaced, SameNonce, Slot
    <2>3. CASE Waiting(r, p) /\ p # q
      <3>1. CASE Slot(p) # Slot(q)
        BY Zenon, <1>7, <2>3, <3>1
      <3>2. CASE Slot(p) = Slot(q)
        <4>1. r \in installed
          BY Zenon, <1>6, <2>3, <3>2 DEF Waiting
        <4>2. SameNonce(q, p)
          BY Zenon, <1>3, <2>3, <3>2 DEF Waiting, NextNonce, SameNonce
        <4> QED BY Zenon, <1>1, <2>3, <4>1, <4>2 DEF Displaced, SameNonce, Slot
      <3> QED BY Zenon, <3>1, <3>2
    <2> QED BY Zenon, <2>1, <2>2, <2>3 DEF HeldInv
  <1>9. ASSUME NEW s \in NonceKey, nonceLock'[r][s] # None
        PROVE  \E p \in voted'[r] : NonceHeldFor(r, s, p)'
    <2>1. s # Slot(q) /\ nonceLock'[r][s] = nonceLock[r][s]
      BY <1>2, <1>3, <1>9
    <2>2. PICK p \in voted[r] : NonceHeldFor(r, s, p)
      BY Zenon, <1>9, <2>1 DEF HeldInv
    <2>3. Waiting(r, p)'
      BY Zenon, <1>7, <2>1, <2>2 DEF NonceHeldFor
    <2> QED BY Zenon, <1>5, <2>1, <2>2, <2>3 DEF NonceHeldFor, Slot, Id
  <1>10. ASSUME NEW o \in Object, lock'[r][o] # None
         PROVE  lock'[r][o].ref = head'[r][o] /\ \E p \in voted'[r] : HeldFor(r, o, p)'
    <2>1. o \notin Inputs(q) /\ lock'[r][o] = lock[r][o] /\ head'[r][o] = head[r][o]
      BY Zenon, <1>2, <1>4, <1>10
    <2>2. PICK p \in voted[r] : HeldFor(r, o, p)
      BY Zenon, <1>10, <2>1 DEF HeldInv
    <2>3. p # q
      BY Zenon, <2>1, <2>2 DEF HeldFor
    <2>4. Id(p) # Id(q)
      BY Zenon, <1>6, <2>3
    <2>5. receipt'[r][Id(p)] = None
      BY Zenon, <1>3, <1>6, <2>2, <2>4 DEF HeldFor
    <2>6. HeldFor(r, o, p)'
      BY Zenon, <1>5, <2>1, <2>2, <2>5 DEF HeldFor, OwnLock, Id, Inputs
    <2> QED BY Zenon, <1>5, <1>10, <2>1, <2>6 DEF HeldInv
  <1>11. certificate'[r] \subseteq Finalized(r)'
    BY Zenon, <1>1, <1>5 DEF HeldInv
  <1>12. \A p, x \in voted'[r] : Compete(p, x)' => p = x
    BY Zenon, <1>5 DEF HeldInv, Compete, SameNonce, Slot, EpochOf, Spends, Writes
  <1>13. HeldInv(r)'
    BY Zenon, <1>5, <1>8, <1>9, <1>10, <1>11, <1>12 DEF HeldInv
  <1>14. ASSUME NEW p \in voted[r]
         PROVE  /\ Intent[p].nonce <= nonce'[r][Slot(p)]
                /\ \A o \in Inputs(p) : PinnedOnce(r, p, o, Intent[p].inputs[o])'
    <2>1. Intent[p].nonce <= nonce[r][Slot(p)]
      BY Zenon DEF HistoryInv
    <2>2. nonce[r][Slot(p)] <= nonce'[r][Slot(p)] /\ nonce[r][Slot(p)] \in Nat
          /\ nonce'[r][Slot(p)] \in Nat
      BY <1>2, <1>3, <1>6
    <2>3. ~(Slot(q) = Slot(p) /\ Intent[q].nonce < Intent[p].nonce)
      BY <1>2, <1>3, <1>6, <2>1
    <2>4. ASSUME NEW o \in Inputs(p) PROVE PinnedOnce(r, p, o, Intent[p].inputs[o])'
      <3>1. PinnedOnce(r, p, o, Intent[p].inputs[o])
        BY Zenon DEF HistoryInv
      <3> QED BY Zenon, <1>1, <2>3, <3>1 DEF PinnedOnce, OwnerOf, Slot, Writes, Spends
    <2> QED BY <1>6, <2>1, <2>2, <2>4
  <1>15. HistoryInv(r)'
    BY Zenon, <1>5, <1>14 DEF HistoryInv, Slot, Inputs
  <1> QED BY Zenon, <1>13, <1>15

\* Only certified requests go through the handoff.
LEMMA CertifiedNext ==
    ASSUME FrozenInv, CertifiedInv, HandoffNext
    PROVE  CertifiedInv'
PROOF
  <1>1. HandoffTypeOK /\ TypeOK
    BY Zenon DEF FrozenInv, HandoffTypeOK
  <1>2. \A v \in Honest : voted[v] \subseteq voted'[v]
    <2>1. ASSUME NEW r \in Honest, NEW q \in Request, OpenPrepare(r, q)
          PROVE  \A v \in Honest : voted[v] \subseteq voted'[v]
      BY Zenon, <1>1, <2>1 DEF OpenPrepare, Prepare, TypeOK
    <2>2. ASSUME NEW r \in Honest, NEW q \in Request,
                 Retain(r, q) \/ ApplyPublished(r, q) \/ DrainApply(r, q)
          PROVE  voted' = voted
      BY Zenon, <2>2 DEF Retain, ApplyPublished, DrainApply, ApplyPrepared, ApplyRecovery, vars
    <2>3. ASSUME NEW r \in Honest,
                 Freeze(r) \/ IndexNext(r) \/ SignFrontier(r) \/ InstallDrainSet(r) \/ Seal(r)
          PROVE  voted' = voted
      BY Zenon, <2>3 DEF Freeze, IndexNext, SignFrontier, InstallDrainSet, Seal, vars
    <2>4. ASSUME NEW r \in Honest, NEW s, NEW F,
                 Gather(r, s, F) \/ CommitDrainSet(r, F) \/ SignReadiness(s, r)
          PROVE  voted' = voted
      BY Zenon, <2>4 DEF Gather, CommitDrainSet, SignReadiness, vars
    <2> QED BY Zenon, <2>1, <2>2, <2>3, <2>4 DEF HandoffNext
  <1>3. \A q \in Request : CertifiedSomewhere(q) => CertifiedSomewhere(q)'
    BY Zenon, <1>2, CertifiedStays
  <1>4. \A q \in Request, r \in Honest : Certified(q, members[r]) => CertifiedSomewhere(q)
    BY Zenon, <1>1, OneEpoch
  <1>5. /\ \A r \in Honest : retained[r] \subseteq Request /\ Finalized(r) \subseteq Request
        /\ \A r \in Honest, s \in Faulty : progress[r][s] # None => progress[r][s] \subseteq Request
    BY Zenon, <1>1 DEF HandoffTypeOK, Finalized
  <1>6. DrainUnion \subseteq Request
    <2>1. CASE drainSet = None
      BY Zenon, <2>1 DEF DrainUnion
    <2>2. CASE drainSet # None
      <3>1. \A s \in DOMAIN drainSet : drainSet[s] \in SUBSET Request
        BY <1>1, <2>2 DEF HandoffTypeOK, Selection
      <3> QED BY Zenon, <2>2, <3>1 DEF DrainUnion
    <2> QED BY Zenon, <2>1, <2>2
  <1>7. ASSUME \A r \in Honest : \A q \in retained'[r] :
                  q \in retained[r] \/ (q \in Request /\ CertifiedSomewhere(q)),
               \A r \in Honest : \A q \in Finalized(r)' :
                  q \in Finalized(r) \/ (q \in Request /\ CertifiedSomewhere(q)),
               \A r \in Honest, s \in Faulty : progress'[r][s] # None =>
                  \A q \in progress'[r][s] : q \in Request /\ CertifiedSomewhere(q),
               \A q \in DrainUnion' : q \in Request /\ CertifiedSomewhere(q)
        PROVE  CertifiedInv'
    <2>1. \A r \in Honest : \A q \in retained'[r] : CertifiedSomewhere(q)'
      BY Zenon, <1>3, <1>5, <1>7 DEF CertifiedInv
    <2>2. \A r \in Honest : \A q \in Finalized(r)' : CertifiedSomewhere(q)'
      BY Zenon, <1>3, <1>5, <1>7 DEF CertifiedInv
    <2>3. \A r \in Honest, s \in Faulty : progress'[r][s] # None =>
              \A q \in progress'[r][s] : CertifiedSomewhere(q)'
      BY Zenon, <1>3, <1>7
    <2>4. \A q \in DrainUnion' : CertifiedSomewhere(q)'
      BY Zenon, <1>3, <1>7
    <2> QED BY Zenon, <2>1, <2>2, <2>3, <2>4 DEF CertifiedInv
  <1>8. /\ \A r \in Honest, s \in Faulty : progress[r][s] # None =>
              \A q \in progress[r][s] : q \in Request /\ CertifiedSomewhere(q)
        /\ \A q \in DrainUnion : q \in Request /\ CertifiedSomewhere(q)
    BY Zenon, <1>5, <1>6 DEF CertifiedInv
  <1>9. /\ UNCHANGED receipt => \A r \in Honest : Finalized(r)' = Finalized(r)
        /\ UNCHANGED drainSet => DrainUnion' = DrainUnion
    BY Zenon DEF Finalized, Id, DrainUnion
  <1>10. ASSUME NEW r \in Honest,
                Freeze(r) \/ IndexNext(r) \/ SignFrontier(r) \/ InstallDrainSet(r) \/ Seal(r)
         PROVE  CertifiedInv'
    <2>1. UNCHANGED <<receipt, retained, progress, drainSet>>
      BY Zenon, <1>10 DEF Freeze, IndexNext, SignFrontier, InstallDrainSet, Seal, vars, rows
    <2> QED BY Zenon, <1>7, <1>8, <1>9, <2>1
  <1>11. ASSUME NEW r \in Honest, NEW q \in Request, OpenPrepare(r, q) PROVE CertifiedInv'
    <2>1. UNCHANGED <<receipt, retained, progress, drainSet>>
      BY Zenon, <1>11 DEF OpenPrepare, Prepare, handoff
    <2> QED BY Zenon, <1>7, <1>8, <1>9, <2>1
  <1>12. ASSUME NEW r \in Honest, NEW q \in Request, Retain(r, q) PROVE CertifiedInv'
    <2>1. UNCHANGED <<receipt, progress, drainSet>> /\ CertifiedSomewhere(q)
      BY Zenon, <1>4, <1>12 DEF Retain, vars, rows
    <2>2. \A t \in Honest : retained'[t] \subseteq retained[t] \cup {q}
      BY Zenon, <1>1, <1>12 DEF Retain, HandoffTypeOK
    <2> QED BY Zenon, <1>7, <1>8, <1>9, <2>1, <2>2
  <1>13. ASSUME NEW r \in Honest, NEW q \in Request, ApplyPublished(r, q) \/ DrainApply(r, q)
         PROVE  CertifiedInv'
    <2>1. UNCHANGED <<retained, progress, drainSet>> /\ Finalize(r, q) /\ CertifiedSomewhere(q)
      BY Zenon, <1>4, <1>8, <1>13 DEF ApplyPublished, DrainApply, ApplyPrepared, ApplyRecovery, handoff
    <2>2. \A t \in Honest : Finalized(t)' \subseteq Finalized(t) \cup {q}
      BY Zenon, <1>1, <2>1, FinalizedGrows
    <2> QED BY Zenon, <1>7, <1>8, <1>9, <2>1, <2>2
  <1>14. ASSUME NEW r \in Honest, NEW s \in Faulty, NEW F \in SUBSET Request, Gather(r, s, F)
         PROVE  CertifiedInv'
    <2>1. UNCHANGED <<receipt, retained, drainSet>> /\ \A q \in F : CertifiedSomewhere(q)
      BY Zenon, <1>4, <1>14 DEF Gather, vars, rows
    <2>2. \A t \in Honest, x \in Faulty : progress'[t][x] \in {progress[t][x], F}
      BY Zenon, <1>1, <1>14 DEF Gather, HandoffTypeOK
    <2>3. \A t \in Honest, x \in Faulty : progress'[t][x] # None =>
              \A q \in progress'[t][x] : q \in Request /\ CertifiedSomewhere(q)
      BY Zenon, <1>8, <2>1, <2>2
    <2> QED BY Zenon, <1>7, <1>8, <1>9, <2>1, <2>3
  <1>15. ASSUME NEW r \in Honest, NEW Q \in QuorumOf(Committee), CommitDrainSet(r, Q)
         PROVE  CertifiedInv'
    <2>1. /\ UNCHANGED <<receipt, retained, progress>>
          /\ drainSet' = [s \in Q |-> Frontier(r, s)] /\ \A s \in Q : Frontier(r, s) # None
      BY Zenon, <1>15 DEF CommitDrainSet, vars, rows
    <2>2. ASSUME NEW s \in Q, NEW q \in Frontier(r, s) PROVE q \in Request /\ CertifiedSomewhere(q)
      <3>1. CASE s \in Faulty
        BY Zenon, <1>8, <2>1, <3>1 DEF Frontier
      <3>2. CASE s \notin Faulty
        <4>1. s \in Honest
          BY Zenon, <3>2, OneEpoch DEF Honest, QuorumOf
        <4>2. q \in retained[s]
          BY Zenon, <2>1, <3>2, <4>1 DEF Frontier, FrozenInv, FrontierInv
        <4> QED BY Zenon, <1>5, <4>1, <4>2 DEF CertifiedInv
      <3> QED BY Zenon, <3>1, <3>2
    <2>3. \A q \in DrainUnion' : \E s \in Q : q \in Frontier(r, s)
      BY Zenon, <2>1 DEF DrainUnion
    <2> QED BY Zenon, <1>7, <1>8, <1>9, <2>1, <2>2, <2>3
  <1>16. ASSUME NEW r \in Honest, NEW v \in Honest \cap Incoming, SignReadiness(v, r)
         PROVE  CertifiedInv'
    <2>1. UNCHANGED <<receipt, retained, progress, drainSet>>
      BY Zenon, <1>16 DEF SignReadiness, vars, rows
    <2> QED BY Zenon, <1>7, <1>8, <1>9, <2>1
  <1> QED BY Zenon, <1>10, <1>11, <1>12, <1>13, <1>14, <1>15, <1>16 DEF HandoffNext

\* An apply before the Freeze clears its own locks or finds none.
LEMMA ApplyClears ==
    ASSUME TypeOK, NEW r \in Honest, NEW q \in Request,
           ApplyPrepared(r, q) \/ ApplyRecovery(r, q)
    PROVE  /\ Admit(r, q) /\ Finalize(r, q) /\ ClearLocks(r, q)
           /\ nonceLock' = [nonceLock EXCEPT ![r][Slot(q)] = None]
           /\ certificate' = [certificate EXCEPT ![r] = @ \cup {q}]
           /\ UNCHANGED <<epoch, prepared, voted>>
           /\ nonceLock[r][Slot(q)] \in {None, Id(q)}
PROOF
  <1>1. CASE ApplyPrepared(r, q)
    BY Zenon, <1>1 DEF ApplyPrepared, HoldsLocks
  <1>2. CASE ApplyRecovery(r, q)
    <2>1. /\ nonceLock \in [Honest -> [NonceKey -> RequestId \cup {None}]]
          /\ nonceLock[r][Slot(q)] = None /\ nonceLock' = nonceLock /\ Slot(q) \in NonceKey
      BY Zenon, <1>2, IntentType DEF ApplyRecovery, NonceUnlocked, TypeOK
    <2>2. nonceLock' = [nonceLock EXCEPT ![r][Slot(q)] = None]
      BY Zenon, <2>1
    <2>3. /\ lock \in [Honest -> [Object -> LockShape \cup {None}]]
          /\ lock' = lock /\ \A o \in Inputs(q) : lock[r][o] = None
      BY Zenon, <1>2 DEF ApplyRecovery, TypeOK
    <2>4. ClearLocks(r, q)
      <3> DEFINE cleared == [o \in Object |-> IF o \in Inputs(q) THEN None ELSE lock[r][o]]
      <3>1. cleared = lock[r]
        BY Zenon, <2>3
      <3> QED BY Zenon, <2>3, <3>1 DEF ClearLocks
    <2> QED BY Zenon, <1>2, <2>1, <2>2, <2>4 DEF ApplyRecovery
  <1> QED BY Zenon, <1>1, <1>2

\* The inductive invariant of the handoff.
LEMMA HandoffInvNext ==
    ASSUME UniqueIds PROVE HandoffInv /\ [HandoffNext]_hvars => HandoffInv'
PROOF
  <1> SUFFICES ASSUME HandoffInv, [HandoffNext]_hvars PROVE HandoffInv'
    BY Zenon
  <1>1. FrozenInv /\ FrozenInv' /\ TypeOK /\ TypeOK'
    BY Zenon, FrozenNext DEF HandoffInv, FrozenInv, HandoffTypeOK
  <1>2. CertifiedInv'
    <2>1. CASE HandoffNext
      BY Zenon, <1>1, <2>1, CertifiedNext DEF HandoffInv
    <2>2. CASE UNCHANGED hvars
      <3>1. UNCHANGED <<receipt, voted, retained, progress, drainSet>>
        BY Zenon, <2>2 DEF hvars, vars, rows, handoff
      <3>2. \A q : CertifiedSomewhere(q)' <=> CertifiedSomewhere(q)
        BY Zenon, <3>1 DEF CertifiedSomewhere, Certified, EpochOf
      <3>3. DrainUnion' = DrainUnion /\ \A r \in Honest : Finalized(r)' = Finalized(r)
        BY Zenon, <3>1 DEF DrainUnion, Finalized, Id
      <3> QED BY Zenon, <3>1, <3>2, <3>3 DEF HandoffInv, CertifiedInv
    <2> QED BY Zenon, <2>1, <2>2
  <1>3. ASSUME UNCHANGED vars, installed \subseteq installed' PROVE HandoffInv'
    <2>1. ASSUME NEW t \in Honest PROVE LedgerInv(t)' /\ HeldInv(t)' /\ HistoryInv(t)'
      <3>1. /\ head'[t] = head[t] /\ nonce'[t] = nonce[t] /\ receipt'[t] = receipt[t]
            /\ lock'[t] = lock[t] /\ nonceLock'[t] = nonceLock[t] /\ prepared'[t] = prepared[t]
            /\ voted'[t] = voted[t] /\ epoch'[t] = epoch[t] /\ certificate'[t] = certificate[t]
        BY Zenon, <1>3 DEF vars, rows
      <3> QED BY Zenon, <1>3, <3>1, LedgerFrame, HeldFrame DEF HandoffInv
    <2> QED BY Zenon, <1>1, <1>2, <2>1 DEF HandoffInv
  <1>4. ASSUME NEW r \in Honest, NEW q \in Request, OpenPrepare(r, q) PROVE HandoffInv'
    <2>1. Prepare(r, q) /\ installed' = installed /\ r \notin installed
      BY Zenon, <1>1, <1>4 DEF OpenPrepare, AdmissionOpen, handoff, FrozenInv, HandoffTypeOK
    <2>2. ASSUME NEW t \in Honest PROVE LedgerInv(t)'
      <3>1. head'[t] = head[t] /\ nonce'[t] = nonce[t] /\ receipt'[t] = receipt[t]
        BY Zenon, <2>1 DEF Prepare
      <3> QED BY Zenon, <3>1, LedgerFrame DEF HandoffInv
    <2>3. HeldInv(r)' /\ HistoryInv(r)'
      BY Zenon, <1>1, <2>1, HeldPrepare DEF HandoffInv
    <2>4. ASSUME NEW t \in Honest \ {r} PROVE HeldInv(t)' /\ HistoryInv(t)'
      <3>1. /\ head'[t] = head[t] /\ nonce'[t] = nonce[t] /\ receipt'[t] = receipt[t]
            /\ lock'[t] = lock[t] /\ nonceLock'[t] = nonceLock[t] /\ prepared'[t] = prepared[t]
            /\ voted'[t] = voted[t] /\ epoch'[t] = epoch[t] /\ certificate'[t] = certificate[t]
        <4>1. /\ UNCHANGED <<head, nonce, receipt, certificate, epoch>>
              /\ \E X : lock' = [lock EXCEPT ![r] = X]
              /\ \E X : nonceLock' = [nonceLock EXCEPT ![r] = X]
              /\ \E X : prepared' = [prepared EXCEPT ![r] = X]
              /\ \E X : voted' = [voted EXCEPT ![r] = X]
          BY Zenon, <2>1 DEF Prepare
        <4>2. /\ DOMAIN lock = Honest /\ DOMAIN nonceLock = Honest
              /\ DOMAIN prepared = Honest /\ DOMAIN voted = Honest
          BY Zenon, <1>1 DEF TypeOK
        <4>3. lock'[t] = lock[t] /\ nonceLock'[t] = nonceLock[t]
          BY Zenon, <4>1, <4>2
        <4>4. prepared'[t] = prepared[t] /\ voted'[t] = voted[t]
          BY Zenon, <4>1, <4>2
        <4> QED BY Zenon, <4>1, <4>3, <4>4
      <3> QED BY Zenon, <2>1, <3>1, HeldFrame DEF HandoffInv
    <2> QED BY Zenon, <1>1, <1>2, <2>2, <2>3, <2>4 DEF HandoffInv
  <1>5. ASSUME NEW r \in Honest, NEW q \in Request, ApplyPublished(r, q) \/ DrainApply(r, q)
        PROVE  HandoffInv'
    <2>1. /\ Admit(r, q) /\ Finalize(r, q) /\ ClearLocks(r, q)
          /\ nonceLock' = [nonceLock EXCEPT ![r][Slot(q)] = None]
          /\ certificate' = [certificate EXCEPT ![r] = @ \cup {q}]
          /\ UNCHANGED <<epoch, prepared, voted, installed>>
          /\ r \in installed \/ nonceLock[r][Slot(q)] \in {None, Id(q)}
      <3>1. CASE ApplyPublished(r, q)
        <4>1. installed' = installed /\ (ApplyPrepared(r, q) \/ ApplyRecovery(r, q))
          BY Zenon, <3>1 DEF ApplyPublished, handoff
        <4> QED BY Zenon, <1>1, <4>1, ApplyClears
      <3>2. CASE DrainApply(r, q)
        BY Zenon, <3>2 DEF DrainApply, handoff
      <3> QED BY Zenon, <1>5, <3>1, <3>2
    <2>2. HeldInv(r)' /\ HistoryInv(r)' /\ LedgerInv(r)'
      BY Zenon, <1>1, <2>1, HeldApply, LedgerFinalize DEF HandoffInv
    <2>3. ASSUME NEW t \in Honest \ {r} PROVE LedgerInv(t)' /\ HeldInv(t)' /\ HistoryInv(t)'
      <3>1. head'[t] = head[t] /\ nonce'[t] = nonce[t] /\ receipt'[t] = receipt[t]
        <4>1. /\ \E X : head' = [head EXCEPT ![r] = X]
              /\ \E X : nonce' = [nonce EXCEPT ![r] = X]
              /\ \E X : receipt' = [receipt EXCEPT ![r] = X]
          BY Zenon, <2>1 DEF Finalize
        <4>2. DOMAIN head = Honest /\ DOMAIN nonce = Honest /\ DOMAIN receipt = Honest
          BY Zenon, <1>1 DEF TypeOK
        <4> QED BY Zenon, <4>1, <4>2
      <3>2. lock'[t] = lock[t] /\ nonceLock'[t] = nonceLock[t] /\ certificate'[t] = certificate[t]
        <4>1. \E X : lock' = [lock EXCEPT ![r] = X]
          BY Zenon, <2>1 DEF ClearLocks
        <4>2. DOMAIN lock = Honest /\ DOMAIN nonceLock = Honest /\ DOMAIN certificate = Honest
          BY Zenon, <1>1 DEF TypeOK
        <4> QED BY Zenon, <2>1, <4>1, <4>2
      <3>3. epoch'[t] = epoch[t] /\ prepared'[t] = prepared[t] /\ voted'[t] = voted[t]
        BY Zenon, <2>1
      <3> QED BY Zenon, <2>1, <3>1, <3>2, <3>3, LedgerFrame, HeldFrame DEF HandoffInv
    <2> QED BY Zenon, <1>1, <1>2, <2>2, <2>3 DEF HandoffInv
  <1>6. CASE UNCHANGED hvars
    BY Zenon, <1>3, <1>6 DEF hvars, handoff
  <1>7. ASSUME NEW r \in Honest,
               Freeze(r) \/ IndexNext(r) \/ SignFrontier(r) \/ InstallDrainSet(r) \/ Seal(r)
        PROVE  HandoffInv'
    BY Zenon, <1>3, <1>7 DEF Freeze, IndexNext, SignFrontier, InstallDrainSet, Seal
  <1>8. ASSUME NEW r \in Honest, NEW s \in Faulty, NEW F \in SUBSET Request, Gather(r, s, F)
        PROVE  HandoffInv'
    BY Zenon, <1>3, <1>8 DEF Gather
  <1>9. ASSUME NEW r \in Honest, NEW Q \in QuorumOf(Committee), CommitDrainSet(r, Q)
        PROVE  HandoffInv'
    BY Zenon, <1>3, <1>9 DEF CommitDrainSet
  <1>10. ASSUME NEW r \in Honest, NEW q \in Request, Retain(r, q) PROVE HandoffInv'
    BY Zenon, <1>3, <1>10 DEF Retain
  <1>11. ASSUME NEW r \in Honest, NEW v \in Honest \cap Incoming, SignReadiness(v, r)
         PROVE  HandoffInv'
    BY Zenon, <1>3, <1>11 DEF SignReadiness
  <1> QED BY Zenon, <1>4, <1>5, <1>6, <1>7, <1>8, <1>9, <1>10, <1>11 DEF HandoffNext

\* A genesis store holds no lock, vote or receipt that needs explaining.
LEMMA HandoffInvInit == HandoffInit => HandoffInv
PROOF
  <1> SUFFICES ASSUME HandoffInit PROVE HandoffInv
    BY Zenon
  <1>1. FrozenInv /\ IInv
    BY Zenon, FrozenInit, InvInit DEF HandoffInit
  <1>2. \A r \in Honest : Finalized(r) = {} /\ voted[r] = {} /\ certificate[r] = {}
    <2>1. \A r \in Honest : Finalized(r) = {}
      BY Zenon, NothingFinalized DEF HandoffInit
    <2>2. voted = [r \in Honest |-> {}] /\ certificate = [r \in Honest |-> {}]
      BY Zenon DEF HandoffInit, Init
    <2> QED BY Zenon, <2>1, <2>2
  <1>3. CertifiedInv
    BY Zenon, <1>2 DEF HandoffInit, CertifiedInv, DrainUnion
  <1>4. \A r \in Honest : HeldInv(r) /\ HistoryInv(r)
    BY Zenon, <1>2 DEF HandoffInit, Init, HeldInv, HistoryInv
  <1> QED BY Zenon, <1>1, <1>3, <1>4 DEF HandoffInv, IInv

\* The inductive invariant holds in every behaviour.
LEMMA HandoffInvariance == ASSUME UniqueIds PROVE HandoffSpec => []HandoffInv
  BY HandoffInvInit, HandoffInvNext, PTL DEF HandoffSpec

-------------------------------------------------------------------------------
(***************************************************************************)
(* What follows from the invariant.                                        *)
(***************************************************************************)
\* Votes of the one epoch agree, so its certificates do.
LEMMA HandoffNoCompetition ==
    ASSUME FaultBound PROVE HandoffInv => NoCompetition
PROOF
  <1>1. HandoffInv => VotesAgree
    BY Zenon DEF HandoffInv, HeldInv, VotesAgree
  <1> QED BY Zenon, <1>1, OneEpoch, NoCompetingCertificates DEF NoCompetition

\* A drain takes the locks only of requests that no certificate can name.
THEOREM DisplacedVotesAreLost ==
    ASSUME UniqueIds, FaultBound PROVE HandoffSpec => []DisplacedNeverCertified
PROOF
  <1>1. ASSUME HandoffInv, NEW r \in Honest, NEW p \in voted[r], CertifiedSomewhere(p)
        PROVE  p \in Finalized(r) \/ HoldsLocks(r, p)
    <2>1. TypeOK /\ p \in Request
      BY Zenon, <1>1 DEF HandoffInv, FrozenInv, HandoffTypeOK, TypeOK
    <2>2. CASE Waiting(r, p)
      BY Zenon, <2>1, <2>2, OneEpoch DEF Waiting
    <2>3. CASE Displaced(r, p)
      <3>1. PICK x \in Finalized(r) : x # p /\ SameNonce(x, p)
        BY Zenon, <2>3 DEF Displaced
      <3>2. CertifiedSomewhere(x) /\ x \in Request
        BY Zenon, <1>1, <3>1 DEF HandoffInv, CertifiedInv, Finalized
      <3> QED BY Zenon, <1>1, <2>1, <3>1, <3>2, HandoffNoCompetition DEF NoCompetition, Compete
    <2> QED BY Zenon, <1>1, <2>2, <2>3 DEF HandoffInv, HeldInv
  <1>2. HandoffInv => DisplacedNeverCertified
    BY <1>1, Zenon DEF DisplacedNeverCertified
  <1> QED BY <1>2, HandoffInvariance, PTL

\* A certified request was voted for by an honest validator.
LEMMA HonestVoter ==
    ASSUME FaultBound, NEW q \in Request, CertifiedSomewhere(q)
    PROVE  \E v \in Honest : q \in voted[v]
  BY Zenon, OneEpoch, CommonVoter

\* The nonce of a drain member whose predecessors are final is the next one.
LEMMA DrainNonce ==
    ASSUME FaultBound, HandoffInv, NEW r \in installed,
           NEW q \in DrainUnion \ Finalized(r), Predecessors(q) \subseteq Finalized(r)
    PROVE  NextNonce(r, q) /\ q \in Request
PROOF
  <1>1. r \in Honest /\ drainSet # None /\ HandoffTypeOK /\ TypeOK
    BY Zenon DEF HandoffInv, FrozenInv, HandoffTypeOK
  <1>2. q \in Request
    <2>1. \A s \in DOMAIN drainSet : drainSet[s] \in SUBSET Request
      BY <1>1 DEF HandoffTypeOK, Selection
    <2> QED BY Zenon, <1>1, <2>1 DEF DrainUnion
  <1>3. CertifiedSomewhere(q)
    BY Zenon DEF HandoffInv, CertifiedInv
  <1>4. PICK v \in Honest : q \in voted[v]
    BY Zenon, <1>2, <1>3, HonestVoter
  <1> DEFINE n == nonce[r][Slot(q)]
             m == Intent[q].nonce
  <1>5. Slot(q) \in NonceKey /\ m \in Nat /\ n \in Nat /\ nonce[v][Slot(q)] \in Nat
    BY <1>1, <1>2, IntentType DEF TypeOK
  <1>6. m <= nonce[v][Slot(q)]
    BY Zenon, <1>4 DEF HandoffInv, HistoryInv
  <1>7. ASSUME n < m PROVE FALSE
    <2>1. PICK p \in Finalized(v) : Slot(p) = Slot(q) /\ Intent[p].nonce = n
      BY <1>5, <1>6, <1>7 DEF HandoffInv, LedgerInv
    <2>2. p \in DrainUnion
      BY Zenon, <1>1, AppliedInUnion DEF HandoffInv, AppliedIsDrained
    <2>3. p \in Finalized(r)
      BY Zenon, <1>7, <2>1, <2>2 DEF Predecessors
    <2>4. Intent[p].nonce < nonce[r][Slot(p)]
      BY Zenon, <1>1, <2>3 DEF HandoffInv, LedgerInv
    <2> QED BY SMTT(20), <1>5, <2>1, <2>4
  <1>8. ASSUME m < n PROVE FALSE
    <2>1. PICK p \in Finalized(r) : Slot(p) = Slot(q) /\ Intent[p].nonce = m
      BY <1>1, <1>5, <1>8 DEF HandoffInv, LedgerInv
    <2>2. CertifiedSomewhere(p) /\ p \in Request
      BY Zenon, <1>1, <2>1 DEF HandoffInv, CertifiedInv, Finalized
    <2>3. p = q
      BY Zenon, <1>2, <1>3, <2>1, <2>2, HandoffNoCompetition DEF NoCompetition, Compete, SameNonce
    <2> QED BY Zenon, <2>1, <2>3
  <1>9. n = m
    BY <1>5, <1>7, <1>8
  <1> QED BY Zenon, <1>2, <1>9 DEF NextNonce

\* Nothing final here has spent what a drain member pins: a request that had
\* would be an earlier one of the same sender, final where the member was voted
\* for.
LEMMA DrainUnspent ==
    ASSUME FaultBound, HandoffInv, NEW r \in Honest, NEW q \in Request \ Finalized(r),
           NextNonce(r, q), CertifiedSomewhere(q), NEW o \in Inputs(q),
           NEW p \in Finalized(r), Spends(p, o, Intent[q].inputs[o])
    PROVE  FALSE
PROOF
  <1>1. TypeOK
    BY Zenon DEF HandoffInv, FrozenInv, HandoffTypeOK
  <1>2. CertifiedSomewhere(p) /\ p \in Request
    BY Zenon DEF HandoffInv, CertifiedInv, Finalized
  <1>3. PICK v \in Honest : {p, q} \subseteq voted[v]
    BY <1>2, OneEpoch, CommonVoter
  <1>4. o \in Inputs(p) /\ Intent[p].inputs[o] = Intent[q].inputs[o]
    BY Zenon, <1>2, IntentType DEF Spends
  <1>5. PinnedOnce(v, p, o, Intent[q].inputs[o]) /\ PinnedOnce(v, q, o, Intent[q].inputs[o])
    BY Zenon, <1>3, <1>4 DEF HandoffInv, HistoryInv
  <1>6. Slot(p) = Slot(q)
    <2>1. Intent[p].sender = Intent[q].sender
      BY Zenon, <1>5 DEF PinnedOnce
    <2>2. EpochOf(p) = EpochOf(q)
      BY Zenon, <1>2, OneEpoch
    <2> QED BY Zenon, <2>1, <2>2 DEF Slot, EpochOf
  <1>7. Intent[p].nonce < Intent[q].nonce
    BY SMTT(20), <1>6 DEF HandoffInv, LedgerInv, NextNonce
  <1>8. /\ Slot(q) \in NonceKey /\ Intent[q].nonce \in Nat /\ Intent[p].nonce \in Nat
        /\ nonce[v][Slot(q)] \in Nat /\ Intent[q].nonce <= nonce[v][Slot(q)]
    BY SMTT(20), <1>1, <1>2, <1>3, IntentType DEF TypeOK, HandoffInv, HistoryInv
  <1>9. PICK x \in Finalized(v) : Slot(x) = Slot(q) /\ Intent[x].nonce = Intent[p].nonce
    BY <1>7, <1>8 DEF HandoffInv, LedgerInv
  <1>10. x = p
    <2>1. CertifiedSomewhere(x) /\ x \in Request
      BY Zenon DEF HandoffInv, CertifiedInv, Finalized
    <2> QED BY Zenon, <1>2, <1>6, <1>9, <2>1, HandoffNoCompetition DEF NoCompetition, Compete, SameNonce
  <1> QED BY Zenon, <1>5, <1>6, <1>7, <1>9, <1>10 DEF PinnedOnce

\* What stands in the way of a drain member is a partial prepare.
LEMMA DrainDisplaces ==
    ASSUME HandoffInv, NEW r \in Honest, NEW q \in Request, NextNonce(r, q), PinsHold(r, q)
    PROVE  Displaceable(r, q)
PROOF
  <1>1. TypeOK /\ HeldInv(r) /\ Slot(q) \in NonceKey /\ Inputs(q) \subseteq Object
    BY Zenon, IntentType DEF HandoffInv, FrozenInv, HandoffTypeOK
  <1>2. \A p \in voted[r] : p \in Request /\ p # None
    BY Zenon, <1>1, FastPathAssumption DEF TypeOK
  <1>3. ASSUME NEW p \in voted[r], prepared[r][Id(p)] = p, receipt[r][Id(p)] = None
        PROVE  PartialPrepare(r, Id(p))
    <2>1. p \notin Finalized(r)
      BY Zenon, <1>2, <1>3 DEF Finalized
    <2> QED BY Zenon, <1>1, <1>2, <1>3, <2>1 DEF PartialPrepare, HeldInv
  <1>4. ASSUME NEW o \in Inputs(q), lock[r][o] # None
        PROVE  /\ lock[r][o].ref = Intent[q].inputs[o] /\ lock[r][o].epoch = epoch[r]
               /\ PartialPrepare(r, lock[r][o].id)
    <2>1. PICK p \in voted[r] : HeldFor(r, o, p)
      BY Zenon, <1>1, <1>4 DEF HeldInv
    <2>2. lock[r][o].ref = head[r][o]
      BY Zenon, <1>1, <1>4 DEF HeldInv
    <2>3. lock[r][o].id = Id(p) /\ lock[r][o].epoch = epoch[r]
      BY <2>1 DEF HeldFor, OwnLock
    <2> QED BY Zenon, <1>3, <2>1, <2>2, <2>3 DEF HeldFor, PinsHold
  <1>5. ASSUME nonceLock[r][Slot(q)] # None
        PROVE  LET i == nonceLock[r][Slot(q)] IN
               (prepared[r][i] # None => SameNonce(prepared[r][i], q)) /\ PartialPrepare(r, i)
    <2>1. PICK p \in voted[r] : NonceHeldFor(r, Slot(q), p)
      BY Zenon, <1>1, <1>5 DEF HeldInv
    <2>2. nonceLock[r][Slot(q)] = Id(p) /\ prepared[r][Id(p)] = p /\ receipt[r][Id(p)] = None
      BY Zenon, <2>1 DEF NonceHeldFor, Waiting
    <2>3. SameNonce(p, q)
      BY Zenon, <2>1 DEF NonceHeldFor, Waiting, NextNonce, SameNonce
    <2> QED BY Zenon, <1>3, <2>2, <2>3
  <1> QED BY Zenon, <1>4, <1>5 DEF Displaceable

\* The drain set can be applied to the end at every replica, over whatever it had
\* prepared, in any order that respects nonces and pinned references.
THEOREM DrainIsNeverRefused ==
    ASSUME UniqueIds, FaultBound PROVE HandoffSpec => []DrainNeverStuck
PROOF
  <1>1. ASSUME HandoffInv, NEW r \in installed, NEW q \in DrainUnion \ Finalized(r),
               Predecessors(q) \subseteq Finalized(r)
        PROVE  Admit(r, q) /\ Displaceable(r, q) /\ receipt[r][Id(q)] = None
    <2>1. /\ r \in Honest /\ drainSet # None /\ TypeOK /\ LedgerInv(r)
          /\ q \in Request /\ NextNonce(r, q) /\ CertifiedSomewhere(q)
      BY Zenon, <1>1, DrainNonce DEF HandoffInv, FrozenInv, HandoffTypeOK, CertifiedInv
    <2>2. PICK v \in Honest : q \in voted[v]
      BY Zenon, <2>1, HonestVoter
    <2>3. ASSUME NEW o \in Inputs(q)
          PROVE  /\ head[r][o] = Intent[q].inputs[o]
                 /\ OwnerOf(o, head[r][o]) = Intent[q].sender
      <3> DEFINE ref == Intent[q].inputs[o]
      <3>1. o \in Object /\ ref \in Ref
        BY Zenon, <2>1, IntentType
      <3>2. PinnedOnce(v, q, o, ref)
        BY Zenon, <1>1, <2>2 DEF HandoffInv, HistoryInv
      <3>3. ref # Genesis => ref \in Finalized(r) /\ o \in Writes(ref)
        <4>1. ref # Genesis => ref \in DrainUnion
          BY Zenon, <1>1, <2>1, <3>2, AppliedInUnion DEF PinnedOnce, HandoffInv, AppliedIsDrained
        <4> QED BY Zenon, <1>1, <3>2, <4>1 DEF PinnedOnce, Predecessors
      <3>4. \A p \in Finalized(r) : ~Spends(p, o, ref)
        BY Zenon, <1>1, <2>1, DrainUnspent
      <3>5. head[r][o] = ref
        BY Zenon, <2>1, <3>1, <3>3, <3>4 DEF LedgerInv
      <3> QED BY Zenon, <3>2, <3>5 DEF PinnedOnce
    <2>4. PinsHold(r, q) /\ Admit(r, q)
      BY Zenon, <2>1, <2>3, OneEpoch DEF PinsHold, Admit, CurrentEpoch
    <2>5. Displaceable(r, q)
      BY Zenon, <1>1, <2>1, <2>4, DrainDisplaces
    <2>6. receipt[r][Id(q)] = None
      <3>1. Id(q) \in RequestId /\ receipt[r][Id(q)] \in Request \cup {None}
        BY SMTT(20), <2>1, IntentType DEF TypeOK
      <3>2. receipt[r][Id(q)] \in Request => receipt[r][Id(q)] = q
        BY <2>1, <3>1, FastPathAssumption DEF LedgerInv, UniqueIds, Id
      <3> QED BY Zenon, <1>1, <2>1, <3>1, <3>2 DEF Finalized
    <2> QED BY Zenon, <2>4, <2>5, <2>6
  <1>2. HandoffInv => DrainNeverStuck
    BY <1>1, Zenon DEF DrainNeverStuck
  <1> QED BY <1>2, HandoffInvariance, PTL

\* A replica that has applied the drain set stays as it is: nothing more is
\* final there, and its cut does not move.
LEMMA DrainedStays ==
    ASSUME HandoffTypeOK, HandoffNext, NEW r \in Honest, Drained(r)
    PROVE  Drained(r)' /\ Cut(r)' = Cut(r)
PROOF
  <1>1. r \in installed /\ r \in closed /\ drainSet # None /\ Finalized(r) = DrainUnion
    BY Zenon DEF Drained, HandoffTypeOK
  <1>2. ASSUME head'[r] = head[r], nonce'[r] = nonce[r], receipt'[r] = receipt[r],
               installed \subseteq installed', drainSet' = drainSet
        PROVE  Drained(r)' /\ Cut(r)' = Cut(r)
    <2>1. Finalized(r)' = Finalized(r) /\ DrainUnion' = DrainUnion
      BY Zenon, <1>2 DEF Finalized, Id, DrainUnion
    <2> QED BY Zenon, <1>1, <1>2, <2>1 DEF Drained, Cut
  <1>3. ASSUME NEW t \in Honest,
               Freeze(t) \/ IndexNext(t) \/ SignFrontier(t) \/ InstallDrainSet(t) \/ Seal(t)
        PROVE  Drained(r)' /\ Cut(r)' = Cut(r)
    BY Zenon, <1>2, <1>3 DEF Freeze, IndexNext, SignFrontier, InstallDrainSet, Seal, vars, rows
  <1>4. ASSUME NEW t \in Honest, NEW s, NEW F, Gather(t, s, F) \/ Retain(t, F) \/ SignReadiness(s, t)
        PROVE  Drained(r)' /\ Cut(r)' = Cut(r)
    BY Zenon, <1>2, <1>4 DEF Gather, Retain, SignReadiness, vars, rows
  <1>5. ASSUME NEW t \in Honest, NEW Q, CommitDrainSet(t, Q) PROVE FALSE
    BY Zenon, <1>1, <1>5 DEF CommitDrainSet
  <1>6. ASSUME NEW t \in Honest, NEW q \in Request, OpenPrepare(t, q)
        PROVE  Drained(r)' /\ Cut(r)' = Cut(r)
    BY Zenon, <1>2, <1>6 DEF OpenPrepare, Prepare, handoff
  <1>7. ASSUME NEW t \in Honest, NEW q \in Request, ApplyPublished(t, q) \/ DrainApply(t, q)
        PROVE  Drained(r)' /\ Cut(r)' = Cut(r)
    <2>1. Finalize(t, q) /\ UNCHANGED <<installed, drainSet>>
      BY Zenon, <1>7 DEF ApplyPublished, DrainApply, ApplyPrepared, ApplyRecovery, handoff
    <2>2. t # r
      <3>1. q \notin Finalized(t)
        BY Zenon, <2>1, FinalizedGrows DEF HandoffTypeOK
      <3> QED BY Zenon, <1>1, <1>7, <3>1 DEF ApplyPublished, AdmissionOpen, DrainApply
    <2>3. /\ \E X : head' = [head EXCEPT ![t] = X]
          /\ \E X : nonce' = [nonce EXCEPT ![t] = X]
          /\ \E X : receipt' = [receipt EXCEPT ![t] = X]
      BY Zenon, <2>1 DEF Finalize
    <2>4. DOMAIN head = Honest /\ DOMAIN nonce = Honest /\ DOMAIN receipt = Honest
      BY Zenon DEF HandoffTypeOK, TypeOK
    <2>5. head'[r] = head[r] /\ nonce'[r] = nonce[r] /\ receipt'[r] = receipt[r]
      BY Zenon, <2>2, <2>3, <2>4
    <2> QED BY Zenon, <1>2, <2>1, <2>5
  <1> QED BY Zenon, <1>3, <1>4, <1>5, <1>6, <1>7 DEF HandoffNext

\* What an incoming validator is ready for is, and stays, a cut that was reached.
LEMMA ReadyInvariance == HandoffSpec => []ReadyInv
PROOF
  <1>1. HandoffInit => ReadyInv
    BY Zenon DEF HandoffInit, ReadyInv
  <1>2. HandoffTypeOK /\ ReadyInv /\ [HandoffNext]_hvars => ReadyInv'
    <2> SUFFICES ASSUME HandoffTypeOK, ReadyInv, [HandoffNext]_hvars,
                        NEW v \in Honest \cap Incoming, NEW c \in ready'[v]
                 PROVE  \E r \in Honest : Drained(r)' /\ Cut(r)' = c
      BY Zenon DEF ReadyInv
    <2>1. \E r \in Honest : Drained(r) /\ Cut(r) = c
      <3>1. CASE c \in ready[v]
        BY Zenon, <3>1 DEF ReadyInv
      <3>2. ASSUME NEW w \in Honest \cap Incoming, NEW r \in Honest, SignReadiness(w, r)
            PROVE  \E x \in Honest : Drained(x) /\ Cut(x) = c
        <4>1. ready'[v] \subseteq ready[v] \cup {Cut(r)} /\ Drained(r)
          BY Zenon, <3>2 DEF SignReadiness, HandoffTypeOK
        <4> QED BY Zenon, <3>1, <4>1
      <3>3. ASSUME NEW r \in Honest, NEW s, NEW F,
                   \/ Freeze(r) \/ IndexNext(r) \/ SignFrontier(r) \/ InstallDrainSet(r) \/ Seal(r)
                   \/ Gather(r, s, F) \/ CommitDrainSet(r, F) \/ OpenPrepare(r, F) \/ Retain(r, F)
                   \/ ApplyPublished(r, F) \/ DrainApply(r, F)
            PROVE  ready' = ready
        BY Zenon, <3>3 DEF Freeze, IndexNext, SignFrontier, InstallDrainSet, Seal, Gather,
             CommitDrainSet, OpenPrepare, Retain, ApplyPublished, DrainApply, handoff
      <3>4. CASE UNCHANGED hvars
        BY Zenon, <3>1, <3>4 DEF hvars, handoff
      <3> QED BY Zenon, <3>1, <3>2, <3>3, <3>4 DEF HandoffNext
    <2>2. CASE HandoffNext
      BY Zenon, <2>1, <2>2, DrainedStays
    <2>3. CASE UNCHANGED hvars
      <3>1. UNCHANGED <<head, nonce, receipt, installed, drainSet>>
        BY Zenon, <2>3 DEF hvars, vars, rows, handoff
      <3>2. DrainUnion' = DrainUnion /\ \A r \in Honest : Finalized(r)' = Finalized(r)
        BY Zenon, <3>1 DEF DrainUnion, Finalized, Id
      <3> QED BY Zenon, <2>1, <3>1, <3>2 DEF Drained, Cut
    <2> QED BY Zenon, <2>2, <2>3
  <1>3. HandoffSpec => []HandoffTypeOK
    BY FrozenInvariance, PTL DEF FrozenInv
  <1> QED BY <1>1, <1>2, <1>3, PTL DEF HandoffSpec

\* The business cut is a function of the drain set, and the one cut that incoming
\* validators sign readiness for.
THEOREM CutIsUnique == ASSUME UniqueIds PROVE HandoffSpec => []OneCut
PROOF
  <1>1. ASSUME HandoffInv, NEW r \in Honest, NEW t \in Honest, Finalized(r) = Finalized(t)
        PROVE  head[r] = head[t] /\ nonce[r] = nonce[t]
    <2>1. /\ head[r] \in [Object -> Ref] /\ head[t] \in [Object -> Ref]
          /\ nonce[r] \in [NonceKey -> Nat] /\ nonce[t] \in [NonceKey -> Nat]
          /\ LedgerInv(r) /\ LedgerInv(t)
      BY Zenon, <1>1 DEF HandoffInv, FrozenInv, HandoffTypeOK, TypeOK
    <2>2. \A o \in Object : head[r][o] = head[t][o]
      BY SMTT(20), <1>1, <2>1 DEF LedgerInv
    <2>3. ASSUME NEW x \in Honest, NEW y \in Honest, LedgerInv(x), LedgerInv(y),
                 Finalized(x) = Finalized(y), NEW s \in NonceKey,
                 nonce[x][s] \in Nat, nonce[y][s] \in Nat
          PROVE  ~(nonce[x][s] < nonce[y][s])
      <3> SUFFICES ASSUME nonce[x][s] < nonce[y][s] PROVE FALSE
        BY Zenon
      <3>1. PICK p \in Finalized(x) : Slot(p) = s /\ Intent[p].nonce = nonce[x][s]
        BY <2>3 DEF LedgerInv
      <3>2. Intent[p].nonce < nonce[x][s]
        BY Zenon, <2>3, <3>1 DEF LedgerInv
      <3> QED BY <2>3, <3>1, <3>2
    <2>4. \A s \in NonceKey : nonce[r][s] = nonce[t][s]
      <3> SUFFICES ASSUME NEW s \in NonceKey PROVE nonce[r][s] = nonce[t][s]
        BY Zenon
      <3>1. nonce[r][s] \in Nat /\ nonce[t][s] \in Nat
        BY Zenon, <2>1
      <3>2. ~(nonce[r][s] < nonce[t][s]) /\ ~(nonce[t][s] < nonce[r][s])
        BY Zenon, <1>1, <2>1, <2>3, <3>1
      <3> QED BY <3>1, <3>2
    <2> QED BY <2>1, <2>2, <2>4
  <1>2. HandoffInv /\ ReadyInv => OneCut
    <2> SUFFICES ASSUME HandoffInv, ReadyInv, NEW r \in Honest, NEW t \in Honest,
                        Drained(r), Drained(t)
                 PROVE  /\ Cut(r) = Cut(t)
                        /\ \A v \in Honest \cap Incoming : ready[v] \subseteq {Cut(r)}
      BY Zenon DEF OneCut
    <2>1. \A x \in Honest : Drained(x) => Cut(x) = Cut(r)
      BY Zenon, <1>1 DEF Drained, Cut
    <2> QED BY Zenon, <2>1 DEF ReadyInv
  <1> QED BY <1>2, HandoffInvariance, ReadyInvariance, PTL

\* The handoff-capable profile, through the Freeze and the drain, implements the
\* ledger of spent references.
THEOREM HandoffRefinesLedger ==
    ASSUME UniqueIds, FaultBound PROVE HandoffSpec => RefinesLedger
PROOF
  <1>1. HandoffInit => Ledger!Init
    BY Zenon, LedgerInit DEF HandoffInit
  <1>2. HandoffInv /\ HandoffInv' /\ [HandoffNext]_hvars => [Ledger!Next]_(Ledger!vars)
    <2> SUFFICES ASSUME HandoffInv, HandoffInv', [HandoffNext]_hvars
                 PROVE  [Ledger!Next]_(Ledger!vars)
      BY Zenon
    <2>1. TypeOK /\ \A r \in Honest : LedgerInv(r)
      BY Zenon DEF HandoffInv, FrozenInv, HandoffTypeOK
    <2>2. ASSUME UNCHANGED vars PROVE UNCHANGED Ledger!vars
      BY Zenon, <2>2, LedgerStutters DEF vars, rows
    <2>3. ASSUME NEW r \in Honest, NEW q \in Request, OpenPrepare(r, q)
          PROVE  [Ledger!Next]_(Ledger!vars)
      <3>1. HandoffInv' => NoCompetition'
        BY HandoffNoCompetition, PTL
      <3> QED BY Zenon, <2>1, <2>3, <3>1, LedgerDecide DEF OpenPrepare
    <2>4. ASSUME NEW r \in Honest, NEW q \in Request, ApplyPublished(r, q) \/ DrainApply(r, q)
          PROVE  Ledger!Next
      <3>1. Admit(r, q) /\ Finalize(r, q) /\ voted' = voted
        BY Zenon, <2>4 DEF ApplyPublished, DrainApply, ApplyPrepared, ApplyRecovery
      <3>2. CertifiedSomewhere(q)
        <4>1. CASE ApplyPublished(r, q)
          BY Zenon, <2>1, <4>1, OneEpoch DEF ApplyPublished, ApplyPrepared, ApplyRecovery
        <4>2. CASE DrainApply(r, q)
          BY Zenon, <4>2 DEF DrainApply, HandoffInv, CertifiedInv
        <4> QED BY Zenon, <2>4, <4>1, <4>2
      <3> QED BY Zenon, <2>1, <3>1, <3>2, LedgerExecute
    <2>5. CASE UNCHANGED hvars
      BY Zenon, <2>2, <2>5 DEF hvars
    <2>6. ASSUME NEW r \in Honest,
                 Freeze(r) \/ IndexNext(r) \/ SignFrontier(r) \/ InstallDrainSet(r) \/ Seal(r)
          PROVE  UNCHANGED vars
      BY Zenon, <2>6 DEF Freeze, IndexNext, SignFrontier, InstallDrainSet, Seal
    <2>7. ASSUME NEW r \in Honest, NEW s, NEW F,
                 Gather(r, s, F) \/ CommitDrainSet(r, F) \/ Retain(r, F) \/ SignReadiness(s, r)
          PROVE  UNCHANGED vars
      BY Zenon, <2>7 DEF Gather, CommitDrainSet, Retain, SignReadiness
    <2> QED BY Zenon, <2>2, <2>3, <2>4, <2>5, <2>6, <2>7 DEF HandoffNext
  <1>3. HandoffSpec => []HandoffInv
    BY HandoffInvariance, Zenon
  <1> QED BY <1>1, <1>2, <1>3, PTL DEF HandoffSpec, RefinesLedger, Ledger!Spec
===============================================================================
