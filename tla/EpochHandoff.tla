----------------------------- MODULE EpochHandoff -----------------------------
(***************************************************************************)
(* Leaving an epoch under the handoff-capable profile, in which a request  *)
(* is applied only once a quorum retains its certificate and artifacts     *)
(* (fast_path/publication.rs) and the direct path is refused.  A committed *)
(* Freeze closes admission at each replica (freeze.rs); each then indexes  *)
(* and signs what it retains, its frontier (frontier.rs).  A committed     *)
(* DrainSet names a quorum of frontiers that the voters have gathered      *)
(* (drain_union.rs, drain_set.rs), and every replica applies the union of  *)
(* them over whatever partial prepares it holds (drain_apply.rs).  The     *)
(* incoming validators import the state reached and sign that they are     *)
(* ready (conditional_readiness.rs); with a quorum of theirs, a Seal       *)
(* records the state all replicas have reached (seal.rs).                  *)
(*                                                                         *)
(* The ordered log (module OrderedEconomics) delivers Freeze, one DrainSet *)
(* and one Seal to every replica in this order, each replica at its own    *)
(* time.  A frontier is fetched whole; its pages are data.                 *)
(***************************************************************************)
EXTENDS FastPathLedger

CONSTANTS
    OneFrontier,    \* whether faulty validators sign at most one frontier
    Incoming        \* the next set of validators, which the Seal names

ASSUME HandoffAssumption ==
    /\ MaxEpoch = 0 /\ ~DirectPath
    /\ RequestId \subseteq Nat
    /\ OneFrontier \in BOOLEAN
    /\ Incoming \subseteq Validator

VARIABLES
    retained,   \* publication records, each with its availability ACK
    closed,     \* replicas that have installed the admission closure
    indexed,    \* frontier index rows
    signed,     \* replicas that have signed their frontier
    progress,   \* the frontiers gathered of faulty signers; those of honest
                \* ones never change, so when they are gathered is left out
    drainSet,   \* the committed selection: signers and their frontiers
    installed,  \* replicas that have installed the drain set record
    sealed,     \* replicas that have accepted the Seal, with their cut
    ready       \* the cuts an incoming validator has signed readiness for

handoff == <<retained, closed, indexed, signed, progress, drainSet, installed, sealed, ready>>
hvars == <<vars, handoff>>

Committee == UNION Committees[0]

Selection == UNION {[S -> SUBSET Request] : S \in QuorumOf(Committee)}

Cut(r) == <<head[r], nonce[r]>>

BusinessCut == [Object -> Ref] \X [NonceKey -> Nat]

\* Every row of the handoff has the type its codec gives it, and the rows of
\* the fast path keep theirs.
HandoffTypeOK ==
    /\ TypeOK
    /\ retained \in [Honest -> SUBSET Request]
    /\ closed \subseteq Honest
    /\ indexed \in [Honest -> SUBSET Request]
    /\ signed \subseteq closed
    /\ progress \in [Honest -> [Faulty -> (SUBSET Request) \cup {None}]]
    /\ drainSet = None \/ drainSet \in Selection
    /\ installed \subseteq closed
    /\ installed # {} => drainSet # None
    /\ sealed \subseteq installed
    /\ ready \in [Honest \cap Incoming -> SUBSET BusinessCut]

HandoffInit ==
    /\ Init
    /\ retained = [r \in Honest |-> {}]
    /\ closed = {}
    /\ indexed = [r \in Honest |-> {}]
    /\ signed = {}
    /\ progress = [r \in Honest |-> [s \in Faulty |-> None]]
    /\ drainSet = None
    /\ installed = {}
    /\ sealed = {}
    /\ ready = [v \in Honest \cap Incoming |-> {}]

-------------------------------------------------------------------------------
(***************************************************************************)
(* Before the Freeze.  The fence every ordinary handler goes through       *)
(* refuses once the closure is installed, and asserts the row.             *)
(***************************************************************************)
AdmissionOpen(r) == r \notin closed

\* An availability certificate: ACKs of a quorum.
Available(q) ==
    {r \in Honest \cap Committee : q \in retained[r]} \cup (Faulty \cap Committee)
        \in QuorumOf(Committee)

OpenPrepare(r, q) ==
    /\ AdmissionOpen(r)
    /\ Prepare(r, q)
    /\ UNCHANGED handoff

\* Mutant: an ACK is given after the Freeze.
RetainLate(r, q) ==
    /\ r \in Committee /\ CurrentEpoch(r, q)
    /\ Certified(q, members[r])
    /\ \A p \in retained[r] : Id(p) # Id(q)
    /\ retained' = [retained EXCEPT ![r] = @ \cup {q}]
    /\ UNCHANGED <<vars, closed, indexed, signed, progress, drainSet, installed, sealed, ready>>

\* Retain a publication and sign the ACK for it.
Retain(r, q) ==
    /\ AdmissionOpen(r)
    /\ r \in Committee /\ CurrentEpoch(r, q)
    /\ Certified(q, members[r])
    /\ \A p \in retained[r] : Id(p) # Id(q)
    /\ retained' = [retained EXCEPT ![r] = @ \cup {q}]
    /\ UNCHANGED <<vars, closed, indexed, signed, progress, drainSet, installed, sealed, ready>>

\* Mutant: a certificate alone is enough to apply.
ApplyUnpublished(r, q) ==
    /\ AdmissionOpen(r)
    /\ ApplyPrepared(r, q) \/ ApplyRecovery(r, q)
    /\ UNCHANGED handoff

ApplyPublished(r, q) ==
    /\ AdmissionOpen(r)
    /\ Available(q)
    /\ ApplyPrepared(r, q) \/ ApplyRecovery(r, q)
    /\ UNCHANGED handoff

-------------------------------------------------------------------------------
(***************************************************************************)
(* Freeze and frontier.                                                    *)
(***************************************************************************)
Freeze(r) ==
    /\ AdmissionOpen(r)
    /\ closed' = closed \cup {r}
    /\ UNCHANGED <<vars, retained, indexed, signed, progress, drainSet, installed, sealed, ready>>

\* The retained publications after the cursor, in the order of request ids.
Unindexed(r) == {q \in retained[r] : \A p \in indexed[r] : Id(p) < Id(q)}

\* One call of advance_frozen_frontier indexes the next publication...
IndexNext(r) ==
    /\ r \in closed \ signed
    /\ \E q \in Unindexed(r) :
          /\ \A p \in Unindexed(r) : Id(q) <= Id(p)
          /\ indexed' = [indexed EXCEPT ![r] = @ \cup {q}]
    /\ UNCHANGED <<vars, retained, closed, signed, progress, drainSet, installed, sealed, ready>>

\* Mutant: the frontier is signed before the last page is indexed.
SignEarly(r) ==
    /\ r \in closed \ signed
    /\ signed' = signed \cup {r}
    /\ UNCHANGED <<vars, retained, closed, indexed, progress, drainSet, installed, sealed, ready>>

\* ... and signs the frontier when none is left.
SignFrontier(r) ==
    /\ r \in closed \ signed
    /\ Unindexed(r) = {}
    /\ signed' = signed \cup {r}
    /\ UNCHANGED <<vars, retained, closed, indexed, progress, drainSet, installed, sealed, ready>>

-------------------------------------------------------------------------------
(***************************************************************************)
(* The drain set.                                                          *)
(***************************************************************************)
\* Mutant: the entries of a gathered frontier are not verified.
GatherUnverified(r, s, F) ==
    /\ r \in closed
    /\ progress[r][s] = None
    /\ OneFrontier => \A t \in Honest : progress[t][s] \in {None, F}
    /\ progress' = [progress EXCEPT ![r][s] = F]
    /\ UNCHANGED <<vars, retained, closed, indexed, signed, drainSet, installed, sealed, ready>>

\* Gather a faulty signer's frontier, with a verified proof of every entry.
\* The first frontier of a signer is the only one a replica takes.
Gather(r, s, F) ==
    /\ r \in closed
    /\ progress[r][s] = None
    /\ \A q \in F : Certified(q, members[r])
    /\ OneFrontier => \A t \in Honest : progress[t][s] \in {None, F}
    /\ progress' = [progress EXCEPT ![r][s] = F]
    /\ UNCHANGED <<vars, retained, closed, indexed, signed, drainSet, installed, sealed, ready>>

\* The frontier r has, or can gather, of a signer.
Frontier(r, s) ==
    IF s \in Faulty THEN progress[r][s]
    ELSE IF s \in signed THEN indexed[s] ELSE None

\* The union marker for a selection stands, or can be made to stand, at r.
DrainReady(r, sel) == r \in closed /\ \A s \in DOMAIN sel : Frontier(r, s) = sel[s]

\* Mutant: one frontier less than a quorum is selected.
CommitPartialSet(r, Q) ==
    /\ drainSet = None
    /\ \E s \in Q :
          LET sel == [v \in Q \ {s} |-> Frontier(r, v)] IN
          /\ \A v \in Q : Frontier(r, v) # None
          /\ {t \in Honest \cap Committee : DrainReady(t, sel)}
                \cup (Faulty \cap Committee) \in QuorumOf(Committee)
          /\ drainSet' = sel
    /\ UNCHANGED <<vars, retained, closed, indexed, signed, progress, installed, sealed, ready>>

\* A DrainSet commits with the votes of validators that are ready for it.
CommitDrainSet(r, Q) ==
    LET sel == [s \in Q |-> Frontier(r, s)] IN
    /\ drainSet = None
    /\ \A s \in Q : sel[s] # None
    /\ {t \in Honest \cap Committee : DrainReady(t, sel)}
          \cup (Faulty \cap Committee) \in QuorumOf(Committee)
    /\ drainSet' = sel
    /\ UNCHANGED <<vars, retained, closed, indexed, signed, progress, installed, sealed, ready>>

\* Executing it at a replica that is not ready for it stops.
InstallDrainSet(r) ==
    /\ drainSet # None /\ r \notin installed
    /\ DrainReady(r, drainSet)
    /\ installed' = installed \cup {r}
    /\ UNCHANGED <<vars, retained, closed, indexed, signed, progress, drainSet, sealed, ready>>

DrainUnion == IF drainSet = None THEN {} ELSE UNION {drainSet[s] : s \in DOMAIN drainSet}

-------------------------------------------------------------------------------
(***************************************************************************)
(* Draining.  A lock on what the member needs may be its own or that of a  *)
(* partial prepare, which is displaced.                                    *)
(***************************************************************************)
\* The lock's owner was prepared here over the same input or nonce, and has
\* no outcome.
PartialPrepare(r, i) ==
    LET p == prepared[r][i] IN
    p # None /\ p \in voted[r] /\ p \notin certificate[r] /\ receipt[r][i] = None

Displaceable(r, q) ==
    /\ \A o \in Inputs(q) : lock[r][o] # None =>
          /\ lock[r][o].ref = Intent[q].inputs[o] /\ lock[r][o].epoch = epoch[r]
          /\ lock[r][o].id # Id(q) => PartialPrepare(r, lock[r][o].id)
    /\ nonceLock[r][Slot(q)] # None =>
          LET i == nonceLock[r][Slot(q)] IN
          /\ prepared[r][i] # None => SameNonce(prepared[r][i], q)
          /\ i # Id(q) => PartialPrepare(r, i)

\* Mutant: drain members do not displace partial prepares.
DrainApplyOwn(r, q) ==
    /\ r \in installed /\ q \in DrainUnion
    /\ Admit(r, q)
    /\ NonceUnlocked(r, q) \/ nonceLock[r][Slot(q)] = Id(q)
    /\ \A o \in Inputs(q) : lock[r][o] # None => lock[r][o] = OwnLock(r, q, o)
    /\ Finalize(r, q)
    /\ ClearLocks(r, q)
    /\ nonceLock' = [nonceLock EXCEPT ![r][Slot(q)] = None]
    /\ certificate' = [certificate EXCEPT ![r] = @ \cup {q}]
    /\ UNCHANGED <<epoch, members, prepared, voted, proposed, handoff>>

DrainApply(r, q) ==
    /\ r \in installed /\ q \in DrainUnion
    /\ Admit(r, q)
    /\ Displaceable(r, q)
    /\ Finalize(r, q)
    /\ ClearLocks(r, q)
    /\ nonceLock' = [nonceLock EXCEPT ![r][Slot(q)] = None]
    /\ certificate' = [certificate EXCEPT ![r] = @ \cup {q}]
    /\ UNCHANGED <<epoch, members, prepared, voted, proposed, handoff>>

\* Mutant: the cut is taken before the drain is over.
DrainedEarly(r) == r \in installed

\* The business cut is derived by replaying the drain union, and must be what
\* the store holds.
Drained(r) == r \in installed /\ Finalized(r) = DrainUnion

\* An incoming validator signs readiness for the cut of r: it has imported it
\* whole, and replayed the committed history to the same cut.
SignReadiness(v, r) ==
    /\ Drained(r)
    /\ Cut(r) \notin ready[v]
    /\ ready' = [ready EXCEPT ![v] = @ \cup {Cut(r)}]
    /\ UNCHANGED <<vars, retained, closed, indexed, signed, progress, drainSet, installed, sealed>>

\* A readiness certificate: votes of a quorum of the incoming validators.
ReadinessCertified(cut) ==
    {v \in Honest \cap Incoming : cut \in ready[v]} \cup (Faulty \cap Incoming)
        \in QuorumOf(Incoming)

\* A Seal is accepted where the local cut is the one it carries, and a
\* readiness certificate for this cut is stored.
Seal(r) ==
    /\ Drained(r) /\ r \notin sealed
    /\ \A t \in sealed : Cut(t) = Cut(r)
    /\ {t \in Honest \cap Committee : Drained(t) /\ Cut(t) = Cut(r)}
          \cup (Faulty \cap Committee) \in QuorumOf(Committee)
    /\ ReadinessCertified(Cut(r))
    /\ sealed' = sealed \cup {r}
    /\ UNCHANGED <<vars, retained, closed, indexed, signed, progress, drainSet, installed, ready>>

HandoffNext ==
    \/ \E r \in Honest :
          \/ Freeze(r) \/ IndexNext(r) \/ SignFrontier(r) \/ InstallDrainSet(r) \/ Seal(r)
          \/ \E s \in Faulty, F \in SUBSET Request : Gather(r, s, F)
          \/ \E Q \in QuorumOf(Committee) : CommitDrainSet(r, Q)
          \/ \E v \in Honest \cap Incoming : SignReadiness(v, r)
    \/ \E r \in Honest, q \in Request :
          \/ OpenPrepare(r, q) \/ Retain(r, q) \/ ApplyPublished(r, q) \/ DrainApply(r, q)

HandoffSpec == HandoffInit /\ [][HandoffNext]_hvars

(***************************************************************************)
(* Fairness, once the Freeze has committed: the operator of every honest   *)
(* validator keeps delivering the bounded continuation calls, and the      *)
(* ordered log goes on.  The frontiers the committed drain set selects can *)
(* be had from the honest validators that voted for it.  Nothing else is   *)
(* assumed of faulty validators, and nothing of clients.                   *)
(***************************************************************************)
HandoffFairness ==
    /\ \A r \in Honest :
          /\ WF_hvars(closed # {} /\ Freeze(r))
          /\ WF_hvars(IndexNext(r)) /\ WF_hvars(SignFrontier(r))
          /\ WF_hvars(\E s \in Faulty : drainSet # None /\ s \in DOMAIN drainSet
                                           /\ Gather(r, s, drainSet[s]))
          /\ WF_hvars(InstallDrainSet(r))
          /\ WF_hvars(\E q \in Request : DrainApply(r, q))
          /\ WF_hvars(Seal(r))
    /\ WF_hvars(\E r \in Honest, Q \in QuorumOf(Committee) : CommitDrainSet(r, Q))
    /\ \A v \in Honest \cap Incoming : WF_hvars(\E r \in Honest : SignReadiness(v, r))

FairHandoffSpec == HandoffSpec /\ HandoffFairness

-------------------------------------------------------------------------------
(***************************************************************************)
(* Properties.                                                             *)
(***************************************************************************)
\* Whatever any replica has finalized, and whatever a quorum's ACKs still let
\* a replica that has not seen the Freeze finalize, is in the drain set:
\* leaving the epoch loses no applied request.
AppliedIsDrained ==
    drainSet # None =>
        /\ \A r \in Honest : Finalized(r) \subseteq DrainUnion
        /\ \A q \in Request : Available(q) => q \in DrainUnion

\* What must be final at a replica before q: the requests it pins and its
\* sender's earlier ones.
Predecessors(q) ==
    {p \in DrainUnion :
        \/ \E o \in Inputs(q) : Intent[q].inputs[o] = p
        \/ Slot(p) = Slot(q) /\ Intent[p].nonce < Intent[q].nonce}

\* A member of the drain set is never refused once its predecessors are final:
\* no partial prepare, no lock and no other member stands in its way.
DrainNeverStuck ==
    \A r \in installed : \A q \in DrainUnion \ Finalized(r) :
        Predecessors(q) \subseteq Finalized(r) =>
            Admit(r, q) /\ Displaceable(r, q) /\ receipt[r][Id(q)] = None

\* The vote of a request whose locks the drain took is part of no certificate:
\* what is displaced was final nowhere and never will be.
DisplacedNeverCertified ==
    \A r \in Honest : \A p \in voted[r] :
        p \in Finalized(r) \/ HoldsLocks(r, p) \/ ~CertifiedSomewhere(p)

\* Replicas that have applied the drain set hold the same objects and nonces,
\* so they derive the same business cut, and no incoming validator is ready
\* for another one.
OneCut ==
    \A r, t \in Honest : Drained(r) /\ Drained(t) =>
        /\ Cut(r) = Cut(t)
        /\ \A v \in Honest \cap Incoming : ready[v] \subseteq {Cut(r)}

\* Once the Freeze has reached one replica, every honest replica applies the
\* whole drain set and accepts the Seal, whatever was prepared, certified or
\* half applied when it came.
HandoffCompletes == closed # {} ~> sealed = Honest

-------------------------------------------------------------------------------
(***************************************************************************)
(* The inductive invariants.  FrozenInv follows what is retained into the  *)
(* drain set; HandoffInv, for deployments with unique request ids, follows *)
(* what a vote and a lock stand for.                                       *)
(***************************************************************************)
\* The index is a prefix of what is retained, and all of it once signed.
FrontierInv(r) ==
    /\ indexed[r] \subseteq retained[r]
    /\ r \notin closed => indexed[r] = {}
    /\ \A p, q \in retained[r] : Id(p) = Id(q) => p = q
    /\ \A p \in indexed[r], q \in retained[r] \ indexed[r] : Id(p) < Id(q)
    /\ r \in signed => indexed[r] = retained[r]

SelectionInv ==
    drainSet # None =>
        \A s \in Honest \cap DOMAIN drainSet : s \in signed /\ drainSet[s] = indexed[s]

\* What is final was available, or is drained.
PublishedInv ==
    \A r \in Honest : \A q \in Finalized(r) : Available(q) \/ q \in DrainUnion

FrozenInv ==
    HandoffTypeOK /\ (\A r \in Honest : FrontierInv(r)) /\ SelectionInv /\ PublishedInv

\* Only certified requests are retained, final, gathered or selected.
CertifiedInv ==
    /\ \A r \in Honest : \A q \in retained[r] \cup Finalized(r) : CertifiedSomewhere(q)
    /\ \A r \in Honest, s \in Faulty :
          progress[r][s] # None => \A q \in progress[r][s] : CertifiedSomewhere(q)
    /\ \A q \in DrainUnion : CertifiedSomewhere(q)

\* The lock or nonce lock of a request that was voted for and has no outcome.
HeldFor(r, o, p) ==
    /\ prepared[r][Id(p)] = p /\ receipt[r][Id(p)] = None
    /\ o \in Inputs(p) /\ lock[r][o] = OwnLock(r, p, o)

NonceHeldFor(r, s, p) == Slot(p) = s /\ nonceLock[r][s] = Id(p) /\ Waiting(r, p)

Displaced(r, q) == \E p \in Finalized(r) : p # q /\ SameNonce(p, q)

\* A vote waits until it is final or the drain has taken its nonce; a lock, even
\* of a displaced vote, is on the current version of the object.
HeldInv(r) ==
    /\ \A p, q \in voted[r] : Compete(p, q) => p = q
    /\ \A q \in voted[r] :
          q \in Finalized(r) \/ Waiting(r, q) \/ (r \in installed /\ Displaced(r, q))
    /\ \A s \in NonceKey : nonceLock[r][s] # None => \E p \in voted[r] : NonceHeldFor(r, s, p)
    /\ \A o \in Object : lock[r][o] # None =>
          lock[r][o].ref = head[r][o] /\ \E p \in voted[r] : HeldFor(r, o, p)
    /\ certificate[r] \subseteq Finalized(r)

\* What a vote tells of the state it was cast in, kept for ever: the nonce had
\* come, and the pinned references were there, the sender's, and unspent.
PinnedOnce(r, q, o, ref) ==
    /\ ref # Genesis => ref \in Finalized(r) /\ o \in Writes(ref)
    /\ OwnerOf(o, ref) = Intent[q].sender
    /\ \A p \in Finalized(r) :
          Slot(p) = Slot(q) /\ Intent[p].nonce < Intent[q].nonce => ~Spends(p, o, ref)

HistoryInv(r) ==
    \A q \in voted[r] :
        /\ Intent[q].nonce <= nonce[r][Slot(q)]
        /\ \A o \in Inputs(q) : PinnedOnce(r, q, o, Intent[q].inputs[o])

\* Readiness is signed for the cut of a replica that has applied the drain set.
ReadyInv ==
    \A v \in Honest \cap Incoming : \A c \in ready[v] :
        \E r \in Honest : Drained(r) /\ Cut(r) = c

HandoffInv ==
    /\ FrozenInv
    /\ CertifiedInv
    /\ \A r \in Honest : LedgerInv(r) /\ HeldInv(r) /\ HistoryInv(r)
===============================================================================
