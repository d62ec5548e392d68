------------------------------ MODULE SafeVoting ------------------------------
(***************************************************************************)
(* What a replica promises when it votes, whatever it stores, prunes or    *)
(* executes: it votes in ascending views, only for blocks whose parent is  *)
(* certified, and never for a block whose certificate is older than the    *)
(* grandparent of a block it has voted for (the lock that vote left).      *)
(* OrderedEconomics adds the rest of the replica to this module and        *)
(* implements SafeVotingSpec.  Faulty validators may have voted for every  *)
(* block.                                                                  *)
(***************************************************************************)
EXTENDS ChainedHotStuff

CONSTANT Faulty      \* validators that need not keep the promise

ASSUME SafeVotingAssumption == Faulty \subseteq Validator

Honest == Validator \ Faulty

Proposal == Block \ {Genesis}

VARIABLE voteRecord  \* [Honest -> SUBSET Block]: signed votes, keyed by view

\* What the protocol tolerates: less than a third of the voting power.
FaultBound == PowerOf(Faulty) <= (TotalVotingPower - 1) \div 3

\* A certificate for b may exist: the votes on record and those of the faulty
\* validators are a quorum.
Certifiable(b) ==
    b = Genesis \/ {v \in Honest : b \in voteRecord[v]} \cup Faulty \in Quorum

\* The vote for x locks the grandparent of x.
Lock(x) == Justify(Justify(x))

SafeVotingInit == voteRecord = [r \in Honest |-> {}]

\* Mutant: the lock is forgotten.
CastUnlocked(r, b) ==
    /\ b \in Proposal
    /\ Certifiable(Justify(b))
    /\ \A x \in voteRecord[r] : View(x) < View(b)
    /\ voteRecord' = [voteRecord EXCEPT ![r] = @ \cup {b}]

Cast(r, b) ==
    /\ b \in Proposal
    /\ Certifiable(Justify(b))
    /\ \A x \in voteRecord[r] :
          /\ View(x) < View(b)
          /\ View(Lock(x)) <= View(Justify(b))
    /\ voteRecord' = [voteRecord EXCEPT ![r] = @ \cup {b}]

\* Which block is cast is seen from the votes after the step.
SafeVotingNext == \E r \in Honest : \E b \in voteRecord'[r] : Cast(r, b)

\* The promise as a property of a replica's votes: process_proposal signs only
\* votes that Cast allows, across restarts, replays, pruning and recovery.
SafeVotingSpec == SafeVotingInit /\ [][SafeVotingNext]_voteRecord

-------------------------------------------------------------------------------
\* The blocks that may be certified and that an honest validator voted for:
\* within the fault bound, all that may be certified.
CertifiableVotes == {b \in UNION {voteRecord[r] : r \in Honest} : Certifiable(b)}

\* No view has two certificates: verify_certificate never accepts one for each
\* of two blocks of a view.
OneCertificatePerView ==
    \A b, c \in CertifiableVotes : View(b) = View(c) => b = c

Descends(d, b) == Height(b) <= Height(d) /\ Ancestor(d, Height(b)) = b

\* The three-chain that ends in g has consecutive views.
Consecutive(g) ==
    /\ Height(g) >= 3
    /\ View(Justify(g)) = View(g) - 1
    /\ View(Lock(g)) = View(g) - 2

\* A block that apply_certificate commits by a three-chain of consecutive views
\* is final: every block certified in its view or a later one descends from it,
\* so no replica can commit a conflicting block by a chain that starts later.
ConsecutiveCommitIsFinal ==
    \A g, d \in CertifiableVotes :
        Consecutive(g) /\ View(d) >= View(Lock(g)) => Descends(d, Lock(g))
===============================================================================
