----------------------------- MODULE ValidatorSet -----------------------------
(***************************************************************************)
(* The immutable membership snapshot of one epoch (crates/validator-set):  *)
(* validators in canonical identifier order, each with a positive voting   *)
(* power, the strict two-thirds quorum threshold and the rotating leader.  *)
(*                                                                         *)
(* A validator of power p is represented by p power units, so that the     *)
(* power of a set of validators is the cardinality of the set of its       *)
(* units.  Keys, signature schemes and encodings are left out.             *)
(***************************************************************************)
EXTENDS Naturals, Sequences, FiniteSets

CONSTANTS
    Validator,      \* the members of the set
    VotingPower,    \* [Validator -> positive power]
    Order           \* the members in ascending identifier order

ASSUME ValidatorSetAssumption ==
    /\ IsFiniteSet(Validator)
    /\ Validator # {}
    /\ VotingPower \in [Validator -> Nat \ {0}]
    /\ Order \in Seq(Validator)
    /\ Len(Order) > 0
    /\ \A v \in Validator : \E i \in DOMAIN Order : Order[i] = v
    /\ \A i, j \in DOMAIN Order : Order[i] = Order[j] => i = j

(***************************************************************************)
(* The power of a set of validators.                                       *)
(***************************************************************************)
Units(S) == UNION {{v} \X (1..VotingPower[v]) : v \in S}

PowerOf(S) == Cardinality(Units(S))

TotalVotingPower == PowerOf(Validator)

\* Mutant: half of the power is enough.
HalfThreshold == TotalVotingPower \div 2

QuorumThreshold == TotalVotingPower - ((TotalVotingPower - 1) \div 3)

\* The sets of validators whose signatures make a certificate.
Quorum == {S \in SUBSET Validator : PowerOf(S) >= QuorumThreshold}

\* The same under another validator set C, of another epoch.
QuorumOf(C) ==
    {S \in SUBSET C : PowerOf(S) >= PowerOf(C) - ((PowerOf(C) - 1) \div 3)}

(***************************************************************************)
(* The leader of a non-zero view: members take turns in canonical order.   *)
(***************************************************************************)
Leader(view) == Order[((view - 1) % Len(Order)) + 1]
===============================================================================
