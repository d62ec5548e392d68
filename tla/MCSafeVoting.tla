---------------------------- MODULE MCSafeVoting ----------------------------
(***************************************************************************)
(* Every block over the views 1 to MaxView, without candidates: a block is *)
(* given by the set of views on its path.  Powers 2, 1 and 1; c is faulty. *)
(***************************************************************************)
EXTENDS SafeVoting, SequencesExt

CONSTANTS a, b, c

MCVotingPower == [v \in Validator |-> IF v = a THEN 2 ELSE 1]
MCOrder == <<a, b, c>>

Path(views) ==
    LET ascending == SetToSortSeq(views, <)
    IN  [i \in 1..Len(ascending) |-> [view |-> ascending[i], tx |-> NoTx]]

MCProposable == {Path(views) : views \in SUBSET (1..MaxView) \ {{}}}

Voting == \E r \in Honest, block \in MCProposable : Cast(r, block)

VotingSpec == SafeVotingInit /\ [][Voting]_voteRecord
===============================================================================
