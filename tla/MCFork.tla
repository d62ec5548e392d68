-------------------------------- MODULE MCFork --------------------------------
(***************************************************************************)
(* Two honest validators without candidates: the powers are 3 and 1, so n1 *)
(* alone is a quorum, and they lead odd and even views.  The exploration   *)
(* is confined to two competing chains of three blocks each.               *)
(***************************************************************************)
EXTENDS OrderedEconomics, TLC

CONSTANTS n1, n2

MCVotingPower == (n1 :> 3) @@ (n2 :> 1)
MCOrder == <<n1, n2>>

Empty == [t \in {} |-> 0]

Chain(views) == [i \in 1..Len(views) |-> [view |-> views[i], tx |-> NoTx]]

First == {Chain(<<1>>), Chain(<<1, 3>>), Chain(<<1, 3, 6>>)}

Second == {Chain(<<4>>), Chain(<<4, 5>>), Chain(<<4, 5, 7>>)}

\* n1 records blocks only by voting for them; n2, whose votes are not needed,
\* leads and records the blocks of the second chain.
Scenario ==
    /\ proposals \subseteq First \cup Second
    /\ state[n1].known \subseteq voteRecord[n1]
    /\ voteRecord[n2] = {}
    /\ state[n2].known \subseteq Second
===============================================================================
