------------------------------ MODULE MCReplica ------------------------------
(***************************************************************************)
(* One honest replica in an environment that can certify anything: the     *)
(* faulty validators are a quorum.  What holds here holds on a replica     *)
(* whatever the rest of the network signs.                                 *)
(***************************************************************************)
EXTENDS OrderedEconomics, TLC

CONSTANTS r1, f1, f2, f3, f4, f5, f6, t1, t2, q1, q2, s1, w1, w2

MCVotingPower == [v \in Validator |-> 1]

\* The replica leads view 6.
MCOrder == <<f1, f2, f3, f4, f5, r1, f6>>

B(v, tx) == [view |-> v, tx |-> tx]

\* A chain of two windows and a fork of a later view.
Maximal ==
    {<<B(1, t1), B(2, NoTx), B(3, NoTx), B(4, t2)>>,
     <<B(5, t2)>>}

MCFaultySigns == UNION {{SubSeq(b, 1, h) : h \in 1..Len(b)} : b \in Maximal}

\* Two candidates of one sender that spend the same nonce.
MCRequestOf == [t \in Tx |-> IF t = t1 THEN q1 ELSE q2]
MCRowOf == [t \in Tx |-> IF t = t1 THEN w1 ELSE w2]
MCSenderOf == [t \in Tx |-> s1]
MCNonceOf == [t \in Tx |-> 0]
===============================================================================
