------------------------------- MODULE MCLeader -------------------------------
(***************************************************************************)
(* One honest replica that leads view 2, with two propose calls in flight  *)
(* and replies that may be lost, in an environment that can certify its    *)
(* proposals or a competing chain.                                         *)
(***************************************************************************)
EXTENDS OrderedEconomics

CONSTANTS r1, f1, f2, f3, t1, t2, q1, s1, w1

MCVotingPower == [v \in Validator |-> 1]

MCOrder == <<f1, r1, f2, f3>>

B(v, tx) == [view |-> v, tx |-> tx]

MCFaultySigns ==
    {<<B(1, t1)>>, <<B(1, t1), B(2, NoTx)>>, <<B(1, t1), B(2, NoTx), B(3, NoTx)>>,
     <<B(2, t2)>>, <<B(3, t2)>>}

\* Two candidates that claim one request, for one sender and one row.
MCRequestOf == [t \in Tx |-> q1]
MCRowOf == [t \in Tx |-> w1]
MCSenderOf == [t \in Tx |-> s1]
MCNonceOf == [t \in Tx |-> 0]
===============================================================================
