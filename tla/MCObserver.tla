------------------------------ MODULE MCObserver ------------------------------
(***************************************************************************)
(* One signerless replica that recovers three windows of a certified chain *)
(* from proposals and certificates in any order, with the candidates'      *)
(* bytes present or missing.  It never leads, votes or ticks.              *)
(***************************************************************************)
EXTENDS OrderedEconomics

CONSTANTS r1, f1, t1, t2, q1, q2, s1, w1, w2

MCVotingPower == [v \in Validator |-> IF v = f1 THEN 3 ELSE 1]

MCOrder == <<f1, r1>>

\* The first window places t1, the second t2 and the third t1 again.  The block
\* at height h has view 2h - 1, led by f1.
Windows == <<t1, NoTx, NoTx, t2, NoTx, NoTx, t1, NoTx, NoTx>>

MCFaultySigns ==
    {[i \in 1..h |-> [view |-> 2 * i - 1, tx |-> Windows[i]]] : h \in 1..9}

\* t2 supersedes another row but spends the nonce that t1 spends.
MCRequestOf == [t \in Tx |-> IF t = t1 THEN q1 ELSE q2]
MCRowOf == [t \in Tx |-> IF t = t1 THEN w1 ELSE w2]
MCSenderOf == [t \in Tx |-> s1]
MCNonceOf == [t \in Tx |-> 0]

Observing ==
    \E r \in Honest :
        \/ \E b \in FaultyProposal : \E delivered \in BOOLEAN : ObserveProposal(r, b, delivered)
        \/ \E qc \in FaultyBlock : ProcessCertificate(r, qc)

ObserverSpec == Init /\ [][Observing]_vars
===============================================================================
