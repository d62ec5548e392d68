---------------------------- MODULE FastPathLedger ----------------------------
(***************************************************************************)
(* The fast path implements the ledger: a request is decided once its      *)
(* votes make a certificate, and executed at a replica once its receipt is *)
(* there.  Locks, epochs, heads and nonces are the replica's own means.    *)
(***************************************************************************)
EXTENDS FastPath

Ledger == INSTANCE OwnedLedger
            WITH Replica <- Honest,
                 decided <- {q \in Request : CertifiedSomewhere(q)},
                 done    <- [r \in Honest |-> Finalized(r)]

\* Every behaviour of prepare, apply, recovery, direct execution and epoch
\* activation is one of the ledger: certificates never conflict, and each
\* replica spends a reference at most once, in nonce order.
RefinesLedger == Ledger!Spec
===============================================================================
