------------------------------ MODULE OwnedLedger ------------------------------
(***************************************************************************)
(* What certified execution of owned objects promises: a ledger of spent   *)
(* references.  The validators decide requests, at most one per nonce and  *)
(* at most one per epoch to rewrite a reference; every replica executes    *)
(* decided requests, each sender's in nonce order, over inputs it has not  *)
(* spent.  The direct paid path executes requests nobody decided.          *)
(***************************************************************************)
EXTENDS Naturals

CONSTANTS
    Replica,
    Request,
    Intent,      \* [Request -> intent]: sender, epoch, nonce, inputs and writes
    Genesis,
    DirectPath

VARIABLES
    decided,     \* the requests with a certificate
    done         \* the requests each replica has executed

vars == <<decided, done>>

SameSlot(p, q) ==
    Intent[p].sender = Intent[q].sender /\ Intent[p].epoch = Intent[q].epoch

Rewrites(q, o, ref) ==
    o \in DOMAIN Intent[q].writes /\ Intent[q].inputs[o] = ref

\* Two requests that no epoch may decide together.
Conflict(p, q) ==
    \/ SameSlot(p, q) /\ Intent[p].nonce = Intent[q].nonce
    \/ /\ Intent[p].epoch = Intent[q].epoch
       /\ \E o \in DOMAIN Intent[p].writes : Rewrites(q, o, Intent[p].inputs[o])

\* The reference exists after the requests D and none of them has rewritten it.
Unspent(D, o, ref) ==
    /\ ref # Genesis => ref \in D /\ o \in DOMAIN Intent[ref].writes
    /\ \A p \in D : ~Rewrites(p, o, ref)

Init ==
    /\ decided = {}
    /\ done = [r \in Replica |-> {}]

Decide(q) ==
    /\ \A p \in decided : ~Conflict(p, q)
    /\ decided' = decided \cup {q}
    /\ UNCHANGED done

Execute(r, q) ==
    /\ q \in decided \/ DirectPath
    /\ \A p \in done[r] : SameSlot(p, q) => Intent[p].nonce < Intent[q].nonce
    /\ \A n \in 0..(Intent[q].nonce - 1) :
          \E p \in done[r] : SameSlot(p, q) /\ Intent[p].nonce = n
    /\ \A o \in DOMAIN Intent[q].inputs : Unspent(done[r], o, Intent[q].inputs[o])
    /\ done' = [done EXCEPT ![r] = @ \cup {q}]
    /\ UNCHANGED decided

Next ==
    \/ \E q \in Request : Decide(q)
    \/ \E r \in Replica, q \in Request : Execute(r, q)

Spec == Init /\ [][Next]_vars
===============================================================================
