------------------------------ MODULE MCFastPath ------------------------------
(***************************************************************************)
(* x and y compete for alice's nonce 0.  x hands a to bob, whose first     *)
(* request is u; y and alice's next request z both rewrite b at genesis.   *)
(* w is a request of the next epoch that pins a at genesis, as x does.     *)
(***************************************************************************)
EXTENDS FastPathLedger, TLC

CONSTANTS v1, v2, v3, v4, v5, alice, bob, a, b, x, y, z, u, w

MCPower == [v \in Validator |-> 1]
MCOrder == SelectSeq(<<v1, v2, v3, v4, v5>>, LAMBDA v : v \in Validator)
MCOwner == [o \in Object |-> alice]

Paid(i, s, n, e, in, out) ==
    [id |-> i, sender |-> s, nonce |-> n, epoch |-> e, inputs |-> in, writes |-> out]

MCIntent ==
    [q \in Request |->
        CASE q = x  -> Paid(1, alice, 0, 0, a :> Genesis, a :> bob)
          [] q = y  -> Paid(2, alice, 0, 0, b :> Genesis, b :> alice)
          [] q = z  -> Paid(3, alice, 1, 0, b :> Genesis, b :> alice)
          [] q = w  -> Paid(4, alice, 0, 1, a :> Genesis, a :> alice)
          [] q = u  -> Paid(5, bob, 0, 0, a :> x, a :> bob)]

\* v3 retires and v5 joins.
MCCommittees ==
    [e \in Epoch |-> IF e = 0 THEN {Validator \ {v5}} ELSE {Validator \ {v3}}]

Replicas == Permutations(IF MaxEpoch = 0 THEN {v1, v2, v3} ELSE {v1, v2})
===============================================================================
