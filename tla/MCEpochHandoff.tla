---------------------------- MODULE MCEpochHandoff ----------------------------
(***************************************************************************)
(* x and y compete for alice's nonce 0.  x hands a to bob, whose first     *)
(* request is u.                                                           *)
(***************************************************************************)
EXTENDS EpochHandoff, TLC

CONSTANTS v1, v2, v3, v4, alice, bob, a, b, x, y, z, u

MCPower == [v \in Validator |-> 1]
MCHeavy == [v \in Validator |-> IF v = v1 THEN 3 ELSE 1]   \* v1 is in every quorum
MCOrder == SelectSeq(<<v1, v2, v3, v4>>, LAMBDA v : v \in Validator)
MCOwner == [o \in Object |-> alice]
MCCommittees == [e \in Epoch |-> {Validator}]

Paid(i, s, n, in, out) ==
    [id |-> i, sender |-> s, nonce |-> n, epoch |-> 0, inputs |-> in, writes |-> out]

MCIntent ==
    [q \in Request |->
        CASE q = x -> Paid(2, alice, 0, a :> Genesis, a :> bob)
          [] q = y -> Paid(1, alice, 0, b :> Genesis, b :> alice)
          [] q = z -> Paid(3, alice, 1, b :> Genesis, b :> alice)
          [] q = u -> Paid(0, bob, 0, a :> x, a :> bob)]

Replicas == Permutations(Honest)
===============================================================================
