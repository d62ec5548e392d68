-------------------------- MODULE ValidatorSetProofs --------------------------
(***************************************************************************)
(* Quorum intersection for every validator set and every distribution of   *)
(* voting power.                                                           *)
(***************************************************************************)
EXTENDS ValidatorSet, FiniteSetTheorems, TLAPS

\* The power units of a set of validators are finitely many.
LEMMA UnitsFinite ==
    ASSUME NEW S \in SUBSET Validator
    PROVE  IsFiniteSet(Units(S))
PROOF
  <1> DEFINE Own(v) == {v} \X (1..VotingPower[v])
             Owns == {Own(v) : v \in S}
             f == [v \in S |-> Own(v)]
  <1>1. IsFiniteSet(S)
    BY ValidatorSetAssumption, FS_Subset, Zenon
  <1>2. IsFiniteSet(Owns)
    <2>1. f \in Surjection(S, Owns)
      BY Zenon DEF Surjection
    <2> QED BY <1>1, <2>1, FS_Surjection, Zenon
  <1>3. ASSUME NEW v \in S PROVE IsFiniteSet(Own(v))
    <2>1. VotingPower[v] \in Nat
      BY ValidatorSetAssumption, Zenon
    <2>2. IsFiniteSet(1..VotingPower[v])
      BY <2>1, FS_Interval
    <2>3. IsFiniteSet({v})
      BY FS_Singleton, Zenon
    <2> QED BY <2>2, <2>3, FS_Product, Zenon
  <1>4. \A T \in Owns : IsFiniteSet(T)
    BY <1>3, Zenon
  <1>5. IsFiniteSet(UNION Owns)
    BY <1>2, <1>4, FS_UNION, Zenon
  <1> QED BY <1>5, Zenon DEF Units

\* Units distribute over intersection, and determine their validators.
LEMMA UnitsIntersection ==
    ASSUME NEW S \in SUBSET Validator, NEW T \in SUBSET Validator
    PROVE  Units(S) \cap Units(T) = Units(S \cap T)
  BY DEF Units

\* A subset has no more units.
LEMMA UnitsMonotone ==
    ASSUME NEW S \in SUBSET Validator, NEW T \in SUBSET Validator, S \subseteq T
    PROVE  Units(S) \subseteq Units(T) /\ PowerOf(S) <= PowerOf(T)
PROOF
  <1>1. Units(S) \subseteq Units(T)
    BY Zenon DEF Units
  <1> QED BY <1>1, UnitsFinite, FS_Subset, Zenon DEF PowerOf

\* A validator set has positive voting power.
LEMMA CommitteePower ==
    ASSUME NEW C \in SUBSET Validator, C # {}
    PROVE  PowerOf(C) \in Nat \ {0}
PROOF
  <1>1. PICK v \in C : TRUE
    BY Zenon
  <1>2. <<v, 1>> \in Units(C)
    <2>1. 1 \in 1..VotingPower[v]
      BY ValidatorSetAssumption
    <2> QED BY <2>1 DEF Units
  <1>3. IsFiniteSet(Units(C))
    BY UnitsFinite, Zenon
  <1>4. Cardinality(Units(C)) \in Nat
    BY <1>3, FS_CardinalityType, Zenon
  <1>5. Cardinality(Units(C)) # 0
    BY <1>2, <1>3, FS_EmptySet, Zenon
  <1> QED BY <1>4, <1>5, Zenon DEF PowerOf

\* The total voting power is positive.
LEMMA PowerPositive == TotalVotingPower \in Nat \ {0}
  BY CommitteePower, ValidatorSetAssumption, Zenon DEF TotalVotingPower

\* A superset of a quorum is a quorum.
LEMMA QuorumMonotone ==
    ASSUME NEW S \in Quorum, NEW T \in SUBSET Validator, S \subseteq T
    PROVE  T \in Quorum
PROOF
  <1>1. S \in SUBSET Validator /\ PowerOf(S) >= QuorumThreshold
    BY Zenon DEF Quorum
  <1>2. PowerOf(S) <= PowerOf(T)
    BY <1>1, UnitsMonotone, Zenon
  <1>3. PowerOf(S) \in Nat /\ PowerOf(T) \in Nat
    BY <1>1, UnitsFinite, FS_CardinalityType, Zenon DEF PowerOf
  <1>4. QuorumThreshold \in Int
    BY PowerPositive DEF QuorumThreshold
  <1> QED BY <1>1, <1>2, <1>3, <1>4 DEF Quorum

\* The same for the quorums of any validator set.
LEMMA QuorumOfMonotone ==
    ASSUME NEW C \in SUBSET Validator, NEW S \in QuorumOf(C), NEW T \in SUBSET C, S \subseteq T
    PROVE  T \in QuorumOf(C)
PROOF
  <1>1. S \in SUBSET C /\ S \in SUBSET Validator /\ T \in SUBSET Validator
    BY Zenon DEF QuorumOf
  <1>2. PowerOf(S) <= PowerOf(T)
    BY <1>1, UnitsMonotone, Zenon
  <1>3. PowerOf(S) \in Nat /\ PowerOf(T) \in Nat /\ PowerOf(C) \in Nat
    BY <1>1, UnitsFinite, FS_CardinalityType, Zenon DEF PowerOf
  <1> QED BY <1>2, <1>3 DEF QuorumOf

\* Two quorums of one validator set share a validator outside every set of
\* validators that holds less than a third of its voting power.
THEOREM CommitteeIntersection ==
    ASSUME NEW C \in SUBSET Validator, C # {},
           NEW S \in QuorumOf(C), NEW T \in QuorumOf(C), NEW F \in SUBSET Validator,
           PowerOf(F) <= (PowerOf(C) - 1) \div 3
    PROVE  \E v \in S \cap T : v \notin F
PROOF
  <1> DEFINE W == PowerOf(C)
             u == Cardinality(Units(S) \cup Units(T))
             i == PowerOf(S \cap T)
             third == (W - 1) \div 3
  <1>1. S \in SUBSET C /\ T \in SUBSET C /\ S \in SUBSET Validator /\ T \in SUBSET Validator
    BY Zenon DEF QuorumOf
  <1>2. W \in Nat \ {0} /\ third \in Nat /\ 3 * third <= W - 1
    <2>1. W \in Nat \ {0}
      BY CommitteePower, Zenon
    <2> HIDE DEF W
    <2> QED BY <2>1
  <1>3. PowerOf(S) >= W - third /\ PowerOf(T) >= W - third
    BY Zenon DEF QuorumOf
  <1>4. IsFiniteSet(Units(S)) /\ IsFiniteSet(Units(T)) /\ IsFiniteSet(Units(C))
    BY <1>1, UnitsFinite, Zenon
  <1>5. u = PowerOf(S) + PowerOf(T) - i
    BY <1>1, <1>4, FS_Union, UnitsIntersection DEF PowerOf
  <1>6. u <= W
    <2>1. Units(S) \cup Units(T) \subseteq Units(C)
      BY <1>1, Zenon DEF Units
    <2> QED BY <1>4, <2>1, FS_Subset, Zenon DEF PowerOf
  <1>7. u \in Nat /\ i \in Nat /\ PowerOf(S) \in Nat /\ PowerOf(T) \in Nat
    <2>1. IsFiniteSet(Units(S) \cup Units(T))
      BY <1>4, FS_Union, Zenon
    <2>2. IsFiniteSet(Units(S \cap T))
      BY <1>1, UnitsFinite, Zenon
    <2> QED BY <1>4, <2>1, <2>2, FS_CardinalityType, Zenon DEF PowerOf
  <1>8. i > third
    <2> HIDE DEF W, u, i, third
    <2> QED BY <1>2, <1>3, <1>5, <1>6, <1>7
  <1>9. ASSUME S \cap T \subseteq F PROVE FALSE
    <2>1. i <= PowerOf(F)
      BY <1>1, <1>9, UnitsMonotone, Zenon
    <2>2. PowerOf(F) \in Nat
      BY UnitsFinite, FS_CardinalityType, Zenon DEF PowerOf
    <2>3. PowerOf(F) <= third
      BY Zenon
    <2> HIDE DEF i, third
    <2> QED BY <1>2, <1>7, <1>8, <2>1, <2>2, <2>3
  <1> QED BY <1>9, Zenon

\* The same for the fixed set of the ordered lane: quorum_threshold leaves no
\* room for two certificates whose common signers are all faulty.
THEOREM QuorumIntersection ==
    ASSUME NEW S \in Quorum, NEW T \in Quorum, NEW F \in SUBSET Validator,
           PowerOf(F) <= (TotalVotingPower - 1) \div 3
    PROVE  \E v \in S \cap T : v \notin F
PROOF
  <1>1. S \in QuorumOf(Validator) /\ T \in QuorumOf(Validator)
    BY Zenon DEF Quorum, QuorumOf, QuorumThreshold, TotalVotingPower
  <1>2. Validator # {} /\ PowerOf(F) <= (PowerOf(Validator) - 1) \div 3
    BY ValidatorSetAssumption, Zenon DEF TotalVotingPower
  <1> QED BY <1>1, <1>2, CommitteeIntersection
===============================================================================
