---------------------------- MODULE FastPathProofs ----------------------------
(***************************************************************************)
(* The fast path, for every set of requests, replicas and epochs: its      *)
(* inductive invariant, the safety properties that follow from it, and     *)
(* that it implements the ledger of spent references.                      *)
(***************************************************************************)
EXTENDS FastPathLedger, ValidatorSetProofs

\* The fields of an intent have their types.
LEMMA IntentType ==
    ASSUME NEW q \in Request
    PROVE  /\ Id(q) \in RequestId /\ EpochOf(q) \in Epoch /\ Slot(q) \in NonceKey
           /\ Intent[q].nonce \in Nat /\ Intent[q].sender \in Sender
           /\ Inputs(q) \subseteq Object /\ Writes(q) \subseteq Inputs(q)
           /\ \A o \in Inputs(q) : Intent[q].inputs[o] \in Ref
PROOF
  <1>1. Intent[q] \in IntentShape /\ Writes(q) \subseteq Inputs(q)
    BY Zenon, FastPathAssumption DEF Writes, Inputs
  <1>2. PICK S \in SUBSET Object : Intent[q].inputs \in [S -> Ref]
    BY Zenon, <1>1 DEF IntentShape
  <1> QED BY Zenon, <1>1, <1>2 DEF IntentShape, Id, EpochOf, Slot, NonceKey, Inputs, Writes

\* Finalizing adds exactly the finalized request.
LEMMA FinalizedGrows ==
    ASSUME TypeOK, NEW r \in Honest, NEW q \in Request, Finalize(r, q)
    PROVE  /\ Finalized(r)' = Finalized(r) \cup {q} /\ q \notin Finalized(r)
           /\ \A t \in Honest \ {r} : Finalized(t)' = Finalized(t)
PROOF
  <1> USE FastPathAssumption
  <1>1. /\ receipt[r][Id(q)] = None
        /\ receipt' = [receipt EXCEPT ![r][Id(q)] = q]
        /\ receipt \in [Honest -> [RequestId -> Request \cup {None}]]
    BY Zenon DEF Finalize, TypeOK
  <1>2. \A p \in Request : Id(p) \in RequestId
    BY Zenon, IntentType
  <1>3. receipt'[r] = [receipt[r] EXCEPT ![Id(q)] = q]
    BY Zenon, <1>1
  <1>4. ASSUME NEW p \in Request
        PROVE  receipt'[r][Id(p)] = p <=> receipt[r][Id(p)] = p \/ p = q
    <2>1. Id(p) \in RequestId /\ Id(q) \in RequestId /\ p # None
      BY Zenon, <1>2
    <2>2. receipt[r] \in [RequestId -> Request \cup {None}]
      BY Zenon, <1>1
    <2>3. CASE Id(p) = Id(q)
      <3>1. receipt'[r][Id(p)] = q
        BY Zenon, <1>3, <2>1, <2>2, <2>3
      <3>2. receipt[r][Id(p)] = None
        BY Zenon, <1>1, <2>3
      <3> QED BY Zenon, <2>1, <3>1, <3>2
    <2>4. CASE Id(p) # Id(q)
      <3>1. receipt'[r][Id(p)] = receipt[r][Id(p)]
        BY Zenon, <1>3, <2>1, <2>2, <2>4
      <3>2. p # q
        BY Zenon, <2>4
      <3> QED BY Zenon, <3>1, <3>2
    <2> QED BY Zenon, <2>3, <2>4
  <1>5. \A t \in Honest \ {r} : receipt'[t] = receipt[t]
    BY Zenon, <1>1
  <1> QED BY <1>1, <1>4, <1>5 DEF Finalized, Id

-------------------------------------------------------------------------------
\* The rows a genesis store starts with have the types their codecs give them.
LEMMA TypeInit == Init => TypeOK
  BY FastPathAssumption DEF Init, TypeOK, Epoch, Ref

\* Finalizing, clearing, preparing, applying and changing epoch keep the types.
LEMMA TypeFinalize ==
    ASSUME TypeOK, NEW r \in Honest, NEW q \in Request, Finalize(r, q)
    PROVE  /\ head' \in [Honest -> [Object -> Ref]]
           /\ nonce' \in [Honest -> [NonceKey -> Nat]]
           /\ receipt' \in [Honest -> [RequestId -> Request \cup {None}]]
PROOF
  <1>1. head' \in [Honest -> [Object -> Ref]]
    BY DEF TypeOK, Finalize, Ref
  <1>2. nonce' \in [Honest -> [NonceKey -> Nat]]
    <2>1. Slot(q) \in NonceKey
      BY Zenon, IntentType
    <2>2. nonce' = [nonce EXCEPT ![r][Slot(q)] = nonce[r][Slot(q)] + 1]
      BY Zenon DEF Finalize
    <2> QED BY <2>1, <2>2 DEF TypeOK
  <1>3. receipt' \in [Honest -> [RequestId -> Request \cup {None}]]
    BY Zenon, IntentType DEF TypeOK, Finalize
  <1> QED BY Zenon, <1>1, <1>2, <1>3

\* Clearing locks keeps their type.
LEMMA TypeClear ==
    ASSUME TypeOK, NEW r \in Honest, NEW q \in Request, ClearLocks(r, q)
    PROVE  lock' \in [Honest -> [Object -> LockShape \cup {None}]]
  BY DEF TypeOK, ClearLocks

\* So does prepare.
LEMMA TypePrepare ==
    ASSUME TypeOK, NEW r \in Honest, NEW q \in Request, Prepare(r, q)
    PROVE  TypeOK'
PROOF
  <1>1. Id(q) \in RequestId /\ Slot(q) \in NonceKey
    BY Zenon, IntentType
  <1>2. \A o \in Inputs(q) : OwnLock(r, q, o) \in LockShape
    BY Zenon, <1>1, IntentType DEF OwnLock, LockShape, TypeOK
  <1>3. lock' \in [Honest -> [Object -> LockShape \cup {None}]]
    <2> HIDE DEF LockShape
    <2> QED BY <1>2 DEF Prepare, TypeOK
  <1>4. nonceLock' \in [Honest -> [NonceKey -> RequestId \cup {None}]]
    BY Zenon, <1>1 DEF Prepare, TypeOK
  <1>5. prepared' \in [Honest -> [RequestId -> Request \cup {None}]]
    BY Zenon, <1>1 DEF Prepare, TypeOK
  <1>6. voted' \in [Honest -> SUBSET Request]
    BY Zenon DEF Prepare, TypeOK
  <1> QED BY Zenon, <1>3, <1>4, <1>5, <1>6 DEF Prepare, TypeOK

\* What apply, recovery and direct execution have in common: q is admitted and
\* finalized, and a lock or nonce lock that goes is its own or an old one.
LEMMA Applies ==
    ASSUME TypeOK, NEW r \in Honest, NEW q \in Request,
           ApplyPrepared(r, q) \/ ApplyRecovery(r, q) \/ Direct(r, q)
    PROVE  /\ Finalize(r, q) /\ Admit(r, q)
           /\ UNCHANGED <<epoch, members, prepared, voted, proposed>>
           /\ nonceLock[r][Slot(q)] \in {Id(q), None}
           /\ nonceLock' \in [Honest -> [NonceKey -> RequestId \cup {None}]]
           /\ lock' \in [Honest -> [Object -> LockShape \cup {None}]]
           /\ certificate' \in [Honest -> SUBSET Request]
           /\ \A s \in NonceKey : s # Slot(q) => nonceLock'[r][s] = nonceLock[r][s]
           /\ \A o \in Object : \/ lock'[r][o] = lock[r][o]
                                \/ o \in Inputs(q) /\ lock'[r][o] = None
           /\ nonceLock[r][Slot(q)] = Id(q) => \A o \in Inputs(q) : lock'[r][o] = None
           /\ \A t \in Honest \ {r} : lock'[t] = lock[t] /\ nonceLock'[t] = nonceLock[t]
PROOF
  <1>1. /\ Slot(q) \in NonceKey /\ Id(q) # None /\ Inputs(q) \subseteq Object
        /\ nonceLock \in [Honest -> [NonceKey -> RequestId \cup {None}]]
        /\ lock \in [Honest -> [Object -> LockShape \cup {None}]]
        /\ certificate \in [Honest -> SUBSET Request]
    BY Zenon, IntentType, FastPathAssumption DEF TypeOK
  <1>2. ASSUME ClearLocks(r, q)
        PROVE  /\ lock' \in [Honest -> [Object -> LockShape \cup {None}]]
               /\ \A o \in Object : lock'[r][o] = IF o \in Inputs(q) THEN None ELSE lock[r][o]
               /\ \A t \in Honest \ {r} : lock'[t] = lock[t]
    BY Zenon, <1>1, <1>2 DEF ClearLocks
  <1>3. CASE ApplyPrepared(r, q)
    <2>1. /\ Finalize(r, q) /\ Admit(r, q) /\ ClearLocks(r, q)
          /\ nonceLock[r][Slot(q)] = Id(q)
          /\ nonceLock' = [nonceLock EXCEPT ![r][Slot(q)] = None]
          /\ certificate' = [certificate EXCEPT ![r] = @ \cup {q}]
          /\ UNCHANGED <<epoch, members, prepared, voted, proposed>>
      BY Zenon, <1>3 DEF ApplyPrepared, HoldsLocks
    <2> QED BY Zenon, <1>1, <1>2, <2>1
  <1>4. CASE ApplyRecovery(r, q)
    <2>1. /\ Finalize(r, q) /\ Admit(r, q) /\ nonceLock[r][Slot(q)] = None
          /\ certificate' = [certificate EXCEPT ![r] = @ \cup {q}]
          /\ UNCHANGED <<epoch, members, lock, nonceLock, prepared, voted, proposed>>
      BY Zenon, <1>4 DEF ApplyRecovery, NonceUnlocked
    <2> QED BY Zenon, <1>1, <2>1
  <1>5. CASE Direct(r, q)
    <2>1. /\ Finalize(r, q) /\ Admit(r, q) /\ nonceLock[r][Slot(q)] = None /\ ClearLocks(r, q)
          /\ UNCHANGED <<epoch, members, nonceLock, prepared, certificate, voted, proposed>>
      BY Zenon, <1>5 DEF Direct, NonceUnlocked
    <2> QED BY Zenon, <1>1, <1>2, <2>1
  <1> QED BY Zenon, <1>3, <1>4, <1>5

\* So do apply, recovery and direct execution.
LEMMA TypeApply ==
    ASSUME TypeOK, NEW r \in Honest, NEW q \in Request,
           ApplyPrepared(r, q) \/ ApplyRecovery(r, q) \/ Direct(r, q)
    PROVE  TypeOK'
PROOF
  <1>1. /\ Finalize(r, q) /\ UNCHANGED <<epoch, members, prepared, voted, proposed>>
        /\ nonceLock' \in [Honest -> [NonceKey -> RequestId \cup {None}]]
        /\ lock' \in [Honest -> [Object -> LockShape \cup {None}]]
        /\ certificate' \in [Honest -> SUBSET Request]
    BY Zenon, Applies
  <1>2. /\ head' \in [Honest -> [Object -> Ref]]
        /\ nonce' \in [Honest -> [NonceKey -> Nat]]
        /\ receipt' \in [Honest -> [RequestId -> Request \cup {None}]]
    BY Zenon, <1>1, TypeFinalize
  <1> QED BY Zenon, <1>1, <1>2 DEF TypeOK

\* So does the epoch machine.
LEMMA TypeTransition ==
    ASSUME TypeOK, NEW r \in Honest, NEW next,
           ProposeAndVote(r, next) \/ Activate(r, next)
    PROVE  TypeOK'
PROOF
  <1>1. epoch[r] \in Epoch /\ epoch[r] < MaxEpoch /\ epoch[r] + 1 \in Epoch
    BY FastPathAssumption DEF TypeOK, ProposeAndVote, Activate, Epoch
  <1>2. next \in SUBSET Validator /\ next \in Committees[epoch[r] + 1]
    <2>1. next \in Committees[epoch[r] + 1]
      BY Zenon DEF ProposeAndVote, Activate
    <2>2. Committees \in [Epoch -> SUBSET SUBSET Validator]
      BY Zenon, FastPathAssumption
    <2>3. Committees[epoch[r] + 1] \in SUBSET SUBSET Validator
      BY Zenon, <1>1, <2>2
    <2> QED BY Zenon, <2>1, <2>3
  <1>3. CASE ProposeAndVote(r, next)
    <2>1. proposed' \in [Honest -> SUBSET (Epoch \X SUBSET Validator)]
      BY <1>1, <1>2, <1>3 DEF ProposeAndVote, TypeOK
    <2> QED BY Zenon, <1>3, <2>1 DEF ProposeAndVote, TypeOK, rows
  <1>4. CASE Activate(r, next)
    <2>1. epoch' \in [Honest -> Epoch] /\ members' \in [Honest -> SUBSET Validator]
      BY Zenon, <1>1, <1>2, <1>4 DEF Activate, TypeOK
    <2>2. \A t \in Honest : members'[t] \in Committees[epoch'[t]]
      BY Zenon, <1>1, <1>2, <1>4 DEF Activate, TypeOK
    <2> QED BY Zenon, <1>4, <2>1, <2>2 DEF Activate, TypeOK, rows
  <1> QED BY Zenon, <1>3, <1>4

\* Rows, locks and votes keep their types, whether or not request ids are unique.
THEOREM FastPathTypes == Spec => []TypeOK
PROOF
  <1>1. TypeOK /\ [Next]_vars => TypeOK'
    <2> SUFFICES ASSUME TypeOK, [Next]_vars PROVE TypeOK'
      BY Zenon
    <2>1. CASE Next
      BY Zenon, <2>1, TypePrepare, TypeApply, TypeTransition DEF Next
    <2>2. CASE UNCHANGED vars
      BY Zenon, <2>2 DEF TypeOK, vars, rows
    <2> QED BY <2>1, <2>2, Zenon
  <1> QED BY <1>1, TypeInit, PTL DEF Spec

\* A replica adds no certificate of an epoch it has left: apply admits only
\* requests of the current epoch, by both of its paths.
THEOREM EpochsStayClosed == Spec => LeftEpochIsClosed
PROOF
  <1> DEFINE Closed(C, D, e) == \A r \in Honest : \A q \in Request :
                EpochOf(q) < e[r] => (q \in D[r] <=> q \in C[r])
  <1>1. TypeOK /\ [Next]_vars => Closed(certificate, certificate', epoch)
    <2> SUFFICES ASSUME TypeOK, [Next]_vars, NEW t \in Honest, NEW p \in Request,
                        EpochOf(p) < epoch[t]
                 PROVE  p \in certificate'[t] <=> p \in certificate[t]
      BY Zenon
    <2>1. ASSUME NEW r \in Honest, NEW q \in Request, Admit(r, q),
                 certificate' = [certificate EXCEPT ![r] = @ \cup {q}]
          PROVE  p \in certificate'[t] <=> p \in certificate[t]
      <3>1. EpochOf(q) = epoch[r] /\ epoch[t] \in Nat
        BY <2>1 DEF Admit, CurrentEpoch, TypeOK, Epoch
      <3>2. r = t => p # q
        BY <3>1
      <3>3. certificate \in [Honest -> SUBSET Request]
        BY Zenon DEF TypeOK
      <3> QED BY Zenon, <2>1, <3>2, <3>3
    <2>2. ASSUME UNCHANGED certificate
          PROVE  p \in certificate'[t] <=> p \in certificate[t]
      BY Zenon, <2>2
    <2>3. ASSUME NEW r \in Honest, NEW q \in Request,
                 Prepare(r, q) \/ ApplyPrepared(r, q) \/ ApplyRecovery(r, q) \/ Direct(r, q)
          PROVE  p \in certificate'[t] <=> p \in certificate[t]
      <3>1. CASE Prepare(r, q)
        <4>1. UNCHANGED certificate
          BY Zenon, <3>1 DEF Prepare
        <4> QED BY Zenon, <4>1, <2>2
      <3>2. CASE ApplyPrepared(r, q)
        <4>1. Admit(r, q) /\ certificate' = [certificate EXCEPT ![r] = @ \cup {q}]
          BY Zenon, <3>2 DEF ApplyPrepared
        <4> QED BY Zenon, <4>1, <2>1
      <3>3. CASE ApplyRecovery(r, q)
        <4>1. Admit(r, q) /\ certificate' = [certificate EXCEPT ![r] = @ \cup {q}]
          BY Zenon, <3>3 DEF ApplyRecovery
        <4> QED BY Zenon, <4>1, <2>1
      <3>4. CASE Direct(r, q)
        <4>1. UNCHANGED certificate
          BY Zenon, <3>4 DEF Direct
        <4> QED BY Zenon, <4>1, <2>2
      <3> QED BY Zenon, <2>3, <3>1, <3>2, <3>3, <3>4
    <2>4. ASSUME NEW r \in Honest, NEW next \in UNION {Committees[e] : e \in Epoch},
                 ProposeAndVote(r, next) \/ Activate(r, next)
          PROVE  p \in certificate'[t] <=> p \in certificate[t]
      <3>1. ProposeAndVote(r, next) => UNCHANGED certificate
        BY Zenon DEF ProposeAndVote
      <3>2. Activate(r, next) => UNCHANGED certificate
        BY Zenon DEF Activate
      <3> QED BY Zenon, <2>4, <3>1, <3>2, <2>2
    <2>5. CASE UNCHANGED vars
      <3>1. UNCHANGED certificate
        BY Zenon, <2>5 DEF vars
      <3> QED BY Zenon, <3>1, <2>2
    <2>6. CASE Next
      BY Zenon, <2>6, <2>3, <2>4 DEF Next
    <2> QED BY Zenon, <2>5, <2>6
  <1>2. TypeOK /\ [Next]_vars =>
          [\A r \in Honest : \A q \in Request :
             EpochOf(q) < epoch[r] => (q \in certificate'[r] <=> q \in certificate[r])]_vars
    BY <1>1, Zenon
  <1> QED BY <1>2, FastPathTypes, PTL DEF Spec, LeftEpochIsClosed

-------------------------------------------------------------------------------
\* The ledger of a replica is a function of its heads, nonces and receipts.
LEMMA LedgerFrame ==
    ASSUME NEW t \in Honest, LedgerInv(t),
           head'[t] = head[t], nonce'[t] = nonce[t], receipt'[t] = receipt[t]
    PROVE  LedgerInv(t)'
PROOF
  <1>1. Finalized(t)' = Finalized(t)
    BY Zenon DEF Finalized, Id
  <1> QED BY <1>1 DEF LedgerInv, SameNonce, Slot, Spends, Writes, Inputs, Id

\* Finalizing an admitted request keeps the ledger.
LEMMA LedgerFinalize ==
    ASSUME TypeOK, NEW r \in Honest, NEW q \in Request, LedgerInv(r),
           Admit(r, q), Finalize(r, q)
    PROVE  LedgerInv(r)'
PROOF
  <1> DEFINE F == Finalized(r)
  <1>1. Finalized(r)' = F \cup {q} /\ q \notin F /\ F \subseteq Request
    BY Zenon, FinalizedGrows DEF Finalized
  <1>2. \A o \in Inputs(q) : head[r][o] = Intent[q].inputs[o]
    BY Zenon DEF Admit, PinsHold
  <1>3. \A o \in Object : head'[r][o] = IF o \in Writes(q) THEN q ELSE head[r][o]
    BY Zenon DEF Finalize, TypeOK
  <1>4. \A o \in Object : head[r][o] \in Ref
    BY Zenon DEF TypeOK
  <1>5. \A o \in Object : head[r][o] \in F \cup {Genesis}
    BY Zenon, <1>4 DEF LedgerInv, Ref
  <1>6. Writes(q) \subseteq Inputs(q) /\ Inputs(q) \subseteq Object
    BY Zenon, IntentType
  <1>7. \A p \in F \cup {q} : \A o \in Inputs(p) :
            Intent[p].inputs[o] \in F \cup {Genesis} /\ Intent[p].inputs[o] # q
    <2>1. q # Genesis
      BY Zenon, FastPathAssumption
    <2> QED BY <1>1, <1>2, <1>5, <1>6, <2>1 DEF LedgerInv
  <1>8. ASSUME NEW o \in Object, NEW ref \in Ref
        PROVE  head'[r][o] = ref <=>
                 /\ ref # Genesis => ref \in F \cup {q} /\ o \in Writes(ref)
                 /\ \A p \in F \cup {q} : ~Spends(p, o, ref)
    <2>1. head[r][o] = ref <=>
              /\ ref # Genesis => ref \in F /\ o \in Writes(ref)
              /\ \A p \in F : ~Spends(p, o, ref)
      BY Zenon DEF LedgerInv
    <2>2. \A p \in F \cup {q} : ~Spends(p, o, q)
      <3>1. \A p \in F \cup {q} : Writes(p) \subseteq Inputs(p)
        BY Zenon, <1>1, IntentType
      <3> QED BY Zenon, <1>7, <3>1 DEF Spends
    <2>3. CASE o \in Writes(q)
      <3>1. Spends(q, o, ref) <=> head[r][o] = ref
        BY Zenon, <1>2, <1>6, <2>3 DEF Spends
      <3> QED BY Zenon, <1>1, <1>3, <2>1, <2>2, <2>3, <3>1
    <2>4. CASE o \notin Writes(q)
      <3>1. ~Spends(q, o, ref)
        BY Zenon, <2>4 DEF Spends
      <3>2. head'[r][o] = head[r][o]
        BY Zenon, <1>3, <2>4
      <3> QED BY Zenon, <2>1, <2>4, <3>1, <3>2
    <2> QED BY Zenon, <2>3, <2>4
  <1>9. /\ nonce[r][Slot(q)] = Intent[q].nonce /\ Intent[q].nonce \in Nat
        /\ nonce'[r][Slot(q)] = Intent[q].nonce + 1
        /\ \A s \in NonceKey : nonce[r][s] \in Nat
        /\ \A s \in NonceKey \ {Slot(q)} : nonce'[r][s] = nonce[r][s]
    BY IntentType DEF Admit, NextNonce, Finalize, TypeOK
  <1>10. \A p \in F \cup {q} : Intent[p].nonce < nonce'[r][Slot(p)]
    <2>1. \A p \in F : Slot(p) \in NonceKey /\ Intent[p].nonce \in Nat
      BY Zenon, <1>1, IntentType
    <2> QED BY <1>9, <2>1 DEF LedgerInv
  <1>11. \A s \in NonceKey : \A n \in Nat :
            n < nonce'[r][s] =>
               \E p \in F \cup {q} : Slot(p) = s /\ Intent[p].nonce = n
    <2> SUFFICES ASSUME NEW s \in NonceKey, NEW n \in Nat, n < nonce'[r][s]
                 PROVE  \E p \in F \cup {q} : Slot(p) = s /\ Intent[p].nonce = n
      BY Zenon
    <2>1. CASE n < nonce[r][s]
      BY <2>1 DEF LedgerInv
    <2>2. CASE ~(n < nonce[r][s])
      <3>1. s = Slot(q) /\ n = Intent[q].nonce
        BY <1>9, <2>2
      <3> QED BY Zenon, <3>1
    <2> QED BY Zenon, <2>1, <2>2
  <1>12. \A p, x \in F \cup {q} : SameNonce(p, x) => p = x
    <2>1. \A p \in F : ~SameNonce(p, q) /\ ~SameNonce(q, p)
      <3>1. \A p \in F : Intent[p].nonce < nonce[r][Slot(p)]
        BY Zenon DEF LedgerInv
      <3>2. \A p \in F : Intent[p].nonce \in Nat
        BY Zenon, <1>1, IntentType
      <3> QED BY <1>9, <3>1, <3>2 DEF SameNonce
    <2> QED BY <2>1 DEF LedgerInv
  <1> HIDE DEF F
  <1>13. Ref' = Ref /\ \A p, x, o, ref : /\ Spends(p, o, ref)' <=> Spends(p, o, ref)
                                         /\ SameNonce(p, x)' <=> SameNonce(p, x)
                                         /\ Slot(p)' = Slot(p) /\ Writes(p)' = Writes(p)
                                         /\ Inputs(p)' = Inputs(p) /\ Id(p)' = Id(p)
    BY DEF Spends, SameNonce, Slot, Writes, Inputs, Id
  <1>14. \A i \in RequestId : receipt'[r][i] # None => Id(receipt'[r][i]) = i
    <2>1. Id(q) \in RequestId /\ receipt[r] \in [RequestId -> Request \cup {None}]
      BY Zenon, IntentType DEF TypeOK
    <2>2. receipt'[r] = [receipt[r] EXCEPT ![Id(q)] = q]
      BY Zenon DEF Finalize, TypeOK
    <2> QED BY <2>1, <2>2 DEF LedgerInv
  <1> QED BY <1>1, <1>7, <1>8, <1>10, <1>11, <1>12, <1>13, <1>14 DEF LedgerInv

-------------------------------------------------------------------------------
\* The request a replica waits for keeps what it holds while the replica
\* finalizes another one: they have different senders, hence no input in common.
LEMMA WaitingDisjoint ==
    ASSUME NEW r \in Honest, NEW p \in Request, NEW q \in Request,
           Waiting(r, p), EpochOf(p) = epoch[r], Admit(r, q), Slot(p) # Slot(q)
    PROVE  Inputs(p) \cap Inputs(q) = {}
PROOF
  <1> SUFFICES ASSUME NEW o \in Inputs(p) \cap Inputs(q) PROVE FALSE
    BY Zenon
  <1>1. OwnerOf(o, head[r][o]) = Intent[p].sender
    BY Zenon DEF Waiting, PinsHold
  <1>2. OwnerOf(o, head[r][o]) = Intent[q].sender /\ epoch[r] = EpochOf(q)
    BY Zenon DEF Admit, PinsHold, CurrentEpoch
  <1> QED BY Zenon, <1>1, <1>2 DEF Slot, EpochOf

\* Replicas that do not move keep their votes and locks.
LEMMA VoteFrame ==
    ASSUME NEW t \in Honest, VoteInv(t), LockInv(t),
           head'[t] = head[t], nonce'[t] = nonce[t], receipt'[t] = receipt[t],
           lock'[t] = lock[t], nonceLock'[t] = nonceLock[t], prepared'[t] = prepared[t],
           voted'[t] = voted[t], epoch'[t] = epoch[t]
    PROVE  VoteInv(t)' /\ LockInv(t)'
PROOF
  <1>1. Finalized(t)' = Finalized(t)
    BY Zenon DEF Finalized, Id
  <1>2. \A q : Waiting(t, q)' <=> Waiting(t, q)
    BY DEF Waiting, NextNonce, HoldsLocks, PinsHold, OwnLock, OwnerOf, Id, Slot, Inputs, EpochOf
  <1>3. VoteInv(t)'
    BY Zenon, <1>1, <1>2 DEF VoteInv, EpochOf, Compete, SameNonce, Slot, Spends, Writes
  <1>4. LockInv(t)'
    BY DEF LockInv, Id, Inputs, OwnLock
  <1> QED BY Zenon, <1>3, <1>4

\* Finalizing q at r: the votes of r, other than q, still wait as they did.
LEMMA VoteApply ==
    ASSUME UniqueIds, TypeOK, NEW r \in Honest, NEW q \in Request,
           LedgerInv(r), VoteInv(r),
           ApplyPrepared(r, q) \/ ApplyRecovery(r, q) \/ Direct(r, q)
    PROVE  VoteInv(r)'
PROOF
  <1>1. Finalize(r, q) /\ Admit(r, q) /\ UNCHANGED <<epoch, prepared, voted>>
    BY Zenon, Applies
  <1>2. Finalized(r)' = Finalized(r) \cup {q}
    BY Zenon, <1>1, FinalizedGrows
  <1>3. /\ nonceLock[r][Slot(q)] \in {Id(q), None}
        /\ \A s \in NonceKey : s # Slot(q) => nonceLock'[r][s] = nonceLock[r][s]
        /\ \A o \in Object : o \in Inputs(q) \/ lock'[r][o] = lock[r][o]
    BY Zenon, Applies
  <1>4. ASSUME NEW p \in voted[r], p # q, Waiting(r, p) PROVE Waiting(r, p)'
    <2>1. p \in Request /\ Id(p) \in RequestId /\ Slot(p) \in NonceKey /\ Inputs(p) \subseteq Object
      BY Zenon, IntentType DEF TypeOK
    <2>2. Id(p) # Id(q)
      BY Zenon, <1>4, <2>1 DEF UniqueIds, Id
    <2>3. Id(p) # None
      BY Zenon, <2>1, FastPathAssumption
    <2>4. Slot(p) # Slot(q)
      BY Zenon, <1>3, <1>4, <2>2, <2>3 DEF Waiting
    <2>5. nonceLock'[r][Slot(p)] = nonceLock[r][Slot(p)]
      BY Zenon, <1>3, <2>1, <2>4
    <2>6. nonce'[r][Slot(p)] = nonce[r][Slot(p)]
      BY Zenon, <1>1, <2>1, <2>4 DEF Finalize, TypeOK
    <2>7. receipt'[r][Id(p)] = receipt[r][Id(p)]
      BY Zenon, <1>1, <2>1, <2>2 DEF Finalize, TypeOK
    <2>8. ASSUME EpochOf(p) = epoch[r]
          PROVE  \A o \in Inputs(p) : lock'[r][o] = lock[r][o] /\ head'[r][o] = head[r][o]
      <3>1. Inputs(p) \cap Inputs(q) = {}
        BY Zenon, <1>1, <1>4, <2>1, <2>4, <2>8, WaitingDisjoint
      <3>2. Writes(q) \subseteq Inputs(q)
        BY Zenon, IntentType
      <3>3. \A o \in Inputs(p) : head'[r][o] = head[r][o]
        BY Zenon, <1>1, <2>1, <3>1, <3>2 DEF Finalize, TypeOK
      <3>4. \A o \in Inputs(p) : lock'[r][o] = lock[r][o]
        BY Zenon, <1>3, <2>1, <3>1
      <3> QED BY Zenon, <3>3, <3>4
    <2>9. epoch'[r] = epoch[r] /\ prepared'[r] = prepared[r]
      BY Zenon, <1>1
    <2>10. nonceLock'[r][Slot(p)] = Id(p) /\ NextNonce(r, p)'
      BY Zenon, <1>4, <2>5, <2>6 DEF Waiting, NextNonce, Slot
    <2>11. prepared'[r][Id(p)] = p /\ receipt'[r][Id(p)] = None
      BY Zenon, <1>4, <2>7, <2>9 DEF Waiting
    <2>12. ASSUME EpochOf(p) = epoch[r] PROVE HoldsLocks(r, p)' /\ PinsHold(r, p)'
      BY Zenon, <1>4, <2>8, <2>9, <2>10, <2>12
         DEF Waiting, HoldsLocks, PinsHold, OwnLock, OwnerOf, Id, Slot, Inputs
    <2> QED BY Zenon, <2>9, <2>10, <2>11, <2>12 DEF Waiting, Id, Slot, EpochOf
  <1>5. \A p \in voted'[r] : p \in Finalized(r)' \/ Waiting(r, p)'
    BY Zenon, <1>1, <1>2, <1>4 DEF VoteInv
  <1> QED BY Zenon, <1>1, <1>5 DEF VoteInv, EpochOf, Compete, SameNonce, Slot, Spends, Writes

\* Finalizing q at r: a current lock that stays belongs to a request that waits.
LEMMA LockApply ==
    ASSUME UniqueIds, TypeOK, NEW r \in Honest, NEW q \in Request, VoteInv(r), LockInv(r),
           ApplyPrepared(r, q) \/ ApplyRecovery(r, q) \/ Direct(r, q)
    PROVE  LockInv(r)'
PROOF
  <1>1. Finalize(r, q) /\ UNCHANGED <<epoch, prepared, voted>>
    BY Zenon, Applies
  <1>2. \A o \in Object : lock'[r][o] # None => lock'[r][o] = lock[r][o]
    BY Zenon, Applies
  <1>3. ASSUME NEW o \in Object, lock'[r][o] # None, lock[r][o].epoch = epoch[r],
               NEW p \in voted[r], receipt[r][Id(p)] = None, prepared[r][Id(p)] = p,
               o \in Inputs(p), lock[r][o] = OwnLock(r, p, o)
        PROVE  receipt'[r][Id(p)] = None
    <2>1. p \in Request /\ Id(p) \in RequestId
      BY Zenon, IntentType DEF TypeOK
    <2>2. CASE p # q
      <3>1. Id(p) # Id(q)
        BY Zenon, <2>1, <2>2 DEF UniqueIds, Id
      <3> QED BY Zenon, <1>1, <1>3, <2>1, <3>1 DEF Finalize, TypeOK
    <2>3. CASE p = q
      <3>1. p \notin Finalized(r)
        BY Zenon, <1>3, <2>1, FastPathAssumption DEF Finalized
      <3>2. nonceLock[r][Slot(q)] = Id(q) /\ Id(q) # None
        BY <2>1, <2>3, <3>1, FastPathAssumption, Zenon DEF VoteInv, Waiting
      <3>3. lock'[r][o] = None
        BY <1>3, <2>3, <3>2, Applies, Zenon
      <3> QED BY Zenon, <1>3, <3>3
    <2> QED BY Zenon, <2>2, <2>3
  <1>4. epoch'[r] = epoch[r] /\ prepared'[r] = prepared[r] /\ voted'[r] = voted[r]
    BY Zenon, <1>1
  <1> QED BY <1>2, <1>3, <1>4 DEF LockInv, OwnLock, Id, Inputs

\* A request that competes with one already voted for is not prepared.
LEMMA PreparedAlone ==
    ASSUME TypeOK, NEW r \in Honest, NEW q \in Request, NEW p \in voted[r],
           LedgerInv(r), VoteInv(r), Prepare(r, q), Compete(p, q) \/ Compete(q, p)
    PROVE  FALSE
PROOF
  <1>1. p \in Request /\ Id(p) \in RequestId
    BY Zenon, IntentType DEF TypeOK
  <1>2. Admit(r, q) /\ nonceLock[r][Slot(q)] = None
    BY Zenon DEF Prepare, NonceUnlocked
  <1>3. EpochOf(p) = EpochOf(q) /\ EpochOf(q) = epoch[r]
    BY Zenon, <1>2 DEF Compete, SameNonce, Slot, EpochOf, Admit, CurrentEpoch
  <1>4. Writes(p) \subseteq Inputs(p) /\ Writes(q) \subseteq Inputs(q) /\ Inputs(q) \subseteq Object
    BY Zenon, <1>1, IntentType
  <1>5. \/ SameNonce(p, q)
        \/ \E o \in Writes(p) \cap Writes(q) : Intent[p].inputs[o] = Intent[q].inputs[o]
    BY Zenon DEF Compete, SameNonce, Spends
  <1>6. CASE p \in Finalized(r)
    <2>1. CASE SameNonce(p, q)
      <3>1. Intent[p].nonce < nonce[r][Slot(p)]
        BY Zenon, <1>6 DEF LedgerInv
      <3>2. nonce[r][Slot(q)] = Intent[q].nonce /\ Intent[q].nonce \in Nat
        BY Zenon, <1>2, IntentType DEF Admit, NextNonce
      <3> QED BY <2>1, <3>1, <3>2 DEF SameNonce
    <2>2. ASSUME NEW o \in Writes(p) \cap Writes(q),
                 Intent[p].inputs[o] = Intent[q].inputs[o]
          PROVE  FALSE
      <3>1. head[r][o] = Intent[p].inputs[o]
        BY Zenon, <1>2, <1>4, <2>2 DEF Admit, PinsHold
      <3>2. Spends(p, o, head[r][o])
        BY Zenon, <3>1 DEF Spends
      <3>3. o \in Object
        BY Zenon, <1>4, <2>2
      <3>4. head \in [Honest -> [Object -> Ref]]
        BY Zenon DEF TypeOK
      <3>5. head[r][o] \in Ref
        BY Zenon, <3>3, <3>4
      <3> QED BY Zenon, <1>6, <3>2, <3>3, <3>5 DEF LedgerInv
    <2> QED BY Zenon, <1>5, <2>1, <2>2
  <1>7. CASE Waiting(r, p)
    <2>1. nonceLock[r][Slot(p)] # None
      BY Zenon, <1>1, <1>7, FastPathAssumption DEF Waiting
    <2>2. Slot(p) # Slot(q)
      BY Zenon, <1>2, <2>1
    <2>3. Inputs(p) \cap Inputs(q) = {}
      BY Zenon, <1>1, <1>2, <1>3, <1>7, <2>2, WaitingDisjoint
    <2> QED BY Zenon, <1>4, <1>5, <2>2, <2>3 DEF SameNonce
  <1> QED BY Zenon, <1>6, <1>7 DEF VoteInv

\* prepare leaves the new vote waiting and every other vote as it was.
LEMMA VotePrepare ==
    ASSUME UniqueIds, TypeOK, NEW r \in Honest, NEW q \in Request,
           LedgerInv(r), VoteInv(r), LockInv(r), Prepare(r, q)
    PROVE  VoteInv(r)' /\ LockInv(r)'
PROOF
  <1>1. /\ Admit(r, q) /\ nonceLock[r][Slot(q)] = None
        /\ UNCHANGED <<epoch, head, nonce, receipt>>
    BY Zenon DEF Prepare, NonceUnlocked
  <1>2. Id(q) \in RequestId /\ Slot(q) \in NonceKey /\ Inputs(q) \subseteq Object
    BY Zenon, IntentType
  <1>3. /\ voted'[r] = voted[r] \cup {q} /\ prepared'[r] = [prepared[r] EXCEPT ![Id(q)] = q]
        /\ nonceLock'[r] = [nonceLock[r] EXCEPT ![Slot(q)] = Id(q)]
        /\ \A o \in Object :
              lock'[r][o] = IF o \in Inputs(q) THEN OwnLock(r, q, o) ELSE lock[r][o]
    BY Zenon DEF Prepare, TypeOK
  <1>4. /\ nonceLock[r] \in [NonceKey -> RequestId \cup {None}]
        /\ prepared[r] \in [RequestId -> Request \cup {None}]
    BY Zenon DEF TypeOK
  <1>5. epoch[r] = EpochOf(q) /\ q \notin Finalized(r)
    <2>1. nonce[r][Slot(q)] = Intent[q].nonce /\ Intent[q].nonce \in Nat
      BY Zenon, <1>1, IntentType DEF Admit, NextNonce
    <2> QED BY <1>1, <2>1 DEF Admit, CurrentEpoch, LedgerInv
  <1>6. receipt[r][Id(q)] = None
    <2>1. receipt[r][Id(q)] \in Request \cup {None}
      BY <1>2 DEF TypeOK
    <2>2. ASSUME receipt[r][Id(q)] \in Request PROVE FALSE
      <3>1. Id(receipt[r][Id(q)]) = Id(q) /\ receipt[r][Id(q)] # None
        BY <1>2, <2>2, FastPathAssumption, Zenon DEF LedgerInv
      <3>2. receipt[r][Id(q)] = q
        BY Zenon, <2>2, <3>1 DEF UniqueIds, Id
      <3> QED BY Zenon, <1>5, <3>2 DEF Finalized
    <2> QED BY Zenon, <2>1, <2>2
  <1>7. Finalized(r)' = Finalized(r) /\ epoch'[r] = epoch[r]
    BY Zenon, <1>1 DEF Finalized, Id
  <1>8. Waiting(r, q)'
    <2>1. nonceLock'[r][Slot(q)] = Id(q) /\ prepared'[r][Id(q)] = q
      BY Zenon, <1>2, <1>3, <1>4
    <2>2. \A o \in Inputs(q) : lock'[r][o] = OwnLock(r, q, o)
      BY Zenon, <1>2, <1>3
    <2>3. NextNonce(r, q) /\ PinsHold(r, q)
      BY Zenon, <1>1 DEF Admit
    <2> QED BY Zenon, <1>1, <1>6, <1>7, <2>1, <2>2, <2>3
            DEF Waiting, NextNonce, HoldsLocks, PinsHold, OwnLock, OwnerOf, Id, Slot, Inputs, EpochOf
  <1>9. ASSUME NEW p \in voted[r], p # q, Waiting(r, p) PROVE Waiting(r, p)'
    <2>1. p \in Request /\ Id(p) \in RequestId /\ Slot(p) \in NonceKey /\ Inputs(p) \subseteq Object
      BY Zenon, IntentType DEF TypeOK
    <2>2. Id(p) # Id(q) /\ Id(p) # None
      BY Zenon, <1>9, <2>1, FastPathAssumption DEF UniqueIds, Id
    <2>3. Slot(p) # Slot(q)
      BY Zenon, <1>1, <1>9, <2>2 DEF Waiting
    <2>4. nonceLock'[r][Slot(p)] = nonceLock[r][Slot(p)]
      BY Zenon, <1>3, <1>4, <2>1, <2>3
    <2>5. prepared'[r][Id(p)] = prepared[r][Id(p)]
      BY Zenon, <1>3, <1>4, <2>1, <2>2
    <2>6. ASSUME EpochOf(p) = epoch[r]
          PROVE  \A o \in Inputs(p) : lock'[r][o] = lock[r][o]
      <3>1. Inputs(p) \cap Inputs(q) = {}
        BY Zenon, <1>1, <1>9, <2>1, <2>3, <2>6, WaitingDisjoint
      <3> QED BY Zenon, <1>3, <2>1, <3>1
    <2> QED BY <1>1, <1>7, <1>9, <2>4, <2>5, <2>6, Zenon
            DEF Waiting, NextNonce, HoldsLocks, PinsHold, OwnLock, OwnerOf, Id, Slot, Inputs, EpochOf
  <1>10. VoteInv(r)'
    <2>1. \A p \in voted'[r] : p \in Finalized(r)' \/ Waiting(r, p)'
      BY Zenon, <1>3, <1>7, <1>8, <1>9 DEF VoteInv
    <2>2. \A p \in voted'[r] : EpochOf(p) <= epoch'[r]
      <3>1. epoch[r] \in Nat
        BY DEF TypeOK, Epoch
      <3> QED BY <1>3, <1>5, <1>7, <3>1 DEF VoteInv
    <2>3. \A p, x \in voted'[r] : Compete(p, x) => p = x
      BY Zenon, <1>3, PreparedAlone DEF VoteInv
    <2> QED BY Zenon, <2>1, <2>2, <2>3 DEF VoteInv, EpochOf, Compete, SameNonce, Slot, Spends, Writes
  <1>11. LockInv(r)'
    <2> SUFFICES ASSUME NEW o \in Object, lock'[r][o] # None
                 PROVE  /\ lock'[r][o].epoch <= epoch'[r]
                        /\ lock'[r][o].epoch = epoch'[r] =>
                              \E p \in voted'[r] :
                                  /\ prepared'[r][Id(p)] = p /\ receipt'[r][Id(p)] = None
                                  /\ o \in Inputs(p) /\ lock'[r][o] = OwnLock(r, p, o)'
      BY Zenon DEF LockInv, Id, Inputs
    <2>1. CASE o \in Inputs(q)
      <3>1. lock'[r][o] = OwnLock(r, q, o) /\ OwnLock(r, q, o)' = OwnLock(r, q, o)
        BY Zenon, <1>3, <1>7, <2>1 DEF OwnLock, Id
      <3>2. prepared'[r][Id(q)] = q /\ receipt'[r][Id(q)] = None
        BY Zenon, <1>1, <1>2, <1>3, <1>4, <1>6
      <3>3. OwnLock(r, q, o).epoch = epoch[r] /\ epoch[r] \in Nat
        BY DEF OwnLock, TypeOK, Epoch
      <3> QED BY <1>3, <1>7, <2>1, <3>1, <3>2, <3>3
    <2>2. CASE o \notin Inputs(q)
      <3>1. lock'[r][o] = lock[r][o] /\ lock[r][o] # None
        BY Zenon, <1>3, <2>2
      <3>2. \A p \in voted[r] : prepared[r][Id(p)] = p => prepared'[r][Id(p)] = p
        <4>1. \A p \in voted[r] : p \in Request /\ Id(p) \in RequestId
          BY Zenon, IntentType DEF TypeOK
        <4>2. \A p \in voted[r] : Id(p) = Id(q) => p = q
          BY Zenon, <4>1 DEF UniqueIds, Id
        <4> QED BY Zenon, <1>2, <1>3, <1>4, <4>1, <4>2
      <3>3. \A p : OwnLock(r, p, o)' = OwnLock(r, p, o)
        BY Zenon, <1>7 DEF OwnLock, Id
      <3>4. lock'[r][o].epoch <= epoch'[r]
        BY Zenon, <1>7, <3>1 DEF LockInv
      <3>5. ASSUME lock[r][o].epoch = epoch[r]
            PROVE  \E p \in voted'[r] :
                      /\ prepared'[r][Id(p)] = p /\ receipt'[r][Id(p)] = None
                      /\ o \in Inputs(p) /\ lock'[r][o] = OwnLock(r, p, o)'
        <4>1. PICK p \in voted[r] :
                  /\ prepared[r][Id(p)] = p /\ receipt[r][Id(p)] = None
                  /\ o \in Inputs(p) /\ lock[r][o] = OwnLock(r, p, o)
          BY Zenon, <3>1, <3>5 DEF LockInv
        <4>2. receipt'[r][Id(p)] = None /\ p \in voted'[r]
          BY Zenon, <1>1, <1>3, <4>1
        <4> QED BY Zenon, <3>1, <3>2, <3>3, <4>1, <4>2
      <3> QED BY Zenon, <1>7, <3>1, <3>4, <3>5
    <2> QED BY Zenon, <2>1, <2>2
  <1> QED BY Zenon, <1>10, <1>11

\* Activating the next epoch: no lock is current any more.
LEMMA VoteActivate ==
    ASSUME TypeOK, NEW r \in Honest, NEW next, VoteInv(r), LockInv(r), Activate(r, next)
    PROVE  VoteInv(r)' /\ LockInv(r)'
PROOF
  <1>1. /\ epoch'[r] = epoch[r] + 1 /\ epoch[r] \in Nat
        /\ UNCHANGED <<head, nonce, lock, nonceLock, receipt, prepared, voted>>
    BY DEF Activate, rows, TypeOK, Epoch
  <1>2. Finalized(r)' = Finalized(r)
    BY Zenon, <1>1 DEF Finalized, Id
  <1>3. \A q \in voted[r] : EpochOf(q) <= epoch[r] /\ EpochOf(q) \in Nat
    BY IntentType DEF VoteInv, TypeOK, Epoch
  <1>4. \A q \in voted[r] : EpochOf(q) < epoch'[r] /\ EpochOf(q) # epoch'[r]
    BY <1>1, <1>3
  <1>5. \A q \in voted[r] : Waiting(r, q) => Waiting(r, q)'
    BY Zenon, <1>1, <1>4 DEF Waiting, NextNonce, Id, Slot, EpochOf
  <1>6. VoteInv(r)'
    <2>1. \A q \in voted'[r] : q \in Finalized(r)' \/ Waiting(r, q)'
      BY Zenon, <1>1, <1>2, <1>5 DEF VoteInv
    <2>2. \A q \in voted'[r] : EpochOf(q) <= epoch'[r]
      BY <1>1, <1>3
    <2> QED BY Zenon, <1>1, <2>1, <2>2 DEF VoteInv, EpochOf, Compete, SameNonce, Slot, Spends, Writes
  <1>7. LockInv(r)'
    <2>1. \A o \in Object : lock[r][o] # None =>
              lock[r][o].epoch <= epoch[r] /\ lock[r][o].epoch \in Nat
      BY DEF LockInv, TypeOK, LockShape, Epoch
    <2>2. \A o \in Object : lock'[r][o] # None =>
              lock'[r][o].epoch <= epoch'[r] /\ lock'[r][o].epoch # epoch'[r]
      BY <1>1, <2>1
    <2> QED BY Zenon, <2>2 DEF LockInv
  <1> QED BY Zenon, <1>6, <1>7

\* The inductive invariant holds initially and is kept by every step.
LEMMA InvInit == Init => IInv
PROOF
  <1> SUFFICES ASSUME Init, NEW r \in Honest PROVE LedgerInv(r) /\ VoteInv(r) /\ LockInv(r)
    BY Zenon, TypeInit DEF IInv
  <1>1. Finalized(r) = {}
    BY Zenon, IntentType, FastPathAssumption DEF Init, Finalized
  <1>2. \A o \in Object : head[r][o] = Genesis /\ lock[r][o] = None
    BY Zenon DEF Init
  <1>3. \A s \in NonceKey : nonce[r][s] = 0
    BY Zenon DEF Init
  <1>4. LedgerInv(r)
    BY <1>1, <1>2, <1>3 DEF Init, LedgerInv, Ref
  <1>5. VoteInv(r) /\ LockInv(r)
    BY Zenon, <1>2 DEF Init, VoteInv, LockInv
  <1> QED BY Zenon, <1>4, <1>5

\* Every step keeps it.
LEMMA InvNext == ASSUME UniqueIds PROVE IInv /\ [Next]_vars => IInv'
PROOF
  <1> SUFFICES ASSUME IInv, [Next]_vars PROVE IInv'
    BY Zenon
  <1> USE DEF IInv
  <1>1. CASE UNCHANGED vars
    <2>1. TypeOK'
      BY Zenon, <1>1 DEF TypeOK, vars, rows
    <2>2. ASSUME NEW t \in Honest PROVE LedgerInv(t)' /\ VoteInv(t)' /\ LockInv(t)'
      BY Zenon, <1>1, LedgerFrame, VoteFrame DEF vars, rows
    <2> QED BY Zenon, <2>1, <2>2
  <1>2. ASSUME NEW r \in Honest, NEW q \in Request, Prepare(r, q) PROVE IInv'
    <2>1. TypeOK'
      BY Zenon, <1>2, TypePrepare
    <2>2. ASSUME NEW t \in Honest PROVE LedgerInv(t)'
      <3>1. head'[t] = head[t] /\ nonce'[t] = nonce[t] /\ receipt'[t] = receipt[t]
        BY Zenon, <1>2 DEF Prepare
      <3> QED BY Zenon, <3>1, LedgerFrame
    <2>3. ASSUME NEW t \in Honest \ {r} PROVE VoteInv(t)' /\ LockInv(t)'
      <3>1. /\ head'[t] = head[t] /\ nonce'[t] = nonce[t] /\ receipt'[t] = receipt[t]
            /\ lock'[t] = lock[t] /\ nonceLock'[t] = nonceLock[t] /\ epoch'[t] = epoch[t]
            /\ prepared'[t] = prepared[t] /\ voted'[t] = voted[t]
        BY Zenon, <1>2 DEF Prepare, TypeOK
      <3> QED BY Zenon, <3>1, VoteFrame
    <2> QED BY Zenon, <1>2, <2>1, <2>2, <2>3, VotePrepare
  <1>3. ASSUME NEW r \in Honest, NEW q \in Request,
               ApplyPrepared(r, q) \/ ApplyRecovery(r, q) \/ Direct(r, q)
        PROVE  IInv'
    <2>1. TypeOK'
      BY Zenon, <1>3, TypeApply
    <2>2. Finalize(r, q) /\ Admit(r, q)
      BY Zenon, <1>3, Applies
    <2>3. LedgerInv(r)' /\ VoteInv(r)' /\ LockInv(r)'
      BY Zenon, <1>3, <2>2, LedgerFinalize, VoteApply, LockApply
    <2>4. ASSUME NEW t \in Honest \ {r} PROVE LedgerInv(t)' /\ VoteInv(t)' /\ LockInv(t)'
      <3>1. head'[t] = head[t] /\ nonce'[t] = nonce[t] /\ receipt'[t] = receipt[t]
        BY Zenon, <2>2 DEF Finalize, TypeOK
      <3>2. lock'[t] = lock[t] /\ nonceLock'[t] = nonceLock[t]
        BY Zenon, <1>3, Applies
      <3>3. UNCHANGED <<epoch, prepared, voted>>
        BY Zenon, <1>3, Applies
      <3>4. epoch'[t] = epoch[t] /\ prepared'[t] = prepared[t] /\ voted'[t] = voted[t]
        BY Zenon, <3>3
      <3> QED BY Zenon, <3>1, <3>2, <3>4, LedgerFrame, VoteFrame
    <2> QED BY Zenon, <2>1, <2>3, <2>4
  <1>4. ASSUME NEW r \in Honest, NEW next, ProposeAndVote(r, next) PROVE IInv'
    <2>1. TypeOK'
      BY Zenon, <1>4, TypeTransition
    <2>2. ASSUME NEW t \in Honest PROVE LedgerInv(t)' /\ VoteInv(t)' /\ LockInv(t)'
      BY Zenon, <1>4, LedgerFrame, VoteFrame DEF ProposeAndVote, rows
    <2> QED BY Zenon, <2>1, <2>2
  <1>5. ASSUME NEW r \in Honest, NEW next, Activate(r, next) PROVE IInv'
    <2>1. TypeOK'
      BY Zenon, <1>5, TypeTransition
    <2>2. ASSUME NEW t \in Honest PROVE LedgerInv(t)'
      BY Zenon, <1>5, LedgerFrame DEF Activate, rows
    <2>3. ASSUME NEW t \in Honest \ {r} PROVE VoteInv(t)' /\ LockInv(t)'
      <3>1. epoch'[t] = epoch[t]
        BY Zenon, <1>5 DEF Activate, TypeOK
      <3> QED BY Zenon, <1>5, <3>1, VoteFrame DEF Activate, rows
    <2> QED BY Zenon, <1>5, <2>1, <2>2, <2>3, VoteActivate
  <1> QED BY Zenon, <1>1, <1>2, <1>3, <1>4, <1>5 DEF Next

\* The inductive invariant holds in every behaviour.
LEMMA Invariance == ASSUME UniqueIds PROVE Spec => []IInv
  BY InvInit, InvNext, PTL DEF Spec

-------------------------------------------------------------------------------
(***************************************************************************)
(* What follows from the invariant.                                        *)
(***************************************************************************)
\* A certificate of p and one of q, under the validator set of their epoch, have
\* an honest signer in common.
LEMMA CommonVoter ==
    ASSUME FaultBound, AgreedCommittees, NEW p \in Request, NEW q \in Request,
           EpochOf(p) = EpochOf(q), CertifiedSomewhere(p), CertifiedSomewhere(q)
    PROVE  \E v \in Honest : {p, q} \subseteq voted[v]
PROOF
  <1>1. EpochOf(p) \in Epoch
    BY Zenon, IntentType
  <1>2. PICK C \in Committees[EpochOf(p)] : Certified(p, C) /\ Certified(q, C)
    BY Zenon, <1>1 DEF CertifiedSomewhere, AgreedCommittees
  <1>3. C \in SUBSET Validator /\ C # {}
    BY Zenon, <1>1, FastPathAssumption
  <1>4. PowerOf(Faulty \cap C) <= (PowerOf(C) - 1) \div 3 /\ Faulty \cap C \in SUBSET Validator
    BY Zenon, <1>1, <1>3 DEF FaultBound
  <1>5. PICK v \in ({v \in Honest \cap C : p \in voted[v]} \cup (Faulty \cap C))
                   \cap ({v \in Honest \cap C : q \in voted[v]} \cup (Faulty \cap C)) :
            v \notin Faulty \cap C
    BY <1>2, <1>3, <1>4, CommitteeIntersection DEF Certified
  <1> QED BY Zenon, <1>5

\* No honest validator has voted for two requests that compete.
VotesAgree == \A v \in Honest : \A p, q \in voted[v] : Compete(p, q) => p = q

\* Certified requests of an epoch never compete for a nonce or a reference.
LEMMA NoCompetingCertificates ==
    ASSUME FaultBound, AgreedCommittees, VotesAgree, NEW p \in Request, NEW q \in Request,
           Compete(p, q), CertifiedSomewhere(p), CertifiedSomewhere(q)
    PROVE  p = q
PROOF
  <1>1. EpochOf(p) = EpochOf(q)
    BY Zenon DEF Compete, SameNonce, Slot, EpochOf
  <1>2. PICK v \in Honest : {p, q} \subseteq voted[v]
    BY Zenon, <1>1, CommonVoter
  <1> QED BY Zenon, <1>2 DEF VotesAgree

NoCompetition ==
    \A p, q \in Request :
        Compete(p, q) /\ CertifiedSomewhere(p) /\ CertifiedSomewhere(q) => p = q

\* No two certificates compete where the inductive invariant holds.
LEMMA InvNoCompetition ==
    ASSUME FaultBound, AgreedCommittees PROVE IInv => NoCompetition
PROOF
  <1>1. IInv => VotesAgree
    BY Zenon DEF IInv, VoteInv, VotesAgree
  <1> QED BY Zenon, <1>1, NoCompetingCertificates DEF NoCompetition

\* Certificates are unique per sender, epoch and nonce.
THEOREM CertificatesUnique ==
    ASSUME UniqueIds, FaultBound, AgreedCommittees PROVE Spec => []OneCertifiedPerNonce
PROOF
  <1>1. IInv => OneCertifiedPerNonce
    BY InvNoCompetition, Zenon DEF NoCompetition, OneCertifiedPerNonce, Compete
  <1> QED BY <1>1, Invariance, PTL

\* No reference is rewritten by two certified requests of one epoch.
THEOREM ReferencesConsumedOnce ==
    ASSUME UniqueIds, FaultBound, AgreedCommittees PROVE Spec => []ConsumedOncePerEpoch
PROOF
  <1>1. IInv => ConsumedOncePerEpoch
    BY InvNoCompetition, Zenon DEF NoCompetition, ConsumedOncePerEpoch, Compete, SamePin, Spends
  <1> QED BY <1>1, Invariance, PTL

\* Each replica finalizes one request per nonce, without gaps, by whatever path.
THEOREM FinalizedExactlyOnce == ASSUME UniqueIds PROVE Spec => []ExactlyOnce
PROOF
  <1>1. ASSUME IInv, NEW r \in Honest, NEW s \in NonceKey
        PROVE  {Intent[q].nonce : q \in {p \in Finalized(r) : Slot(p) = s}}
                  = 0..(nonce[r][s] - 1)
    <2>1. nonce[r][s] \in Nat /\ Finalized(r) \subseteq Request
      BY Zenon, <1>1 DEF IInv, TypeOK, Finalized
    <2>2. \A q \in Finalized(r) : Intent[q].nonce \in Nat /\ Intent[q].nonce < nonce[r][Slot(q)]
      BY Zenon, <1>1, <2>1, IntentType DEF IInv, LedgerInv
    <2>3. \A n \in Nat : n < nonce[r][s] =>
              \E q \in Finalized(r) : Slot(q) = s /\ Intent[q].nonce = n
      BY <1>1 DEF IInv, LedgerInv
    <2> QED BY <2>1, <2>2, <2>3
  <1>2. IInv => ExactlyOnce
    BY <1>1, Zenon DEF ExactlyOnce, IInv, LedgerInv
  <1> QED BY <1>2, Invariance, PTL

\* A replica that voted in its current epoch can apply the certificate.
THEOREM VotesCanFinish == ASSUME UniqueIds PROVE Spec => []VotedCanFinish
PROOF
  <1>1. IInv => VotedCanFinish
    BY Zenon DEF IInv, VoteInv, Finalized, Waiting, VotedCanFinish, Admit, CurrentEpoch
  <1> QED BY <1>1, Invariance, PTL

\* Every current lock belongs to a request that waits for its certificate.
THEOREM LocksAreOwned == ASSUME UniqueIds PROVE Spec => []NoOrphanLock
PROOF
  <1>1. IInv => NoOrphanLock
    BY Zenon DEF IInv, LockInv, NoOrphanLock
  <1> QED BY <1>1, Invariance, PTL

\* The heads of a replica are a function of what it has finalized.
THEOREM HeadsFollowReceipts == ASSUME UniqueIds PROVE Spec => []ReplicasAgree
PROOF
  <1>1. ASSUME IInv, NEW r \in Honest, NEW t \in Honest, Finalized(r) = Finalized(t)
        PROVE  head[r] = head[t]
    <2>1. head[r] \in [Object -> Ref] /\ head[t] \in [Object -> Ref]
      BY Zenon, <1>1 DEF IInv, TypeOK
    <2>2. \A o \in Object : head[r][o] = head[t][o]
      BY <1>1, <2>1 DEF IInv, LedgerInv
    <2> QED BY <2>1, <2>2
  <1>2. IInv => ReplicasAgree
    BY <1>1, Zenon DEF ReplicasAgree
  <1> QED BY <1>2, Invariance, PTL

-------------------------------------------------------------------------------
(***************************************************************************)
(* Refinement of the ledger.                                               *)
(***************************************************************************)
\* A genesis store has no receipt.
LEMMA NothingFinalized == ASSUME Init, NEW r \in Honest PROVE Finalized(r) = {}
PROOF
  <1>1. ASSUME NEW q \in Request PROVE receipt[r][Id(q)] # q
    <2>1. Id(q) \in RequestId /\ q # None
      BY Zenon, IntentType, FastPathAssumption
    <2>2. receipt = [t \in Honest |-> [i \in RequestId |-> None]]
      BY Zenon DEF Init
    <2>3. receipt[r] = [i \in RequestId |-> None]
      BY Zenon, <2>2
    <2> QED BY Zenon, <2>1, <2>3
  <1> QED BY Zenon, <1>1 DEF Finalized

\* Nothing is decided or executed in a genesis store: the faulty are no quorum.
LEMMA LedgerInit == ASSUME FaultBound PROVE Init => Ledger!Init
PROOF
  <1> SUFFICES ASSUME Init PROVE Ledger!Init
    BY Zenon
  <1>1. ASSUME NEW q \in Request, CertifiedSomewhere(q) PROVE FALSE
    <2>1. EpochOf(q) \in Epoch
      BY Zenon, IntentType
    <2>2. PICK C \in Committees[EpochOf(q)] : Certified(q, C)
      BY Zenon, <1>1 DEF CertifiedSomewhere
    <2>3. C \in SUBSET Validator /\ C # {} /\ Faulty \cap C \in SUBSET Validator
      BY Zenon, <2>1, FastPathAssumption
    <2>4. Faulty \cap C \in QuorumOf(C)
      <3>1. {v \in Honest \cap C : q \in voted[v]} = {}
        BY Zenon DEF Init
      <3> QED BY Zenon, <2>2, <3>1 DEF Certified
    <2>5. PowerOf(Faulty \cap C) <= (PowerOf(C) - 1) \div 3
      BY Zenon, <2>1 DEF FaultBound
    <2> QED BY Zenon, <2>3, <2>4, <2>5, CommitteeIntersection
  <1>2. \A r \in Honest : Finalized(r) = {}
    BY Zenon, NothingFinalized
  <1> QED BY Zenon, <1>1, <1>2 DEF Ledger!Init

\* Steps that add no vote and no receipt leave the ledger alone.
LEMMA LedgerStutters ==
    ASSUME UNCHANGED <<voted, receipt>>
    PROVE  UNCHANGED Ledger!vars
PROOF
  <1>1. \A q \in Request : CertifiedSomewhere(q)' <=> CertifiedSomewhere(q)
    BY Zenon DEF CertifiedSomewhere, Certified, EpochOf
  <1>2. \A r \in Honest : Finalized(r)' = Finalized(r)
    BY Zenon DEF Finalized, Id
  <1> QED BY Zenon, <1>1, <1>2 DEF Ledger!vars

\* A certificate stays one while votes are added.
LEMMA CertifiedStays ==
    ASSUME NEW q \in Request, CertifiedSomewhere(q),
           \A v \in Honest : voted[v] \subseteq voted'[v]
    PROVE  CertifiedSomewhere(q)'
PROOF
  <1>1. PICK C \in Committees[EpochOf(q)] : Certified(q, C)
    BY Zenon DEF CertifiedSomewhere
  <1> DEFINE S == {v \in Honest \cap C : q \in voted[v]} \cup (Faulty \cap C)
             T == {v \in Honest \cap C : q \in voted'[v]} \cup (Faulty \cap C)
  <1>2. C \in SUBSET Validator
    BY Zenon, IntentType, FastPathAssumption
  <1>3. S \subseteq T /\ T \in SUBSET C
    BY Zenon
  <1>4. S \in QuorumOf(C)
    BY Zenon, <1>1 DEF Certified
  <1> HIDE DEF S, T
  <1>5. T \in QuorumOf(C)
    BY Zenon, <1>2, <1>3, <1>4, QuorumOfMonotone
  <1> QED BY Zenon, <1>5 DEF Certified, CertifiedSomewhere, EpochOf, T

\* A vote decides at most the request it is for.
LEMMA LedgerDecide ==
    ASSUME TypeOK, NoCompetition',
           NEW r \in Honest, NEW q \in Request, Prepare(r, q)
    PROVE  [Ledger!Next]_(Ledger!vars)
PROOF
  <1> DEFINE D == {p \in Request : CertifiedSomewhere(p)}
             E == {p \in Request : CertifiedSomewhere(p)'}
  <1>1. \A v \in Honest, p \in Request : p # q => (p \in voted'[v] <=> p \in voted[v])
    BY Zenon DEF Prepare, TypeOK
  <1>2. \A p \in Request : p # q => (CertifiedSomewhere(p)' <=> CertifiedSomewhere(p))
    <2> SUFFICES ASSUME NEW p \in Request, p # q, NEW C
                 PROVE  Certified(p, C)' <=> Certified(p, C)
      BY Zenon DEF CertifiedSomewhere, EpochOf
    <2>1. {v \in Honest \cap C : p \in voted'[v]} = {v \in Honest \cap C : p \in voted[v]}
      BY Zenon, <1>1
    <2> QED BY Zenon, <2>1 DEF Certified
  <1>3. [t \in Honest |-> Finalized(t)]' = [t \in Honest |-> Finalized(t)]
    BY Zenon DEF Prepare, Finalized, Id
  <1>4. CASE E = D
    BY Zenon, <1>3, <1>4 DEF Ledger!vars
  <1>5. CASE E # D
    <2>1. q \in D => E = D
      <3>1. q \in D => CertifiedSomewhere(q)'
        <4>1. \A v \in Honest : voted[v] \subseteq voted'[v]
          BY Zenon DEF Prepare, TypeOK
        <4> QED BY Zenon, <4>1, CertifiedStays
      <3> QED BY Zenon, <1>2, <3>1
    <2>2. q \notin D /\ E = D \cup {q} /\ CertifiedSomewhere(q)'
      BY Zenon, <1>2, <1>5, <2>1
    <2>3. \A p \in D : ~Compete(p, q)
      <3> SUFFICES ASSUME NEW p \in D, Compete(p, q) PROVE FALSE
        BY Zenon
      <3>1. p # q /\ CertifiedSomewhere(p)' /\ p \in Request
        BY Zenon, <1>2, <2>2
      <3>2. Compete(p, q)'
        BY Zenon DEF Compete, SameNonce, Slot, EpochOf, Spends, Writes
      <3> QED BY Zenon, <2>2, <3>1, <3>2 DEF NoCompetition
    <2>4. \A p \in D : ~Ledger!Conflict(p, q)
      BY Zenon, <2>3 DEF Ledger!Conflict, Ledger!SameSlot, Ledger!Rewrites, Compete, SameNonce,
                  Slot, EpochOf, Spends, Writes
    <2>5. Ledger!Decide(q)
      BY Zenon, <1>3, <2>2, <2>4 DEF Ledger!Decide
    <2> QED BY Zenon, <2>5 DEF Ledger!Next
  <1> QED BY Zenon, <1>4, <1>5

\* Finalizing executes the request over references the replica has not spent.
LEMMA LedgerExecute ==
    ASSUME TypeOK, NEW r \in Honest, NEW q \in Request, LedgerInv(r),
           CertifiedSomewhere(q) \/ DirectPath,
           Admit(r, q), Finalize(r, q), voted' = voted
    PROVE  Ledger!Next
PROOF
  <1> DEFINE D == {p \in Request : CertifiedSomewhere(p)}
             F == [t \in Honest |-> Finalized(t)]
  <1>2. D' = D
    BY Zenon DEF CertifiedSomewhere, Certified, EpochOf
  <1>3. F' = [F EXCEPT ![r] = Finalized(r) \cup {q}] /\ F[r] = Finalized(r)
    BY Zenon, FinalizedGrows
  <1>4. q \in D \/ DirectPath
    BY Zenon
  <1>5. nonce[r][Slot(q)] = Intent[q].nonce /\ Intent[q].nonce \in Nat /\ Slot(q) \in NonceKey
    BY Zenon, IntentType DEF Admit, NextNonce
  <1>6. \A p, x : Ledger!SameSlot(p, x) <=> Slot(p) = Slot(x)
    BY Zenon DEF Ledger!SameSlot, Slot
  <1>7. \A p \in Finalized(r) : Ledger!SameSlot(p, q) => Intent[p].nonce < Intent[q].nonce
    BY Zenon, <1>5, <1>6 DEF LedgerInv
  <1>8. \A n \in 0..(Intent[q].nonce - 1) :
            \E p \in Finalized(r) : Ledger!SameSlot(p, q) /\ Intent[p].nonce = n
    <2> SUFFICES ASSUME NEW n \in 0..(Intent[q].nonce - 1)
                 PROVE  \E p \in Finalized(r) : Slot(p) = Slot(q) /\ Intent[p].nonce = n
      BY Zenon, <1>6
    <2>1. n \in Nat /\ n < nonce[r][Slot(q)]
      BY <1>5
    <2> QED BY Zenon, <1>5, <2>1 DEF LedgerInv
  <1>9. \A o \in Inputs(q) : Ledger!Unspent(Finalized(r), o, Intent[q].inputs[o])
    <2> SUFFICES ASSUME NEW o \in Inputs(q)
                 PROVE  Ledger!Unspent(Finalized(r), o, Intent[q].inputs[o])
      BY Zenon
    <2>1. o \in Object /\ Intent[q].inputs[o] \in Ref /\ head[r][o] = Intent[q].inputs[o]
      BY Zenon, IntentType DEF Admit, PinsHold
    <2> QED BY Zenon, <2>1 DEF LedgerInv, Ledger!Unspent, Ledger!Rewrites, Spends, Writes
  <1>10. Ledger!Execute(r, q)
    <2> HIDE DEF D, F
    <2>1. F' = [F EXCEPT ![r] = F[r] \cup {q}]
      BY Zenon, <1>3
    <2>2. /\ \A p \in F[r] : Ledger!SameSlot(p, q) => Intent[p].nonce < Intent[q].nonce
          /\ \A n \in 0..(Intent[q].nonce - 1) :
                \E p \in F[r] : Ledger!SameSlot(p, q) /\ Intent[p].nonce = n
          /\ \A o \in DOMAIN Intent[q].inputs :
                Ledger!Unspent(F[r], o, Intent[q].inputs[o])
      BY Zenon, <1>3, <1>7, <1>8, <1>9 DEF Inputs
    <2> QED BY Zenon, <1>2, <1>4, <2>1, <2>2 DEF Ledger!Execute, D, F
  <1> QED BY Zenon, <1>10 DEF Ledger!Next

\* Every step of the fast path is a step of the ledger, or leaves it alone.
LEMMA LedgerStep ==
    ASSUME UniqueIds, FaultBound, AgreedCommittees
    PROVE  IInv /\ IInv' /\ [Next]_vars => [Ledger!Next]_(Ledger!vars)
PROOF
  <1> SUFFICES ASSUME IInv, IInv', [Next]_vars PROVE [Ledger!Next]_(Ledger!vars)
    BY Zenon
  <1>1. CASE UNCHANGED vars
    BY Zenon, <1>1, LedgerStutters DEF vars, rows
  <1>2. ASSUME NEW r \in Honest, NEW q \in Request, Prepare(r, q)
        PROVE  [Ledger!Next]_(Ledger!vars)
    <2>1. IInv' => NoCompetition'
      BY InvNoCompetition, PTL
    <2> QED BY Zenon, <1>2, <2>1, LedgerDecide DEF IInv
  <1>3. ASSUME NEW r \in Honest, NEW q \in Request,
               ApplyPrepared(r, q) \/ ApplyRecovery(r, q) \/ Direct(r, q)
        PROVE  Ledger!Next
    <2>1. TypeOK /\ LedgerInv(r) /\ Finalize(r, q) /\ Admit(r, q) /\ voted' = voted
      BY Zenon, <1>3 DEF IInv, ApplyPrepared, ApplyRecovery, Direct
    <2>2. CertifiedSomewhere(q) \/ DirectPath
      <3>1. members[r] \in Committees[EpochOf(q)]
        BY Zenon, <2>1 DEF TypeOK, Admit, CurrentEpoch
      <3> QED BY Zenon, <1>3, <3>1 DEF CertifiedSomewhere, ApplyPrepared, ApplyRecovery, Direct
    <2> QED BY Zenon, <2>1, <2>2, LedgerExecute
  <1>4. ASSUME NEW r \in Honest, NEW next, ProposeAndVote(r, next) \/ Activate(r, next)
        PROVE  UNCHANGED Ledger!vars
    BY Zenon, <1>4, LedgerStutters DEF ProposeAndVote, Activate, rows
  <1> QED BY Zenon, <1>1, <1>2, <1>3, <1>4 DEF Next

\* Prepare, apply, recovery, direct execution and epoch activation implement the
\* ledger of spent references.
THEOREM FastPathRefinesLedger ==
    ASSUME UniqueIds, FaultBound, AgreedCommittees PROVE Spec => RefinesLedger
PROOF
  <1>1. Init => Ledger!Init
    BY Zenon, LedgerInit
  <1>2. IInv /\ IInv' /\ [Next]_vars => [Ledger!Next]_(Ledger!vars)
    BY Zenon, LedgerStep
  <1>3. Spec => []IInv
    BY Invariance, Zenon
  <1> QED BY <1>1, <1>2, <1>3, PTL DEF Spec, RefinesLedger, Ledger!Spec
===============================================================================
