------------------------------- MODULE FastPath -------------------------------
(***************************************************************************)
(* Certified execution of sender-owned objects (fast_path.rs), the direct  *)
(* paid path that shares its rows (paid_execution.rs), the lock fences     *)
(* both go through (mutation_fence.rs) and the outgoing-set-certified      *)
(* epoch transition (epoch_transition.rs) of the historical profile.       *)
(*                                                                         *)
(* A request is a signed paid intent.  It pins each of its inputs to an    *)
(* object reference; a reference is named by the request that wrote it, or *)
(* Genesis.  The outcome of an execution is a function of what it pins, so *)
(* the intent says which inputs it rewrites and to whom they then belong:  *)
(* a charged failure rewrites only the fee source, a read rewrites         *)
(* nothing.  A handler asserts every row it reads in its commit, so it is  *)
(* one step; the one row prepare does not assert is the receipt.           *)
(***************************************************************************)
EXTENDS ValidatorSet

CONSTANTS
    Faulty,         \* validators that may sign anything
    Sender,
    Object,
    Owner,          \* [Object -> Sender]: the owner at genesis
    RequestId,
    Request,        \* signed paid intents
    Intent,         \* what each of them says
    Genesis,        \* the reference of an object no request has written
    None,           \* an absent row
    MaxEpoch,       \* bound on the epochs explored
    Committees,     \* the validator sets operators may propose for each epoch
    DirectPath      \* whether the direct paid path is used

Epoch == 0..MaxEpoch

Ref == Request \cup {Genesis}

IntentShape ==
    [id     : RequestId,
     sender : Sender,
     nonce  : Nat,
     epoch  : Epoch,
     inputs : UNION {[S -> Ref] : S \in SUBSET Object},
     writes : UNION {[S -> Sender] : S \in SUBSET Object}]

NonceKey == Sender \X Epoch

LockShape == [id : RequestId, ref : Ref, epoch : Epoch]

ASSUME FastPathAssumption ==
    /\ Faulty \subseteq Validator
    /\ Owner \in [Object -> Sender]
    /\ Intent \in [Request -> IntentShape]
    /\ \A q \in Request : DOMAIN Intent[q].writes \subseteq DOMAIN Intent[q].inputs
    /\ MaxEpoch \in Nat
    /\ Committees \in [Epoch -> SUBSET SUBSET Validator]
    /\ \A e \in Epoch : {} \notin Committees[e]
    /\ \E C \in SUBSET Validator : Committees[0] = {C}
    /\ DirectPath \in BOOLEAN
    /\ None \notin Request \cup RequestId \cup LockShape
    /\ Genesis \notin Request

Honest == Validator \ Faulty

(***************************************************************************)
(* What a deployment is expected to provide: less than a third of each     *)
(* validator set is faulty, the operators of an epoch agree on the next    *)
(* set, and senders do not reuse request ids.                              *)
(***************************************************************************)
FaultBound ==
    \A e \in Epoch : \A C \in Committees[e] :
        PowerOf(Faulty \cap C) <= (PowerOf(C) - 1) \div 3

AgreedCommittees == \A e \in Epoch : \A C, D \in Committees[e] : C = D

UniqueIds == \A p, q \in Request : Intent[p].id = Intent[q].id => p = q

Id(q) == Intent[q].id
Inputs(q) == DOMAIN Intent[q].inputs
Writes(q) == DOMAIN Intent[q].writes
EpochOf(q) == Intent[q].epoch
Slot(q) == <<Intent[q].sender, Intent[q].epoch>>   \* key of the nonce rows

VARIABLES
    epoch,        \* the epoch record
    members,      \* the validator set row of the current epoch
    head,         \* object heads, as references
    nonce,        \* next nonce per sender and epoch
    lock,         \* object locks
    nonceLock,    \* nonce lock per sender and epoch: the owner's request id
    prepared,     \* prepared record per request id
    receipt,      \* receipt per request id: the request it finalized
    certificate,  \* requests with a certificate record: finalized by apply
    voted,        \* votes in prepared records: all that prepare ever signs
    proposed      \* epoch-transition votes: the sets proposed per epoch

rows == <<head, nonce, lock, nonceLock, receipt>>
vars == <<epoch, members, rows, prepared, certificate, voted, proposed>>

\* Every row of every replica has the type its codec gives it.
TypeOK ==
    /\ epoch \in [Honest -> Epoch]
    /\ members \in [Honest -> SUBSET Validator]
    /\ \A r \in Honest : members[r] \in Committees[epoch[r]]
    /\ head \in [Honest -> [Object -> Ref]]
    /\ nonce \in [Honest -> [NonceKey -> Nat]]
    /\ lock \in [Honest -> [Object -> LockShape \cup {None}]]
    /\ nonceLock \in [Honest -> [NonceKey -> RequestId \cup {None}]]
    /\ prepared \in [Honest -> [RequestId -> Request \cup {None}]]
    /\ receipt \in [Honest -> [RequestId -> Request \cup {None}]]
    /\ certificate \in [Honest -> SUBSET Request]
    /\ voted \in [Honest -> SUBSET Request]
    /\ proposed \in [Honest -> SUBSET (Epoch \X SUBSET Validator)]

Init ==
    /\ epoch = [r \in Honest |-> 0]
    /\ members \in [Honest -> Committees[0]]
    /\ head = [r \in Honest |-> [o \in Object |-> Genesis]]
    /\ nonce = [r \in Honest |-> [s \in NonceKey |-> 0]]
    /\ lock = [r \in Honest |-> [o \in Object |-> None]]
    /\ nonceLock = [r \in Honest |-> [s \in NonceKey |-> None]]
    /\ prepared = [r \in Honest |-> [i \in RequestId |-> None]]
    /\ receipt = [r \in Honest |-> [i \in RequestId |-> None]]
    /\ certificate = [r \in Honest |-> {}]
    /\ voted = [r \in Honest |-> {}]
    /\ proposed = [r \in Honest |-> {}]

-------------------------------------------------------------------------------
(***************************************************************************)
(* Certificates.  A relay may form any certificate the votes allow.        *)
(***************************************************************************)
\* verify_certificate under the set C of the applying replica.
Certified(q, C) ==
    {v \in Honest \cap C : q \in voted[v]} \cup (Faulty \cap C) \in QuorumOf(C)

TransitionCertified(e, next, C) ==
    {v \in Honest \cap C : <<e, next>> \in proposed[v]} \cup (Faulty \cap C)
        \in QuorumOf(C)

(***************************************************************************)
(* The lock fences: what a handler accepts in the lock row of each input.  *)
(***************************************************************************)
NonceUnlocked(r, q) == nonceLock[r][Slot(q)] = None

Unlocked(r, q) ==
    \A o \in Inputs(q) : lock[r][o] # None => lock[r][o].epoch < epoch[r]

\* Mutant: a lock is stamped with the next epoch.
OwnLockEarly(r, q, o) ==
    [id |-> Id(q), ref |-> Intent[q].inputs[o], epoch |-> epoch[r] + 1]

OwnLock(r, q, o) == [id |-> Id(q), ref |-> Intent[q].inputs[o], epoch |-> epoch[r]]

HoldsLocks(r, q) ==
    /\ nonceLock[r][Slot(q)] = Id(q)
    /\ \A o \in Inputs(q) : lock[r][o] = OwnLock(r, q, o)

(***************************************************************************)
(* Admission: the current epoch, the next nonce, and every input at the    *)
(* pinned reference and owned by the sender.                               *)
(***************************************************************************)
OwnerOf(o, ref) == IF ref = Genesis THEN Owner[o] ELSE Intent[ref].writes[o]

CurrentEpoch(r, q) == epoch[r] = EpochOf(q)

NextNonce(r, q) == nonce[r][Slot(q)] = Intent[q].nonce

PinsHold(r, q) ==
    \A o \in Inputs(q) :
        /\ head[r][o] = Intent[q].inputs[o]
        /\ OwnerOf(o, head[r][o]) = Intent[q].sender

\* Mutant: the nonce need not be the next one.
AdmitAnyNonce(r, q) == CurrentEpoch(r, q) /\ PinsHold(r, q)

\* Mutant: the pinned references are not compared with the heads.
AdmitUnpinned(r, q) == CurrentEpoch(r, q) /\ NextNonce(r, q)

\* Mutant: an intent of an epoch already left is still admitted.
AdmitOlderEpoch(r, q) == epoch[r] >= EpochOf(q) /\ NextNonce(r, q) /\ PinsHold(r, q)

Admit(r, q) == CurrentEpoch(r, q) /\ NextNonce(r, q) /\ PinsHold(r, q)

\* Mutant: the heads are left as they were.
FinalizeStaleHead(r, q) ==
    /\ receipt[r][Id(q)] = None
    /\ nonce' = [nonce EXCEPT ![r][Slot(q)] = @ + 1]
    /\ receipt' = [receipt EXCEPT ![r][Id(q)] = q]
    /\ UNCHANGED head

\* The effects of a finalized request and its receipt.
Finalize(r, q) ==
    /\ receipt[r][Id(q)] = None
    /\ head' = [head EXCEPT ![r] =
                  [o \in Object |-> IF o \in Writes(q) THEN q ELSE @[o]]]
    /\ nonce' = [nonce EXCEPT ![r][Slot(q)] = @ + 1]
    /\ receipt' = [receipt EXCEPT ![r][Id(q)] = q]

\* Mutant: the object locks are left behind.
KeepLocks(r, q) == UNCHANGED lock

ClearLocks(r, q) ==
    lock' = [lock EXCEPT ![r] =
               [o \in Object |-> IF o \in Inputs(q) THEN None ELSE @[o]]]

-------------------------------------------------------------------------------
\* A prepared record of the current epoch is replayed, never prepared again.
Unprepared(r, q) ==
    LET p == prepared[r][Id(q)] IN p # None => EpochOf(p) < epoch[r]

\* prepare read the receipt row some time after the epoch row it asserts: a
\* request may have been finalized under the same id since.
NoReceiptWhenRead(r, q) ==
    LET f == receipt[r][Id(q)] IN f # None => EpochOf(f) = epoch[r]

(***************************************************************************)
(* prepare: sign the vote, take the nonce lock and a lock on every input,  *)
(* and store the vote in the prepared record.                              *)
(***************************************************************************)
\* Mutant: the nonce lock of another prepared request is overwritten.
PrepareOverNonceLock(r, q) ==
    /\ r \in members[r]
    /\ Unprepared(r, q) /\ NoReceiptWhenRead(r, q)
    /\ Admit(r, q)
    /\ Unlocked(r, q)
    /\ nonceLock' = [nonceLock EXCEPT ![r][Slot(q)] = Id(q)]
    /\ lock' = [lock EXCEPT ![r] =
                  [o \in Object |-> IF o \in Inputs(q) THEN OwnLock(r, q, o) ELSE @[o]]]
    /\ prepared' = [prepared EXCEPT ![r][Id(q)] = q]
    /\ voted' = [voted EXCEPT ![r] = @ \cup {q}]
    /\ UNCHANGED <<epoch, members, head, nonce, receipt, certificate, proposed>>

Prepare(r, q) ==
    /\ r \in members[r]
    /\ Unprepared(r, q) /\ NoReceiptWhenRead(r, q)
    /\ Admit(r, q)
    /\ NonceUnlocked(r, q) /\ Unlocked(r, q)
    /\ nonceLock' = [nonceLock EXCEPT ![r][Slot(q)] = Id(q)]
    /\ lock' = [lock EXCEPT ![r] =
                  [o \in Object |-> IF o \in Inputs(q) THEN OwnLock(r, q, o) ELSE @[o]]]
    /\ prepared' = [prepared EXCEPT ![r][Id(q)] = q]
    /\ voted' = [voted EXCEPT ![r] = @ \cup {q}]
    /\ UNCHANGED <<epoch, members, head, nonce, receipt, certificate, proposed>>

(***************************************************************************)
(* apply of a certificate for the request prepared here.                   *)
(***************************************************************************)
ApplyPrepared(r, q) ==
    /\ Certified(q, members[r])
    /\ prepared[r][Id(q)] = q
    /\ Admit(r, q)
    /\ HoldsLocks(r, q)
    /\ Finalize(r, q)
    /\ ClearLocks(r, q)
    /\ nonceLock' = [nonceLock EXCEPT ![r][Slot(q)] = None]
    /\ certificate' = [certificate EXCEPT ![r] = @ \cup {q}]
    /\ UNCHANGED <<epoch, members, prepared, voted, proposed>>

(***************************************************************************)
(* apply as certified recovery, of a request never prepared here: no lock  *)
(* of any epoch may stand on what it touches.                              *)
(***************************************************************************)
ApplyRecovery(r, q) ==
    /\ Certified(q, members[r])
    /\ prepared[r][Id(q)] = None
    /\ Admit(r, q)
    /\ NonceUnlocked(r, q)
    /\ \A o \in Inputs(q) : lock[r][o] = None
    /\ Finalize(r, q)
    /\ certificate' = [certificate EXCEPT ![r] = @ \cup {q}]
    /\ UNCHANGED <<epoch, members, lock, nonceLock, prepared, voted, proposed>>

(***************************************************************************)
(* The direct paid path: execute and commit with no certificate.  It       *)
(* deletes the older epoch's locks it meets.                               *)
(***************************************************************************)
\* Mutant: the direct path does not look at the locks.
DirectOverLocks(r, q) ==
    /\ DirectPath
    /\ Admit(r, q)
    /\ Finalize(r, q)
    /\ UNCHANGED <<epoch, members, lock, nonceLock, prepared, certificate, voted, proposed>>

Direct(r, q) ==
    /\ DirectPath
    /\ Admit(r, q)
    /\ NonceUnlocked(r, q) /\ Unlocked(r, q)
    /\ Finalize(r, q)
    /\ ClearLocks(r, q)
    /\ UNCHANGED <<epoch, members, nonceLock, prepared, certificate, voted, proposed>>

(***************************************************************************)
(* Epoch transition: a vote of the outgoing set for the next one, which    *)
(* leaves nothing in the store, and the activation of a certified one.     *)
(***************************************************************************)
ProposeAndVote(r, next) ==
    /\ r \in members[r]
    /\ epoch[r] < MaxEpoch
    /\ next \in Committees[epoch[r] + 1]
    /\ proposed' = [proposed EXCEPT ![r] = @ \cup {<<epoch[r], next>>}]
    /\ UNCHANGED <<epoch, members, rows, prepared, certificate, voted>>

Activate(r, next) ==
    /\ epoch[r] < MaxEpoch
    /\ next \in Committees[epoch[r] + 1]
    /\ TransitionCertified(epoch[r], next, members[r])
    /\ epoch' = [epoch EXCEPT ![r] = @ + 1]
    /\ members' = [members EXCEPT ![r] = next]
    /\ UNCHANGED <<rows, prepared, certificate, voted, proposed>>

Next ==
    \E r \in Honest :
        \/ \E q \in Request :
              Prepare(r, q) \/ ApplyPrepared(r, q) \/ ApplyRecovery(r, q) \/ Direct(r, q)
        \/ \E next \in UNION {Committees[e] : e \in Epoch} :
              ProposeAndVote(r, next) \/ Activate(r, next)

Spec == Init /\ [][Next]_vars

-------------------------------------------------------------------------------
(***************************************************************************)
(* Properties.                                                             *)
(***************************************************************************)
SameNonce(p, q) == Slot(p) = Slot(q) /\ Intent[p].nonce = Intent[q].nonce

SamePin(p, q, o) ==
    o \in Inputs(p) \cap Inputs(q) /\ Intent[p].inputs[o] = Intent[q].inputs[o]

CertifiedSomewhere(q) == \E C \in Committees[EpochOf(q)] : Certified(q, C)

Finalized(r) == {q \in Request : receipt[r][Id(q)] = q}

\* Two requests of one sender, epoch and nonce are never both certified: the
\* nonce lock a voter takes in prepare is released only by applying the
\* request it voted for.
OneCertifiedPerNonce ==
    \A p, q \in Request :
        SameNonce(p, q) /\ CertifiedSomewhere(p) /\ CertifiedSomewhere(q) => p = q

\* Two certified requests of one epoch never rewrite the same object
\* reference, however direct executions, recoveries and applies interleave.
ConsumedOncePerEpoch ==
    \A p, q \in Request :
        /\ EpochOf(p) = EpochOf(q)
        /\ \E o \in Writes(p) \cap Writes(q) : SamePin(p, q, o)
        /\ CertifiedSomewhere(p) /\ CertifiedSomewhere(q)
        => p = q

\* A replica has finalized exactly one request for each nonce below the next
\* one, by whichever path: no nonce is skipped and none is used twice.
ExactlyOnce ==
    \A r \in Honest, s \in NonceKey :
        LET done == {q \in Finalized(r) : Slot(q) = s} IN
        /\ {Intent[q].nonce : q \in done} = 0..(nonce[r][s] - 1)
        /\ \A p, q \in done : SameNonce(p, q) => p = q

\* A request voted for in the current epoch is finalized here or can still be:
\* its locks, nonce and inputs are as it left them, so a certificate is never
\* refused by a replica that contributed to it.
VotedCanFinish ==
    \A r \in Honest : \A q \in voted[r] :
        EpochOf(q) = epoch[r] =>
            \/ receipt[r][Id(q)] = q
            \/ Admit(r, q) /\ HoldsLocks(r, q) /\ receipt[r][Id(q)] = None

\* A current-epoch lock stands only for a prepared request that still waits
\* for its certificate.
NoOrphanLock ==
    \A r \in Honest, o \in Object :
        LET l == lock[r][o] IN
        l # None /\ l.epoch = epoch[r] =>
            \E q \in voted[r] :
                /\ prepared[r][Id(q)] = q /\ receipt[r][Id(q)] = None
                /\ o \in Inputs(q) /\ l = OwnLock(r, q, o)

\* Replicas that finalized the same requests have the same object heads, in
\* whatever order and by whatever path they finalized them.
ReplicasAgree ==
    \A r, t \in Honest : Finalized(r) = Finalized(t) => head[r] = head[t]

\* A replica that activated the next epoch never applies a certificate of the
\* epoch it left, so a reclaimed lock's request is never finalized there.
LeftEpochIsClosed ==
    [][\A r \in Honest : \A q \in Request :
          EpochOf(q) < epoch[r] => (q \in certificate'[r] <=> q \in certificate[r])]_vars

-------------------------------------------------------------------------------
(***************************************************************************)
(* The inductive invariant, for deployments with unique request ids.       *)
(***************************************************************************)
Spends(q, o, ref) == o \in Writes(q) /\ Intent[q].inputs[o] = ref

\* Two requests that compete for a nonce or a reference within an epoch.
Compete(p, q) ==
    \/ SameNonce(p, q)
    \/ EpochOf(p) = EpochOf(q) /\ \E o \in Writes(p) : Spends(q, o, Intent[p].inputs[o])

\* The heads are the references that exist and were not spent; nonces count
\* the finalized requests.
LedgerInv(r) ==
    /\ \A i \in RequestId : receipt[r][i] # None => Id(receipt[r][i]) = i
    /\ \A o \in Object, ref \in Ref :
          head[r][o] = ref <=>
              /\ ref # Genesis => ref \in Finalized(r) /\ o \in Writes(ref)
              /\ \A p \in Finalized(r) : ~Spends(p, o, ref)
    /\ \A p \in Finalized(r) : \A o \in Inputs(p) :
          Intent[p].inputs[o] \in Finalized(r) \cup {Genesis}
    /\ \A p \in Finalized(r) : Intent[p].nonce < nonce[r][Slot(p)]
    /\ \A s \in NonceKey : \A n \in Nat :
          n < nonce[r][s] => \E p \in Finalized(r) : Slot(p) = s /\ Intent[p].nonce = n
    /\ \A p, q \in Finalized(r) : SameNonce(p, q) => p = q

\* A request voted for waits, holding its nonce, until it is finalized; within
\* its epoch it holds its inputs too.
Waiting(r, q) ==
    /\ nonceLock[r][Slot(q)] = Id(q) /\ NextNonce(r, q)
    /\ prepared[r][Id(q)] = q /\ receipt[r][Id(q)] = None
    /\ EpochOf(q) = epoch[r] => HoldsLocks(r, q) /\ PinsHold(r, q)

VoteInv(r) ==
    /\ \A q \in voted[r] : EpochOf(q) <= epoch[r]
    /\ \A q \in voted[r] : q \in Finalized(r) \/ Waiting(r, q)
    /\ \A p, q \in voted[r] : Compete(p, q) => p = q

LockInv(r) ==
    \A o \in Object : lock[r][o] # None =>
        /\ lock[r][o].epoch <= epoch[r]
        /\ lock[r][o].epoch = epoch[r] =>
              \E q \in voted[r] :
                  /\ prepared[r][Id(q)] = q /\ receipt[r][Id(q)] = None
                  /\ o \in Inputs(q) /\ lock[r][o] = OwnLock(r, q, o)

IInv == TypeOK /\ \A r \in Honest : LedgerInv(r) /\ VoteInv(r) /\ LockInv(r)

-------------------------------------------------------------------------------
(***************************************************************************)
(* A property the documents state and the historical profile lacks.        *)
(***************************************************************************)
\* Two certificates never finalize different requests over one object
\* reference, across epochs too: "without ever risking two conflicting
\* applies for the same object version".
ConflictingAppliesNever ==
    \A r, t \in Honest : \A p \in certificate[r], q \in certificate[t] :
        (\E o \in Writes(p) \cap Writes(q) : SamePin(p, q, o)) => p = q
===============================================================================
