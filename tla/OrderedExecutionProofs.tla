------------------------ MODULE OrderedExecutionProofs ------------------------
(***************************************************************************)
(* For every validator set, every set of candidates and every number of    *)
(* views: an honest replica executes the candidates of its chain once, in  *)
(* order, as its headers bind them, spends every nonce and every row at    *)
(* most once, and releases a reservation only by completing it.            *)
(***************************************************************************)
EXTENDS OrderedEconomicsProofs

(***************************************************************************)
(* What a replica has executed: as its headers bind it, each candidate of  *)
(* its chain once and in order, and the accepted outcomes of a sender,     *)
(* finite in number, spend exactly the nonces below that number.           *)
(***************************************************************************)
BoundOf(r) == \A o \in Completions(r) : header[r][RequestOf[o.tx]] = o.tx

Elements(q) == {q[i] : i \in DOMAIN q}

Earliest(A, tx) ==
    {b \in A : TxOf(b) = tx /\ \A c \in A : TxOf(c) = tx => Height(b) <= Height(c)}

InOrder(q, A) ==
    /\ {o.tx : o \in Elements(q)} = {TxOf(b) : b \in A} \ {NoTx}
    /\ \A i, j \in DOMAIN q : i < j =>
          \A b \in Earliest(A, q[i].tx), c \in Earliest(A, q[j].tx) : Height(b) < Height(c)

NoncesOf(O) == {NonceOf[o.tx] : o \in O}

SpentAt(q, i) ==
    LET o == q[i]
        accepted == {p \in {q[j] : j \in 1..(i - 1)} : p.accepted}
    IN  o.accepted =>
            /\ \A p \in accepted : RowOf[p.tx] # RowOf[o.tx]
            /\ SenderOf[o.tx] # NoSender =>
                  NoncesOf({p \in accepted : SenderOf[p.tx] = SenderOf[o.tx]})
                      = 0..(NonceOf[o.tx] - 1)

AcceptedIn(q, s) == {o \in Elements(q) : o.accepted /\ SenderOf[o.tx] = s}

Counts(q) ==
    /\ IsFiniteSet(Elements(q))
    /\ \A s \in Sender : NoncesOf(AcceptedIn(q, s)) = 0..(Cardinality(AcceptedIn(q, s)) - 1)

ExecutionOf(r) ==
    /\ BoundOf(r)
    /\ InOrder(outcomes[r], archive[r])
    /\ \A i \in DOMAIN outcomes[r] : SpentAt(outcomes[r], i)
    /\ Counts(outcomes[r])

ExecutionInv == \A r \in Honest : ExecutionOf(r)

-------------------------------------------------------------------------------
(***************************************************************************)
(* Execution.                                                              *)
(***************************************************************************)
LEMMA WalkFinite ==
    ASSUME NEW low \in Nat, NEW t \in Block
    PROVE  IsFiniteSet(Walk(low, t))
PROOF
  <1> DEFINE I == (low + 1)..Height(t)
             f == [h \in I |-> Ancestor(t, h)]
  <1>1. low + 1 \in Int /\ Height(t) \in Int
    BY BlockType
  <1>2. IsFiniteSet(I)
    BY Zenon, <1>1, FS_Interval
  <1> HIDE DEF I
  <1>3. f \in Surjection(I, {Ancestor(t, h) : h \in I})
    BY Zenon DEF Surjection
  <1> HIDE DEF f
  <1>4. IsFiniteSet({Ancestor(t, h) : h \in I})
    BY Zenon, <1>2, <1>3, FS_Surjection
  <1> QED BY Zenon, <1>4 DEF Walk, I

\* A set of at most one element.
LEMMA AtMostOne ==
    ASSUME NEW S, IsFiniteSet(S), Cardinality(S) <= 1, NEW x \in S, NEW y \in S
    PROVE  x = y
PROOF
  <1> SUFFICES ASSUME x # y PROVE FALSE
    BY Zenon
  <1>1. IsFiniteSet({x}) /\ Cardinality({x}) = 1
    BY Zenon, FS_Singleton
  <1>2. Cardinality({x} \cup {y}) = 1 + 1
    BY Zenon, <1>1, FS_AddElement
  <1>3. {x} \cup {y} \in SUBSET S
    BY Zenon
  <1>4. Cardinality({x} \cup {y}) <= Cardinality(S)
    BY Zenon, <1>3, FS_Subset
  <1>5. Cardinality(S) \in Nat
    BY Zenon, FS_CardinalityType
  <1> QED BY <1>2, <1>4, <1>5

LEMMA AppendOutcome ==
    ASSUME NEW q \in Seq(Outcome), NEW x \in Outcome
    PROVE  /\ Len(q) \in Nat /\ DOMAIN q = 1..Len(q)
           /\ DOMAIN Append(q, x) = 1..(Len(q) + 1)
           /\ \A i \in 1..Len(q) : Append(q, x)[i] = q[i]
           /\ Append(q, x)[Len(q) + 1] = x
           /\ {Append(q, x)[i] : i \in DOMAIN Append(q, x)} = {q[i] : i \in DOMAIN q} \cup {x}
PROOF
  <1> DEFINE a == Append(q, x)
             n == Len(q)
  <1>1. /\ n \in Nat /\ DOMAIN q = 1..n /\ DOMAIN a = 1..(n + 1)
        /\ \A i \in 1..n : a[i] = q[i]
        /\ a[n + 1] = x
    OBVIOUS
  <1> HIDE DEF a, n
  <1>2. \A i \in 1..(n + 1) : i \in 1..n \/ i = n + 1
    BY <1>1
  <1>3. n + 1 \in 1..(n + 1) /\ \A i \in 1..n : i \in 1..(n + 1)
    BY <1>1
  <1>4. {a[i] : i \in DOMAIN a} = {q[i] : i \in DOMAIN q} \cup {x}
    BY Zenon, <1>1, <1>2, <1>3
  <1> QED BY Zenon, <1>1, <1>4 DEF a, n

\* The event executes tx, which its bytes bind and no outcome answers yet ...
Completes(r, o, tx) ==
    /\ ~Completed(r, RequestOf[tx]) /\ header[r][RequestOf[tx]] = tx
    /\ FirstCompleted(r, o) = {tx}
    /\ {TxOf(b) : b \in Economic(o)} = {tx}
    /\ outcomes'[r] = Append(outcomes[r], [tx |-> tx, accepted |-> ~Refuses(r, tx)])

\* ... or it executes nothing: what it commits is executed already.
CompletesNone(r, o) ==
    /\ FirstCompleted(r, o) = {}
    /\ \A b \in Economic(o) : BytesPresent(r, TxOf(b)) /\ Completed(r, RequestOf[TxOf(b)])
    /\ outcomes'[r] = outcomes[r]

LEMMA EconomicTx ==
    ASSUME NEW o \in EngineOutput
    PROVE  \A b \in Economic(o) : TxOf(b) \in Tx
  BY Zenon, TxOfProposal DEF Economic, EngineOutput, Proposal, Candidate

LEMMA EventCompletes ==
    ASSUME IInv, NEW r \in Honest, NEW o \in EngineOutput, NEW admitted, NEW reserving,
           TwoWalks(state[r].committedHeight, o), FinalizeEvent(r, o, admitted, reserving)
    PROVE  CompletesNone(r, o) \/ \E tx \in Tx : Completes(r, o, tx)
PROOF
  <1> DEFINE fresh == FirstCompleted(r, o)
  <1>1. /\ outcomes'[r] = outcomes[r] \o NewOutcomes(r, o) /\ outcomes[r] \in Seq(Outcome)
        /\ Executable(r, o) /\ Cardinality(Economic(o)) <= 1
    BY Zenon DEF FinalizeEvent, IInv, TypeOK
  <1>2. IsFiniteSet(Economic(o))
    <2>1. PICK t \in Block, u \in Block :
             o.newly = Walk(state[r].committedHeight, t)
                           \cup Walk(Max2(state[r].committedHeight, Height(t)), u)
      BY Zenon DEF TwoWalks
    <2>2. state[r].committedHeight \in Nat /\ Max2(state[r].committedHeight, Height(t)) \in Nat
      BY BlockType DEF IInv, TypeOK, ConsensusState, Max2
    <2>3. IsFiniteSet(o.newly)
      BY Zenon, <2>1, <2>2, WalkFinite, FS_Union
    <2>4. Economic(o) \in SUBSET o.newly
      BY Zenon DEF Economic
    <2> QED BY Zenon, <2>3, <2>4, FS_Subset
  <1>3. \A b, c \in Economic(o) : b = c
    BY Zenon, <1>1, <1>2, AtMostOne
  <1>4. \A b \in Economic(o) : BytesPresent(r, TxOf(b)) /\ TxOf(b) \in Tx /\ TxOf(b) # NoTx
    BY Zenon, <1>1, EconomicTx, ChainedHotStuffAssumption DEF Executable
  <1>5. CASE fresh = {}
    <2>1. NewOutcomes(r, o) = << >>
      BY Zenon, <1>5 DEF NewOutcomes
    <2>2. outcomes'[r] = outcomes[r]
      BY SMTT(20), <1>1, <2>1
    <2> QED BY Zenon, <1>4, <1>5, <2>2 DEF CompletesNone, FirstCompleted
  <1>6. CASE fresh # {}
    <2>1. PICK b \in Economic(o) : ~Completed(r, RequestOf[TxOf(b)])
      BY Zenon, <1>6 DEF FirstCompleted
    <2> DEFINE tx == TxOf(b)
    <2>2. {TxOf(c) : c \in Economic(o)} = {tx} /\ fresh = {tx}
      BY Zenon, <1>3, <2>1 DEF FirstCompleted
    <2>3. (CHOOSE t \in fresh : TRUE) = tx
      BY Zenon, <2>2
    <2>4. NewOutcomes(r, o) = << [tx |-> tx, accepted |-> ~Refuses(r, tx)] >>
      BY Zenon, <1>6, <2>3 DEF NewOutcomes
    <2>5. header[r][RequestOf[tx]] = tx /\ tx \in Tx
      BY Zenon, <1>4 DEF BytesPresent
    <2> HIDE DEF tx
    <2>6. outcomes'[r] = Append(outcomes[r], [tx |-> tx, accepted |-> ~Refuses(r, tx)])
      BY SMTT(20), <1>1, <2>4
    <2> QED BY Zenon, <2>1, <2>2, <2>5, <2>6 DEF Completes, tx
  <1> QED BY Zenon, <1>5, <1>6

\* Headers are bound once.
Rebinds(r, tx) == HeaderAgrees(r, tx) /\ header' = WithHeader(r, tx)

LEMMA HeaderStays ==
    ASSUME IInv, NEW r \in Honest, NEW tx \in Candidate, Rebinds(r, tx),
           NEW v \in Honest, NEW q \in Request
    PROVE  /\ header[v][q] # NoTx => header'[v][q] = header[v][q]
           /\ tx # NoTx => header'[r][RequestOf[tx]] = tx
PROOF
  <1>1. header \in [Honest -> [Request -> Tx \cup {NoTx}]]
    BY Zenon DEF IInv, TypeOK
  <1>2. CASE tx = NoTx
    BY Zenon, <1>2 DEF Rebinds, WithHeader
  <1>3. CASE tx # NoTx
    <2>1. RequestOf[tx] \in Request
      BY Zenon, <1>3, OrderedEconomicsAssumption DEF Candidate
    <2>2. header' = [header EXCEPT ![r][RequestOf[tx]] = tx]
      BY Zenon, <1>3 DEF Rebinds, WithHeader
    <2>3. header[r][RequestOf[tx]] \in {NoTx, tx}
      BY Zenon, <1>3 DEF Rebinds, HeaderAgrees
    <2>4. header'[v][q] = IF v = r /\ q = RequestOf[tx] THEN tx ELSE header[v][q]
      BY Zenon, <1>1, <2>1, <2>2
    <2>5. header'[r][RequestOf[tx]] = tx
      BY Zenon, <1>1, <2>1, <2>2
    <2> QED BY Zenon, <2>3, <2>4, <2>5
  <1> QED BY Zenon, <1>2, <1>3

(***************************************************************************)
(* The rows of one replica before and after an event.                      *)
(***************************************************************************)
LEMMA ExecutionProperties ==
    ASSUME ExecutionInv
    PROVE  CompletedAsBound /\ ExecutedOnceInOrder /\ SpentOnce
PROOF
  <1>1. CompletedAsBound
    BY Zenon DEF ExecutionInv, ExecutionOf, CompletedAsBound, BoundOf
  <1>2. ExecutedOnceInOrder
    BY Zenon DEF ExecutionInv, ExecutionOf, ExecutedOnceInOrder, InOrder, Elements, Earliest,
                 FirstPlacement, Completions
  <1>3. SpentOnce
    BY Zenon DEF ExecutionInv, ExecutionOf, SpentOnce, SpentAt, NoncesOf
  <1> QED BY Zenon, <1>1, <1>2, <1>3

\* What happens to the rows of replica r.
HeadersStay(r) ==
    \A q \in Request : header[r][q] # NoTx => header'[r][q] = header[r][q]

Above(A, N) ==
    /\ \A b \in A, c \in N : Height(b) < Height(c)
    /\ \A b, c \in A \cup N : Height(b) < Height(c) => ~(Height(c) <= Height(b))

LEMMA EventAbove ==
    ASSUME IInv, NEW r \in Honest, PrefixOf(r), NEW o \in EngineOutput,
           TwoWalks(state[r].committedHeight, o)
    PROVE  Above(archive[r], o.newly)
PROOF
  <1> DEFINE n == state[r].committedHeight
  <1>1. n \in Nat /\ archive[r] \subseteq Block
    BY Zenon DEF IInv, TypeOK, ConsensusState
  <1>2. \A b \in archive[r] : Height(b) \in 1..n
    <2>1. PICK p \in Block : archive[r] = Walk(0, p) /\ Height(p) = n
      BY Zenon DEF PrefixOf, ArchiveEndsIn
    <2> QED BY Zenon, <2>1, ChainBlocks
  <1>3. PICK t \in Block, u \in Block : o.newly = Walk(n, t) \cup Walk(Max2(n, Height(t)), u)
    BY Zenon DEF TwoWalks
  <1> DEFINE m == Max2(n, Height(t))
  <1>4. m \in Nat /\ n <= m /\ Height(t) \in Nat /\ Height(u) \in Nat
    BY <1>1, BlockType DEF Max2
  <1>5. \A x \in Walk(n, t) : x \in Block /\ Height(x) \in (n + 1)..Height(t)
    BY Zenon, <1>1, WalkBlocks
  <1>6. \A x \in Walk(m, u) : x \in Block /\ Height(x) \in (m + 1)..Height(u)
    BY Zenon, <1>4, WalkBlocks
  <1> HIDE DEF m, n
  <1>7. ASSUME NEW b \in archive[r], NEW c \in o.newly PROVE Height(b) < Height(c)
    <2>1. c \in Walk(n, t) \/ c \in Walk(m, u)
      BY Zenon, <1>3 DEF m, n
    <2>2. Height(b) \in 1..n
      BY Zenon, <1>2
    <2>3. Height(c) \in (n + 1)..Height(t) \/ Height(c) \in (m + 1)..Height(u)
      BY Zenon, <1>5, <1>6, <2>1
    <2> QED BY SMTT(20), <1>1, <1>4, <2>2, <2>3
  <1>8. \A b \in archive[r] \cup o.newly : b \in Block
    BY Zenon, <1>1, <1>3, <1>5, <1>6 DEF m, n
  <1>9. \A b \in archive[r] \cup o.newly : Height(b) \in Nat
    BY Zenon, <1>8, BlockType
  <1>10. \A x, y \in Nat : x < y => ~(y <= x)
    OBVIOUS
  <1> QED BY Zenon, <1>7, <1>9, <1>10 DEF Above

\* The appended outcome.
NewOutcome(r, tx) == [tx |-> tx, accepted |-> ~Refuses(r, tx)]

Appends(q, x, qq) ==
    /\ Len(q) \in Nat /\ DOMAIN q = 1..Len(q) /\ DOMAIN qq = 1..(Len(q) + 1)
    /\ \A i \in 1..Len(q) : qq[i] = q[i]
    /\ qq[Len(q) + 1] = x
    /\ Elements(qq) = Elements(q) \cup {x}

Completion(r, tx) ==
    /\ NewOutcome(r, tx) \in Outcome
    /\ NewOutcome(r, tx).tx = tx
    /\ NewOutcome(r, tx).accepted => RowIsCurrent(r, tx) /\ NonceIsNext(r, tx)
    /\ Appends(outcomes[r], NewOutcome(r, tx), outcomes'[r])
    /\ \A p \in Completions(r) : RequestOf[p.tx] # RequestOf[tx]

LEMMA CompletesAppends ==
    ASSUME IInv, NEW r \in Honest, NEW o, NEW tx \in Tx, Completes(r, o, tx)
    PROVE  Completion(r, tx)
PROOF
  <1> DEFINE x == NewOutcome(r, tx)
             q == outcomes[r]
  <1>1. x \in Outcome /\ x.tx = tx /\ x.accepted = ~Refuses(r, tx)
    BY Zenon DEF NewOutcome, Outcome, Refuses
  <1>2. x.accepted => RowIsCurrent(r, tx) /\ NonceIsNext(r, tx)
    BY Zenon, <1>1 DEF Refuses
  <1>3. q \in Seq(Outcome) /\ outcomes'[r] = Append(q, x)
    BY Zenon DEF IInv, TypeOK, Completes, NewOutcome
  <1> HIDE DEF x, q
  <1>4. /\ Len(q) \in Nat /\ DOMAIN q = 1..Len(q)
        /\ DOMAIN Append(q, x) = 1..(Len(q) + 1)
        /\ \A i \in 1..Len(q) : Append(q, x)[i] = q[i]
        /\ Append(q, x)[Len(q) + 1] = x
        /\ {Append(q, x)[i] : i \in DOMAIN Append(q, x)} = {q[i] : i \in DOMAIN q} \cup {x}
    BY Zenon, <1>1, <1>3, AppendOutcome
  <1>5. Appends(q, x, outcomes'[r])
    BY Zenon, <1>3, <1>4 DEF Appends, Elements
  <1>6. \A p \in Completions(r) : RequestOf[p.tx] # RequestOf[tx]
    BY Zenon DEF Completes, Completed
  <1> QED BY Zenon, <1>1, <1>2, <1>5, <1>6 DEF Completion, x, q

LEMMA CompletionType ==
    ASSUME IInv, NEW r \in Honest, NEW p \in Completions(r)
    PROVE  p \in Outcome /\ p.tx \in Tx /\ RequestOf[p.tx] \in Request
PROOF
  <1>1. outcomes[r] \in Seq(Outcome)
    BY Zenon DEF IInv, TypeOK
  <1>2. p \in Outcome
    BY <1>1 DEF Completions
  <1>3. p.tx \in Tx
    BY <1>2 DEF Outcome
  <1> QED BY Zenon, <1>2, <1>3, OrderedEconomicsAssumption

LEMMA BoundStep ==
    ASSUME IInv, NEW r \in Honest, NEW o, BoundOf(r), HeadersStay(r),
           CompletesNone(r, o) \/ \E tx \in Tx : Completes(r, o, tx)
    PROVE  BoundOf(r)'
PROOF
  <1>1. \A p \in Completions(r) : p.tx \in Tx /\ RequestOf[p.tx] \in Request
    BY Zenon, CompletionType
  <1>2. \A p \in Completions(r) : header'[r][RequestOf[p.tx]] = p.tx
    BY Zenon, <1>1, ChainedHotStuffAssumption DEF BoundOf, HeadersStay
  <1>3. CASE CompletesNone(r, o)
    BY Zenon, <1>2, <1>3 DEF CompletesNone, BoundOf, Completions
  <1>4. ASSUME NEW tx \in Tx, Completes(r, o, tx) PROVE BoundOf(r)'
    <2>1. RequestOf[tx] \in Request /\ tx # NoTx
      BY Zenon, OrderedEconomicsAssumption, ChainedHotStuffAssumption
    <2>2. header'[r][RequestOf[tx]] = tx
      BY Zenon, <1>4, <2>1 DEF HeadersStay, Completes
    <2>3. Elements(outcomes'[r]) = Completions(r) \cup {NewOutcome(r, tx)} /\ NewOutcome(r, tx).tx = tx
      <3>1. Appends(outcomes[r], NewOutcome(r, tx), outcomes'[r]) /\ NewOutcome(r, tx).tx = tx
        <4>1. Completion(r, tx)
          BY Zenon, <1>4, CompletesAppends
        <4> QED BY Zenon, <4>1 DEF Completion
      <3> QED BY Zenon, <3>1 DEF Appends, Elements, Completions
    <2> QED BY Zenon, <1>2, <2>2, <2>3 DEF BoundOf, Completions, Elements
  <1> QED BY Zenon, <1>3, <1>4

\* A candidate keeps its first placement when the chain grows above it.
LEMMA EarliestStays ==
    ASSUME NEW A, NEW N, Above(A, N), NEW tx \in {TxOf(b) : b \in A},
           NEW b \in Earliest(A \cup N, tx)
    PROVE  b \in Earliest(A, tx)
PROOF
  <1>1. PICK c \in A : TxOf(c) = tx
    BY Zenon
  <1>2. /\ b \in A \cup N /\ TxOf(b) = tx
        /\ \A d \in A \cup N : TxOf(d) = tx => Height(b) <= Height(d)
    BY Zenon DEF Earliest
  <1>3. b \in A
    BY Zenon, <1>1, <1>2 DEF Above
  <1> QED BY Zenon, <1>2, <1>3 DEF Earliest

LEMMA InOrderGrows ==
    ASSUME NEW A, NEW N, Above(A, N), NEW q, InOrder(q, A)
    PROVE  \A i, j \in DOMAIN q : i < j =>
              \A b \in Earliest(A \cup N, q[i].tx), c \in Earliest(A \cup N, q[j].tx) :
                 Height(b) < Height(c)
PROOF
  <1>1. \A i \in DOMAIN q : q[i].tx \in {TxOf(b) : b \in A}
    BY Zenon DEF InOrder, Elements
  <1>2. ASSUME NEW i \in DOMAIN q PROVE Earliest(A \cup N, q[i].tx) \subseteq Earliest(A, q[i].tx)
    BY Zenon, <1>1, EarliestStays
  <1> QED BY Zenon, <1>2 DEF InOrder

\* The candidates an event finds executed are on the chain already.
LEMMA OrderKept ==
    ASSUME NEW r \in Honest, NEW o, BoundOf(r), InOrder(outcomes[r], archive[r]), Above(archive[r], o.newly),
           CompletesNone(r, o)
    PROVE  InOrder(outcomes[r], archive[r] \cup o.newly)
PROOF
  <1> DEFINE A == archive[r]
             N == o.newly
             q == outcomes[r]
  <1>1. {p.tx : p \in Elements(q)} = {TxOf(b) : b \in A} \ {NoTx}
    BY Zenon DEF InOrder
  <1>2. \A b \in Economic(o) : TxOf(b) \in {p.tx : p \in Elements(q)}
    <2>1. Completions(r) = Elements(q)
      BY Zenon DEF Completions, Elements
    <2> HIDE DEF q
    <2> QED BY Zenon, <2>1 DEF CompletesNone, BytesPresent, Completed, BoundOf, Economic
  <1>3. {TxOf(b) : b \in A \cup N} \ {NoTx}
            = ({TxOf(b) : b \in A} \ {NoTx}) \cup {TxOf(b) : b \in Economic(o)}
    BY Zenon DEF Economic
  <1>4. {p.tx : p \in Elements(q)} = {TxOf(b) : b \in A \cup N} \ {NoTx}
    BY Zenon, <1>1, <1>2, <1>3
  <1>5. InOrder(q, A)
    BY Zenon
  <1> HIDE DEF A, N, q
  <1> QED BY Zenon, <1>4, <1>5, InOrderGrows DEF InOrder, A, N, q

\* A candidate that an event executes is placed above everything before it.
LEMMA OrderAppended ==
    ASSUME IInv, NEW r \in Honest, NEW o, InOrder(outcomes[r], archive[r]), Above(archive[r], o.newly),
           NEW tx \in Tx, Completes(r, o, tx)
    PROVE  InOrder(outcomes'[r], archive[r] \cup o.newly)
PROOF
  <1> DEFINE A == archive[r]
             N == o.newly
             q == outcomes[r]
             qq == outcomes'[r]
             x == NewOutcome(r, tx)
             n == Len(q)
  <1>1. /\ InOrder(q, A) /\ Above(A, N) /\ Appends(q, x, qq) /\ x.tx = tx
        /\ \A p \in Elements(q) : RequestOf[p.tx] # RequestOf[tx]
        /\ {TxOf(b) : b \in Economic(o)} = {tx}
    <2>1. /\ Appends(q, x, qq) /\ x.tx = tx
          /\ \A p \in Completions(r) : RequestOf[p.tx] # RequestOf[tx]
      <3>1. Completion(r, tx)
        BY Zenon, CompletesAppends
      <3> QED BY Zenon, <3>1 DEF Completion
    <2>2. InOrder(q, A) /\ {TxOf(b) : b \in Economic(o)} = {tx}
      BY Zenon DEF Completes
    <2>3. Completions(r) = Elements(q)
      BY Zenon DEF Completions, Elements
    <2> QED BY Zenon, <2>1, <2>2, <2>3
  <1>2. {TxOf(b) : b \in A \cup N} \ {NoTx}
            = ({TxOf(b) : b \in A} \ {NoTx}) \cup {TxOf(b) : b \in Economic(o)}
    BY Zenon DEF Economic
  <1> HIDE DEF A, N, q, qq, x, n
  <1>3. {p.tx : p \in Elements(qq)} = {p.tx : p \in Elements(q)} \cup {tx}
    <2>1. Elements(qq) = Elements(q) \cup {x} /\ x.tx = tx
      BY Zenon, <1>1 DEF Appends
    <2> QED BY Zenon, <2>1
  <1>4. {p.tx : p \in Elements(q)} = {TxOf(b) : b \in A} \ {NoTx}
    BY Zenon, <1>1 DEF InOrder
  <1>5. {p.tx : p \in Elements(qq)} = {TxOf(b) : b \in A \cup N} \ {NoTx}
    BY Zenon, <1>1, <1>2, <1>3, <1>4
  <1>6. \A c \in Earliest(A \cup N, tx) : c \in N
    <2>1. tx \notin {p.tx : p \in Elements(q)} /\ tx # NoTx
      BY Zenon, <1>1, ChainedHotStuffAssumption
    <2> QED BY Zenon, <1>4, <2>1 DEF Earliest
  <1>7. \A i \in DOMAIN q : Earliest(A \cup N, q[i].tx) \subseteq A
    <2>1. \A i \in DOMAIN q : q[i].tx \in {TxOf(b) : b \in A}
      BY Zenon, <1>4 DEF Elements
    <2>2. ASSUME NEW i \in DOMAIN q PROVE Earliest(A \cup N, q[i].tx) \subseteq Earliest(A, q[i].tx)
      BY Zenon, <1>1, <2>1, EarliestStays
    <2> QED BY Zenon, <2>2 DEF Earliest
  <1>8. ASSUME NEW i \in DOMAIN qq, NEW j \in DOMAIN qq, i < j
        PROVE  \A b \in Earliest(A \cup N, qq[i].tx), c \in Earliest(A \cup N, qq[j].tx) :
                  Height(b) < Height(c)
    <2>1. /\ n \in Nat /\ DOMAIN q = 1..n /\ DOMAIN qq = 1..(n + 1)
          /\ \A k \in 1..n : qq[k] = q[k]
          /\ qq[n + 1] = x
      BY Zenon, <1>1 DEF Appends, n
    <2>2. i \in DOMAIN q /\ (j \in DOMAIN q \/ j = n + 1)
      BY <1>8, <2>1
    <2>3. qq[i] = q[i]
      BY Zenon, <2>1, <2>2
    <2>4. CASE j \in DOMAIN q
      <3>1. qq[j] = q[j]
        BY Zenon, <2>1, <2>4
      <3>2. \A b \in Earliest(A \cup N, q[i].tx), c \in Earliest(A \cup N, q[j].tx) :
               Height(b) < Height(c)
        BY Zenon, <1>1, <1>8, <2>2, <2>4, InOrderGrows
      <3> QED BY Zenon, <2>3, <3>1, <3>2
    <2>5. CASE j = n + 1
      <3>1. qq[j].tx = tx
        BY Zenon, <1>1, <2>1, <2>5
      <3> QED BY Zenon, <1>1, <1>6, <1>7, <2>2, <2>3, <3>1 DEF Above
    <2> QED BY Zenon, <2>2, <2>4, <2>5
  <1> QED BY Zenon, <1>5, <1>8 DEF InOrder, A, N, qq

\* The next nonce of a sender after an accepted outcome.
LEMMA NonceAdvances ==
    ASSUME NEW S, IsFiniteSet(S), NEW x, x \notin S, NEW n \in Nat, Cardinality(S) = n,
           NoncesOf(S) = 0..(n - 1), NonceOf[x.tx] = n
    PROVE  /\ Cardinality(S \cup {x}) = n + 1
           /\ NoncesOf(S \cup {x}) = 0..(Cardinality(S \cup {x}) - 1)
PROOF
  <1>1. Cardinality(S \cup {x}) = Cardinality(S) + 1
    BY Zenon, FS_AddElement
  <1>2. NoncesOf(S \cup {x}) = NoncesOf(S) \cup {n}
    BY Zenon DEF NoncesOf
  <1>3. 0..(n - 1) \cup {n} = 0..((n + 1) - 1)
    OBVIOUS
  <1> QED BY Zenon, <1>1, <1>2, <1>3

LEMMA NextNonceCounts ==
    ASSUME NEW r \in Honest, NEW s
    PROVE  NextNonce(r, s) = Cardinality(AcceptedIn(outcomes[r], s))
  BY Zenon DEF NextNonce, AcceptedIn, Completions, Elements

\* An appended outcome sees all the earlier ones, and they see what they saw.
LEMMA SpentAppends ==
    ASSUME NEW q, NEW x, NEW qq, Appends(q, x, qq),
           \A i \in DOMAIN q : SpentAt(q, i),
           x.accepted => \A p \in Elements(q) : p.accepted => RowOf[p.tx] # RowOf[x.tx],
           x.accepted /\ SenderOf[x.tx] # NoSender =>
               NoncesOf(AcceptedIn(q, SenderOf[x.tx])) = 0..(NonceOf[x.tx] - 1)
    PROVE  \A i \in DOMAIN qq : SpentAt(qq, i)
PROOF
  <1> DEFINE n == Len(q)
  <1>1. /\ n \in Nat /\ DOMAIN q = 1..n /\ DOMAIN qq = 1..(n + 1)
        /\ \A i \in 1..n : qq[i] = q[i]
        /\ qq[n + 1] = x
    BY Zenon DEF Appends
  <1> HIDE DEF n
  <1>2. ASSUME NEW i \in 1..n PROVE SpentAt(qq, i)
    <2>1. \A j \in 1..(i - 1) : j \in 1..n
      BY <1>1
    <2>2. {qq[j] : j \in 1..(i - 1)} = {q[j] : j \in 1..(i - 1)} /\ qq[i] = q[i]
      <3>1. \A j \in 1..(i - 1) : qq[j] = q[j]
        BY Zenon, <1>1, <2>1
      <3> QED BY <1>1, <3>1
    <2>3. SpentAt(q, i)
      BY Zenon, <1>1
    <2> QED BY Zenon, <2>2, <2>3 DEF SpentAt
  <1>3. SpentAt(qq, n + 1)
    <2>1. (n + 1) - 1 = n
      BY <1>1
    <2>2. {qq[j] : j \in 1..n} = Elements(q)
      <3>1. {qq[j] : j \in 1..n} = {q[j] : j \in 1..n}
        BY <1>1
      <3> QED BY Zenon, <1>1, <3>1 DEF Elements
    <2>3. {qq[j] : j \in 1..((n + 1) - 1)} = Elements(q)
      BY Zenon, <2>1, <2>2
    <2>4. {p \in {p \in Elements(q) : p.accepted} : SenderOf[p.tx] = SenderOf[x.tx]}
              = AcceptedIn(q, SenderOf[x.tx])
      BY Zenon DEF AcceptedIn
    <2> QED BY Zenon, <1>1, <2>3, <2>4 DEF SpentAt
  <1>4. \A i \in DOMAIN qq : i \in 1..n \/ i = n + 1
    BY <1>1
  <1> QED BY Zenon, <1>2, <1>3, <1>4

LEMMA CountsAppends ==
    ASSUME NEW q, NEW x, NEW qq, Appends(q, x, qq), Counts(q), x \notin Elements(q),
           SenderOf[x.tx] \in Sender /\ x.accepted =>
               Cardinality(AcceptedIn(q, SenderOf[x.tx])) = NonceOf[x.tx]
    PROVE  Counts(qq)
PROOF
  <1>1. Elements(qq) = Elements(q) \cup {x} /\ IsFiniteSet(Elements(q))
    BY Zenon DEF Appends, Counts
  <1>2. IsFiniteSet(Elements(qq))
    BY Zenon, <1>1, FS_AddElement
  <1>3. ASSUME NEW s \in Sender
        PROVE  NoncesOf(AcceptedIn(qq, s)) = 0..(Cardinality(AcceptedIn(qq, s)) - 1)
    <2> DEFINE S == AcceptedIn(q, s)
    <2>1. NoncesOf(S) = 0..(Cardinality(S) - 1) /\ IsFiniteSet(S) /\ x \notin S
      <3>1. S \in SUBSET Elements(q)
        BY Zenon DEF AcceptedIn
      <3> QED BY Zenon, <1>1, <3>1, FS_Subset DEF Counts
    <2>2. CASE x.accepted /\ SenderOf[x.tx] = s
      <3>1. AcceptedIn(qq, s) = S \cup {x}
        BY Zenon, <1>1, <2>2 DEF AcceptedIn
      <3>2. NonceOf[x.tx] = Cardinality(S) /\ Cardinality(S) \in Nat
        BY Zenon, <2>1, <2>2, FS_CardinalityType
      <3> HIDE DEF S
      <3>3. NoncesOf(S \cup {x}) = 0..(Cardinality(S \cup {x}) - 1)
        BY Zenon, <2>1, <3>2, NonceAdvances
      <3> QED BY Zenon, <3>1, <3>3
    <2>3. CASE ~(x.accepted /\ SenderOf[x.tx] = s)
      <3>1. AcceptedIn(qq, s) = S
        BY Zenon, <1>1, <2>3 DEF AcceptedIn
      <3> QED BY Zenon, <2>1, <3>1
    <2> QED BY Zenon, <2>2, <2>3
  <1> QED BY Zenon, <1>2, <1>3 DEF Counts

LEMMA SpentStep ==
    ASSUME IInv, NEW r \in Honest, NEW o, ExecutionOf(r), NEW tx \in Tx, Completes(r, o, tx)
    PROVE  (\A i \in DOMAIN outcomes'[r] : SpentAt(outcomes'[r], i)) /\ Counts(outcomes'[r])
PROOF
  <1> DEFINE q == outcomes[r]
             x == NewOutcome(r, tx)
  <1>1. /\ x \in Outcome /\ x.tx = tx /\ Appends(q, x, outcomes'[r])
        /\ x.accepted => RowIsCurrent(r, tx) /\ NonceIsNext(r, tx)
        /\ \A p \in Completions(r) : RequestOf[p.tx] # RequestOf[tx]
    <2>1. Completion(r, tx)
      BY Zenon, CompletesAppends
    <2> QED BY Zenon, <2>1 DEF Completion
  <1>2. Counts(q) /\ \A s \in Sender : NextNonce(r, s) = Cardinality(AcceptedIn(q, s))
    BY Zenon, NextNonceCounts DEF ExecutionOf
  <1>3. Completions(r) = Elements(q)
    BY Zenon DEF Completions, Elements
  <1>4. SenderOf[tx] \in Sender \cup {NoSender} /\ NoSender \notin Sender
    BY Zenon, OrderedEconomicsAssumption
  <1>5. x.accepted => \A p \in Elements(q) : p.accepted => RowOf[p.tx] # RowOf[x.tx]
    BY Zenon, <1>1, <1>3 DEF RowIsCurrent
  <1>6. SenderOf[x.tx] \in Sender /\ x.accepted =>
            Cardinality(AcceptedIn(q, SenderOf[x.tx])) = NonceOf[x.tx]
    BY Zenon, <1>1, <1>2, <1>4 DEF NonceIsNext
  <1>7. x.accepted /\ SenderOf[x.tx] # NoSender =>
            NoncesOf(AcceptedIn(q, SenderOf[x.tx])) = 0..(NonceOf[x.tx] - 1)
    <2>1. \A s \in Sender : NoncesOf(AcceptedIn(q, s)) = 0..(Cardinality(AcceptedIn(q, s)) - 1)
      BY Zenon, <1>2 DEF Counts
    <2>2. SenderOf[x.tx] # NoSender => SenderOf[x.tx] \in Sender
      BY Zenon, <1>1, <1>4
    <2> QED BY Zenon, <1>6, <2>1, <2>2
  <1>8. x \notin Elements(q)
    BY Zenon, <1>1, <1>3
  <1>9. \A i \in DOMAIN q : SpentAt(q, i)
    BY Zenon DEF ExecutionOf
  <1> HIDE DEF q, x
  <1>10. \A i \in DOMAIN outcomes'[r] : SpentAt(outcomes'[r], i)
    BY Zenon, <1>1, <1>5, <1>7, <1>9, SpentAppends
  <1>11. Counts(outcomes'[r])
    BY Zenon, <1>1, <1>2, <1>6, <1>8, CountsAppends
  <1> QED BY Zenon, <1>10, <1>11

(***************************************************************************)
(* Every step keeps the execution rows of every replica.                   *)
(***************************************************************************)
LEMMA RowsSame ==
    ASSUME IInv, NEW r \in Honest, ExecutionOf(r),
           HeadersStay(r), archive'[r] = archive[r], outcomes'[r] = outcomes[r]
    PROVE  ExecutionOf(r)'
PROOF
  <1>1. BoundOf(r)'
    <2>1. \A p \in Completions(r) : p.tx \in Tx /\ RequestOf[p.tx] \in Request
      BY Zenon, CompletionType
    <2>2. \A p \in Completions(r) : header'[r][RequestOf[p.tx]] = p.tx
      BY Zenon, <2>1, ChainedHotStuffAssumption DEF ExecutionOf, BoundOf, HeadersStay
    <2> QED BY Zenon, <2>2 DEF BoundOf, Completions
  <1> QED BY Zenon, <1>1 DEF ExecutionOf

LEMMA RowsEvent ==
    ASSUME IInv, NEW r \in Honest, PrefixOf(r), NEW o \in EngineOutput, NEW C,
           NEW admitted \in Candidate, NEW reserving, Event(r, o, C, admitted, reserving),
           ExecutionOf(r)
    PROVE  ExecutionOf(r)'
PROOF
  <1>1. /\ TwoWalks(state[r].committedHeight, o) /\ FinalizeEvent(r, o, admitted, reserving)
        /\ Rebinds(r, admitted) /\ archive'[r] = archive[r] \cup o.newly
    BY Zenon DEF Event, FinalizeEvent, Rebinds, IInv, TypeOK
  <1>2. CompletesNone(r, o) \/ \E tx \in Tx : Completes(r, o, tx)
    BY Zenon, <1>1, EventCompletes
  <1>3. HeadersStay(r)
    BY Zenon, <1>1, HeaderStays DEF HeadersStay
  <1>4. Above(archive[r], o.newly)
    BY Zenon, <1>1, EventAbove
  <1>5. BoundOf(r) /\ InOrder(outcomes[r], archive[r])
    BY Zenon DEF ExecutionOf
  <1>6. BoundOf(r)'
    BY Zenon, <1>2, <1>3, <1>5, BoundStep
  <1>7. CASE CompletesNone(r, o)
    <2>1. outcomes'[r] = outcomes[r]
      BY Zenon, <1>7 DEF CompletesNone
    <2>2. InOrder(outcomes[r], archive[r] \cup o.newly)
      BY Zenon, <1>4, <1>5, <1>7, OrderKept
    <2> QED BY Zenon, <1>1, <1>6, <2>1, <2>2 DEF ExecutionOf
  <1>8. ASSUME NEW tx \in Tx, Completes(r, o, tx)
        PROVE  ExecutionOf(r)'
    <2>1. InOrder(outcomes'[r], archive[r] \cup o.newly)
      BY Zenon, <1>4, <1>5, <1>8, OrderAppended
    <2>2. (\A i \in DOMAIN outcomes'[r] : SpentAt(outcomes'[r], i)) /\ Counts(outcomes'[r])
      BY Zenon, <1>8, SpentStep
    <2> QED BY Zenon, <1>1, <1>6, <2>1, <2>2 DEF ExecutionOf
  <1> QED BY Zenon, <1>2, <1>7, <1>8

LEMMA ExecutionStep ==
    ASSUME IInv, PrefixInv, ExecutionInv, HandlerStep
    PROVE  ExecutionInv'
PROOF
  <1> SUFFICES ASSUME NEW v \in Honest PROVE ExecutionOf(v)'
    BY Zenon DEF ExecutionInv
  <1>1. ExecutionOf(v) /\ PrefixOf(v)
    BY Zenon DEF ExecutionInv, PrefixInv
  <1>2. CASE UNCHANGED <<header, archive, outcomes>>
    BY Zenon, <1>1, <1>2, RowsSame DEF HeadersStay
  <1>3. ASSUME NEW r \in Honest, NEW tx \in Candidate, Signs(r, tx)
        PROVE  ExecutionOf(v)'
    <2>1. Rebinds(r, tx) /\ archive'[v] = archive[v] /\ outcomes'[v] = outcomes[v]
      BY Zenon, <1>3 DEF Signs, Rebinds, AdmitForSigning, HeaderAgrees
    <2>2. HeadersStay(v)
      BY Zenon, <2>1, HeaderStays DEF HeadersStay
    <2> QED BY Zenon, <1>1, <2>1, <2>2, RowsSame
  <1>4. ASSUME NEW r \in Honest, NEW o \in EngineOutput, NEW C \in SUBSET Block,
               NEW admitted \in Candidate, NEW reserving \in BOOLEAN,
               Event(r, o, C, admitted, reserving)
        PROVE  ExecutionOf(v)'
    <2>1. CASE v = r
      BY Zenon, <1>1, <1>4, <2>1, RowsEvent
    <2>2. CASE v # r
      <3>1. Rebinds(r, admitted) /\ archive'[v] = archive[v] /\ outcomes'[v] = outcomes[v]
        BY Zenon, <1>4, <2>2 DEF Event, FinalizeEvent, Rebinds, IInv, TypeOK
      <3>2. HeadersStay(v)
        BY Zenon, <3>1, HeaderStays DEF HeadersStay
      <3> QED BY Zenon, <1>1, <3>1, <3>2, RowsSame
    <2> QED BY Zenon, <2>1, <2>2
  <1> QED BY Zenon, <1>2, <1>3, <1>4 DEF HandlerStep, Finalizes

LEMMA InitExecution == Init => ExecutionInv
PROOF
  <1> SUFFICES ASSUME Init, NEW r \in Honest PROVE ExecutionOf(r)
    BY Zenon DEF ExecutionInv
  <1>1. outcomes[r] = << >> /\ archive[r] = {}
    BY Zenon DEF Init
  <1>2. DOMAIN outcomes[r] = {}
    BY <1>1
  <1>3. Elements(outcomes[r]) = {} /\ Completions(r) = {}
    BY Zenon, <1>2 DEF Elements, Completions
  <1>4. BoundOf(r) /\ InOrder(outcomes[r], archive[r])
    BY Zenon, <1>1, <1>2, <1>3 DEF BoundOf, InOrder
  <1>5. \A s : AcceptedIn(outcomes[r], s) = {}
    BY Zenon, <1>3 DEF AcceptedIn
  <1>6. IsFiniteSet({}) /\ Cardinality({}) = 0
    BY Zenon, FS_EmptySet
  <1>7. 0..(0 - 1) = {}
    OBVIOUS
  <1>8. NoncesOf({}) = {}
    BY Zenon DEF NoncesOf
  <1>9. Counts(outcomes[r])
    BY Zenon, <1>3, <1>5, <1>6, <1>7, <1>8 DEF Counts
  <1> QED BY Zenon, <1>2, <1>4, <1>9 DEF ExecutionOf

-------------------------------------------------------------------------------
(***************************************************************************)
(* Reservations.                                                           *)
(***************************************************************************)
\* Taking a reservation takes none away.
KeepsOrTakes(r, tx, v, s) ==
    \/ WithReservation(r, tx)[v][s] = nonceLock[v][s]
    \/ /\ v = r /\ Reserves(tx) /\ s = SenderOf[tx]
       /\ WithReservation(r, tx)[v][s] = RequestOf[tx]
       /\ nonceLock[v][s] = NoRequest

LEMMA ReservationKeeps ==
    ASSUME IInv, NEW r \in Honest, NEW tx \in Candidate, LockUsable(r, tx),
           NEW v \in Honest, NEW s \in Sender
    PROVE  KeepsOrTakes(r, tx, v, s)
PROOF
  <1>1. nonceLock \in [Honest -> [Sender -> Request \cup {NoRequest}]]
    BY Zenon DEF IInv, TypeOK
  <1>2. CASE ~Reserves(tx)
    BY Zenon, <1>2 DEF WithReservation, KeepsOrTakes
  <1>3. CASE Reserves(tx)
    <2>1. SenderOf[tx] \in Sender
      BY Zenon, <1>3, OrderedEconomicsAssumption DEF Reserves, Candidate
    <2>2. WithReservation(r, tx) = [nonceLock EXCEPT ![r][SenderOf[tx]] = RequestOf[tx]]
      BY Zenon, <1>3 DEF WithReservation
    <2>3. WithReservation(r, tx)[v][s]
              = IF v = r /\ s = SenderOf[tx] THEN RequestOf[tx] ELSE nonceLock[v][s]
      <3> DEFINE L == WithReservation(r, tx)
                 q == RequestOf[tx]
                 t == SenderOf[tx]
      <3>1. L = [nonceLock EXCEPT ![r][t] = q] /\ t \in Sender
        BY Zenon, <2>1, <2>2
      <3> HIDE DEF L, q, t
      <3>2. CASE v # r
        <4>1. L[v] = nonceLock[v]
          BY Zenon, <1>1, <3>1, <3>2
        <4> QED BY Zenon, <3>2, <4>1 DEF L, q, t
      <3>3. CASE v = r
        <4>1. L[v] = [nonceLock[v] EXCEPT ![t] = q] /\ nonceLock[v] \in [Sender -> Request \cup {NoRequest}]
          BY Zenon, <1>1, <3>1, <3>3
        <4>2. L[v][s] = IF s = t THEN q ELSE nonceLock[v][s]
          BY Zenon, <4>1
        <4> QED BY Zenon, <3>3, <4>2 DEF L, q, t
      <3> QED BY Zenon, <3>2, <3>3
    <2>4. nonceLock[r][SenderOf[tx]] \in {NoRequest, RequestOf[tx]}
      BY Zenon, <1>3 DEF LockUsable, LockHolder
    <2> QED BY Zenon, <1>3, <2>3, <2>4 DEF KeepsOrTakes
  <1> QED BY Zenon, <1>2, <1>3

ReservedBy(r, admitted, reserving) ==
    IF reserving THEN WithReservation(r, admitted) ELSE nonceLock

Frees(r, o, s) ==
    \E tx \in FirstCompleted(r, o) :
        Reserves(tx) /\ SenderOf[tx] = s /\ LockHolder(r, tx) = RequestOf[tx]

\* The locks after an event.
LockAfter(r, o, v, s, locks) ==
    nonceLock'[v][s] = IF v = r /\ Frees(r, o, s) THEN NoRequest ELSE locks[v][s]

LEMMA EventLocks ==
    ASSUME IInv, NEW r \in Honest, NEW o, NEW C, NEW admitted \in Candidate,
           NEW reserving \in BOOLEAN, Event(r, o, C, admitted, reserving),
           NEW v \in Honest, NEW s \in Sender
    PROVE  LockAfter(r, o, v, s, ReservedBy(r, admitted, reserving))
PROOF
  <1> DEFINE locks == ReservedBy(r, admitted, reserving)
  <1>1. locks \in [Honest -> [Sender -> Request \cup {NoRequest}]]
    <2>1. nonceLock \in [Honest -> [Sender -> Request \cup {NoRequest}]]
      BY Zenon DEF IInv, TypeOK
    <2>2. WithReservation(r, admitted) \in [Honest -> [Sender -> Request \cup {NoRequest}]]
      <3>1. TypeOK
        BY Zenon DEF IInv
      <3> QED BY Zenon, <3>1, WithReservationType DEF Locks
    <2> QED BY Zenon, <2>1, <2>2 DEF ReservedBy
  <1>2. nonceLock' = Released(r, o, locks)
    BY Zenon DEF Event, FinalizeEvent, ReservedBy
  <1> HIDE DEF locks
  <1>3. Released(r, o, locks)
            = [locks EXCEPT ![r] = [t \in Sender |-> IF Frees(r, o, t) THEN NoRequest ELSE locks[r][t]]]
    BY Zenon DEF Released, Frees
  <1>4. nonceLock'[v][s] = IF v = r /\ Frees(r, o, s) THEN NoRequest ELSE locks[v][s]
    <2> DEFINE F == [t \in Sender |-> IF Frees(r, o, t) THEN NoRequest ELSE locks[r][t]]
    <2>1. F[s] = IF Frees(r, o, s) THEN NoRequest ELSE locks[r][s]
      BY Zenon
    <2>2. nonceLock' = [locks EXCEPT ![r] = F]
      BY Zenon, <1>2, <1>3
    <2> HIDE DEF F
    <2>3. nonceLock'[v] = IF v = r THEN F ELSE locks[v]
      BY Zenon, <1>1, <2>2
    <2> QED BY Zenon, <2>1, <2>3
  <1> QED BY Zenon, <1>4 DEF LockAfter, locks

\* What happens to one lock in a step that commits: it is freed by completing
\* its request, or it stays, or it was free and is taken for admitted.
LockFreed(r, o, s) ==
    \E tx \in Tx : /\ Completes(r, o, tx) /\ Reserves(tx) /\ SenderOf[tx] = s
                   /\ nonceLock[r][s] = RequestOf[tx] /\ nonceLock'[r][s] = NoRequest

LockTaken(r, tx, s) ==
    /\ AdmitForSigning(r, tx) /\ Reserves(tx) /\ s = SenderOf[tx]
    /\ nonceLock[r][s] = NoRequest /\ nonceLock'[r][s] = RequestOf[tx]

LockMoves(r, o, admitted, reserving, v, s) ==
    \/ v = r /\ LockFreed(r, o, s)
    \/ nonceLock'[v][s] = nonceLock[v][s] /\ ~(v = r /\ Frees(r, o, s))
    \/ v = r /\ reserving /\ LockTaken(r, admitted, s)

LEMMA EventLock ==
    ASSUME IInv, NEW r \in Honest, NEW o \in EngineOutput, NEW C, NEW admitted \in Candidate,
           NEW reserving \in BOOLEAN, Event(r, o, C, admitted, reserving),
           NEW v \in Honest, NEW s \in Sender
    PROVE  LockMoves(r, o, admitted, reserving, v, s)
PROOF
  <1>1. nonceLock'[v][s] = IF v = r /\ Frees(r, o, s) THEN NoRequest
                           ELSE ReservedBy(r, admitted, reserving)[v][s]
    <2>1. LockAfter(r, o, v, s, ReservedBy(r, admitted, reserving))
      BY Zenon, EventLocks
    <2> QED BY Zenon, <2>1 DEF LockAfter
  <1>2. CASE v = r /\ Frees(r, o, s)
    <2>1. PICK tx \in FirstCompleted(r, o) :
              Reserves(tx) /\ SenderOf[tx] = s /\ LockHolder(r, tx) = RequestOf[tx]
      BY Zenon, <1>2 DEF Frees
    <2>2. CompletesNone(r, o) \/ \E t \in Tx : Completes(r, o, t)
      BY Zenon, EventCompletes DEF Event
    <2>3. tx \in Tx /\ Completes(r, o, tx)
      BY Zenon, <2>1, <2>2 DEF CompletesNone, Completes
    <2>4. nonceLock[r][s] = RequestOf[tx] /\ nonceLock'[r][s] = NoRequest
      BY Zenon, <1>1, <1>2, <2>1 DEF LockHolder
    <2> QED BY Zenon, <1>2, <2>1, <2>3, <2>4 DEF LockFreed, LockMoves
  <1>3. CASE ~(v = r /\ Frees(r, o, s)) /\ ~reserving
    BY Zenon, <1>1, <1>3 DEF ReservedBy, LockMoves
  <1>4. CASE ~(v = r /\ Frees(r, o, s)) /\ reserving
    <2>1. AdmitForSigning(r, admitted) /\ LockUsable(r, admitted)
      BY Zenon, <1>4 DEF Event, AdmitForSigning, LockUsable, Reserves
    <2>2. nonceLock'[v][s] = WithReservation(r, admitted)[v][s]
      BY Zenon, <1>1, <1>4 DEF ReservedBy
    <2>3. KeepsOrTakes(r, admitted, v, s)
      BY Zenon, <2>1, ReservationKeeps
    <2> QED BY Zenon, <1>4, <2>1, <2>2, <2>3 DEF LockTaken, KeepsOrTakes, LockMoves
  <1> QED BY Zenon, <1>2, <1>3, <1>4

LEMMA SignsLock ==
    ASSUME IInv, NEW r \in Honest, NEW tx \in Candidate, Signs(r, tx),
           NEW v \in Honest, NEW s \in Sender
    PROVE  \/ nonceLock'[v][s] = nonceLock[v][s]
           \/ v = r /\ LockTaken(r, tx, s)
PROOF
  <1>1. AdmitForSigning(r, tx) /\ LockUsable(r, tx) /\ nonceLock' = WithReservation(r, tx)
    BY Zenon DEF Signs, AdmitForSigning, LockUsable, Reserves
  <1>2. KeepsOrTakes(r, tx, v, s)
    BY Zenon, <1>1, ReservationKeeps
  <1> QED BY Zenon, <1>1, <1>2 DEF LockTaken, KeepsOrTakes

\* An executed request is completed afterwards.
CompletedNow(r, tx) ==
    /\ ~Completed(r, RequestOf[tx])
    /\ \E p \in Elements(outcomes'[r]) : RequestOf[p.tx] = RequestOf[tx]
    /\ \A p \in Elements(outcomes'[r]) : p \in Completions(r) \/ p.tx = tx

LEMMA CompletesRequest ==
    ASSUME IInv, NEW r \in Honest, NEW o, NEW tx \in Tx, Completes(r, o, tx)
    PROVE  CompletedNow(r, tx)
PROOF
  <1>1. Appends(outcomes[r], NewOutcome(r, tx), outcomes'[r]) /\ NewOutcome(r, tx).tx = tx
    <2>1. Completion(r, tx)
      BY Zenon, CompletesAppends
    <2> QED BY Zenon, <2>1 DEF Completion
  <1>2. Completions(r) = Elements(outcomes[r])
    BY Zenon DEF Completions, Elements
  <1>3. Elements(outcomes'[r]) = Completions(r) \cup {NewOutcome(r, tx)}
    BY Zenon, <1>1, <1>2 DEF Appends
  <1> QED BY Zenon, <1>1, <1>3 DEF CompletedNow, Completes

\* A step takes a lock away only by completing its request.
Release ==
    \A r \in Honest : \A s \in Sender :
        nonceLock[r][s] \notin {NoRequest, nonceLock'[r][s]} =>
            /\ ~Completed(r, nonceLock[r][s])
            /\ \E o \in Completions(r)' : RequestOf[o.tx] = nonceLock[r][s]

LEMMA ReleaseStep ==
    ASSUME IInv, HandlerStep
    PROVE  Release
PROOF
  <1> SUFFICES ASSUME NEW v \in Honest, NEW s \in Sender,
                      nonceLock[v][s] # NoRequest, nonceLock'[v][s] # nonceLock[v][s]
               PROVE  /\ ~Completed(v, nonceLock[v][s])
                      /\ \E p \in Elements(outcomes'[v]) : RequestOf[p.tx] = nonceLock[v][s]
    BY Zenon DEF Release, Completions, Elements
  <1>1. ASSUME NEW r \in Honest, NEW tx \in Candidate, Signs(r, tx) PROVE FALSE
    <2>1. v = r /\ LockTaken(r, tx, s)
      BY Zenon, <1>1, SignsLock
    <2> QED BY Zenon, <2>1 DEF LockTaken
  <1>2. PICK r \in Honest, o \in EngineOutput, C \in SUBSET Block,
             admitted \in Candidate, reserving \in BOOLEAN : Event(r, o, C, admitted, reserving)
    BY Zenon, <1>1 DEF HandlerStep, Finalizes
  <1>3. v = r /\ LockFreed(r, o, s)
    <2>1. ~(v = r /\ LockTaken(r, admitted, s))
      BY Zenon DEF LockTaken
    <2>2. LockMoves(r, o, admitted, reserving, v, s)
      BY Zenon, <1>2, EventLock
    <2> QED BY Zenon, <2>1, <2>2 DEF LockMoves
  <1>4. PICK tx \in Tx : Completes(r, o, tx) /\ nonceLock[r][s] = RequestOf[tx]
    BY Zenon, <1>3 DEF LockFreed
  <1>5. CompletedNow(r, tx)
    BY Zenon, <1>4, CompletesRequest
  <1> QED BY Zenon, <1>3, <1>4, <1>5 DEF CompletedNow

\* In the causal profile a held lock is live: the events that reserve execute
\* nothing, and the others free the lock of what they execute.
LiveOf(r) ==
    \A s \in Sender : nonceLock[r][s] # NoRequest =>
        /\ \A p \in Completions(r) : RequestOf[p.tx] # nonceLock[r][s]
        /\ header[r][nonceLock[r][s]] \in {tx \in Tx : SenderOf[tx] = s}

LEMMA LiveIsLive == LocksAreLive <=> \A r \in Honest : LiveOf(r)
  BY Zenon DEF LocksAreLive, LiveOf, Completed

\* One lock after a step, in terms of the rows it depends on.
LiveLock(r, s, lock, done, bound) ==
    lock # NoRequest => /\ \A p \in done : RequestOf[p.tx] # lock
                        /\ bound[lock] \in {tx \in Tx : SenderOf[tx] = s}

LEMMA LockType ==
    ASSUME IInv, NEW r \in Honest, NEW s \in Sender
    PROVE  nonceLock[r][s] \in Request \cup {NoRequest}
PROOF
  <1>1. nonceLock \in [Honest -> [Sender -> Request \cup {NoRequest}]]
    BY Zenon DEF IInv, TypeOK
  <1> QED BY Zenon, <1>1

LEMMA LockKept ==
    ASSUME IInv, NEW r \in Honest, NEW s \in Sender, LiveOf(r), HeadersStay(r),
           nonceLock'[r][s] = nonceLock[r][s], Elements(outcomes'[r]) = Completions(r)
    PROVE  LiveLock(r, s, nonceLock'[r][s], Elements(outcomes'[r]), header'[r])
PROOF
  <1> DEFINE l == nonceLock[r][s]
  <1> SUFFICES ASSUME l # NoRequest
               PROVE  /\ \A p \in Elements(outcomes'[r]) : RequestOf[p.tx] # l
                      /\ header'[r][l] \in {t \in Tx : SenderOf[t] = s}
    BY Zenon DEF LiveLock
  <1>1. l \in Request /\ NoTx \notin Tx
    BY Zenon, LockType, ChainedHotStuffAssumption
  <1>2. /\ \A p \in Completions(r) : RequestOf[p.tx] # l
        /\ header[r][l] \in {t \in Tx : SenderOf[t] = s}
    BY Zenon DEF LiveOf
  <1>3. header'[r][l] = header[r][l]
    BY Zenon, <1>1, <1>2 DEF HeadersStay
  <1> QED BY Zenon, <1>2, <1>3

LEMMA LockTakenLive ==
    ASSUME IInv, NEW r \in Honest, NEW tx \in Candidate, Rebinds(r, tx), NEW s \in Sender,
           LockTaken(r, tx, s), Elements(outcomes'[r]) = Completions(r)
    PROVE  LiveLock(r, s, nonceLock'[r][s], Elements(outcomes'[r]), header'[r])
PROOF
  <1>1. tx \in Tx /\ tx # NoTx /\ s = SenderOf[tx] /\ nonceLock'[r][s] = RequestOf[tx]
    BY Zenon DEF LockTaken, Reserves, Candidate
  <1>2. RequestOf[tx] \in Request
    BY Zenon, <1>1, OrderedEconomicsAssumption
  <1>3. header'[r][RequestOf[tx]] = tx
    BY Zenon, <1>1, <1>2, HeaderStays
  <1>4. \A p \in Completions(r) : RequestOf[p.tx] # RequestOf[tx]
    BY Zenon, <1>1 DEF LockTaken, AdmitForSigning, Completed
  <1> QED BY Zenon, <1>1, <1>3, <1>4 DEF LiveLock

\* An execution that leaves the lock alone is of another request.
LEMMA LockUntouched ==
    ASSUME IInv, NEW r \in Honest, NEW o, NEW tx \in Tx, Completes(r, o, tx),
           NEW s \in Sender, LiveOf(r), HeadersStay(r),
           nonceLock'[r][s] = nonceLock[r][s], ~Frees(r, o, s)
    PROVE  LiveLock(r, s, nonceLock'[r][s], Elements(outcomes'[r]), header'[r])
PROOF
  <1> DEFINE l == nonceLock[r][s]
  <1> SUFFICES ASSUME l # NoRequest
               PROVE  /\ \A p \in Elements(outcomes'[r]) : RequestOf[p.tx] # l
                      /\ header'[r][l] \in {t \in Tx : SenderOf[t] = s}
    BY Zenon DEF LiveLock
  <1>1. l \in Request /\ NoTx \notin Tx
    BY Zenon, LockType, ChainedHotStuffAssumption
  <1>2. header[r][l] \in {t \in Tx : SenderOf[t] = s}
    BY Zenon DEF LiveOf
  <1>3. RequestOf[tx] # l
    <2> SUFFICES ASSUME RequestOf[tx] = l PROVE FALSE
      BY Zenon
    <2>1. header[r][l] = tx /\ tx \in FirstCompleted(r, o)
      BY Zenon DEF Completes
    <2>2. SenderOf[tx] = s /\ Reserves(tx)
      BY Zenon, <1>1, <1>2, <2>1, OrderedEconomicsAssumption DEF Reserves
    <2> QED BY Zenon, <2>1, <2>2 DEF Frees, LockHolder
  <1>4. \A p \in Completions(r) : RequestOf[p.tx] # l
    BY Zenon DEF LiveOf
  <1>5. \A p \in Elements(outcomes'[r]) : p \in Completions(r) \/ p.tx = tx
    <2>1. CompletedNow(r, tx)
      BY Zenon, CompletesRequest
    <2> QED BY Zenon, <2>1 DEF CompletedNow
  <1>6. header'[r][l] = header[r][l]
    BY Zenon, <1>1, <1>2 DEF HeadersStay
  <1> QED BY Zenon, <1>2, <1>3, <1>4, <1>5, <1>6

LEMMA LiveRows ==
    ASSUME NEW r \in Honest,
           \A s \in Sender : LiveLock(r, s, nonceLock'[r][s], Elements(outcomes'[r]), header'[r])
    PROVE  LiveOf(r)'
  BY Zenon DEF LiveLock, LiveOf, Completions, Elements

LEMMA LiveStep ==
    ASSUME Causal, IInv, HandlerStep, \A r \in Honest : LiveOf(r), NEW v \in Honest
    PROVE  LiveOf(v)'
PROOF
  <1> SUFFICES ASSUME NEW s \in Sender
               PROVE  LiveLock(v, s, nonceLock'[v][s], Elements(outcomes'[v]), header'[v])
    BY Zenon, LiveRows
  <1>1. LiveOf(v)
    OBVIOUS
  <1>2. outcomes'[v] = outcomes[v] => Elements(outcomes'[v]) = Completions(v)
    BY Zenon DEF Elements, Completions
  <1>3. CASE UNCHANGED <<header, nonceLock, outcomes>>
    BY Zenon, <1>1, <1>2, <1>3, LockKept DEF HeadersStay
  <1>4. ASSUME NEW r \in Honest, NEW tx \in Candidate, Signs(r, tx)
        PROVE  LiveLock(v, s, nonceLock'[v][s], Elements(outcomes'[v]), header'[v])
    <2>1. Rebinds(r, tx) /\ Elements(outcomes'[v]) = Completions(v)
      BY Zenon, <1>2, <1>4 DEF Signs, Rebinds, AdmitForSigning, HeaderAgrees
    <2>2. HeadersStay(v)
      BY Zenon, <2>1, HeaderStays DEF HeadersStay
    <2>3. \/ nonceLock'[v][s] = nonceLock[v][s]
          \/ v = r /\ LockTaken(r, tx, s)
      BY Zenon, <1>4, SignsLock
    <2> QED BY Zenon, <1>1, <2>1, <2>2, <2>3, LockKept, LockTakenLive
  <1>5. ASSUME NEW r \in Honest, NEW o \in EngineOutput, NEW C \in SUBSET Block,
               NEW admitted \in Candidate, NEW reserving \in BOOLEAN,
               Event(r, o, C, admitted, reserving)
        PROVE  LiveLock(v, s, nonceLock'[v][s], Elements(outcomes'[v]), header'[v])
    <2>1. Rebinds(r, admitted) /\ (v # r => outcomes'[v] = outcomes[v])
      BY Zenon, <1>5 DEF Event, FinalizeEvent, Rebinds, IInv, TypeOK
    <2>2. HeadersStay(v)
      BY Zenon, <2>1, HeaderStays DEF HeadersStay
    <2>3. CompletesNone(r, o) \/ \E tx \in Tx : Completes(r, o, tx)
      BY Zenon, <1>5, EventCompletes DEF Event
    <2>4. reserving => ~ \E tx \in Tx : Completes(r, o, tx)
      BY Zenon, <1>5 DEF Event, Completes
    <2>5. LockMoves(r, o, admitted, reserving, v, s)
      BY Zenon, <1>5, EventLock
    <2>6. CASE v = r /\ LockFreed(r, o, s)
      BY Zenon, <2>6 DEF LockFreed, LiveLock
    <2>7. CASE v = r /\ reserving /\ LockTaken(r, admitted, s)
      <3>1. Elements(outcomes'[v]) = Completions(v)
        BY Zenon, <1>2, <2>3, <2>4, <2>7 DEF CompletesNone
      <3> QED BY Zenon, <2>1, <2>7, <3>1, LockTakenLive
    <2>8. CASE nonceLock'[v][s] = nonceLock[v][s] /\ ~(v = r /\ Frees(r, o, s))
      <3>1. CASE Elements(outcomes'[v]) = Completions(v)
        BY Zenon, <1>1, <2>2, <2>8, <3>1, LockKept
      <3>2. CASE v = r /\ \E tx \in Tx : Completes(r, o, tx)
        BY Zenon, <1>1, <2>2, <2>8, <3>2, LockUntouched
      <3> QED BY Zenon, <1>2, <2>1, <2>3, <3>1, <3>2 DEF CompletesNone
    <2> QED BY Zenon, <2>5, <2>6, <2>7, <2>8 DEF LockMoves
  <1> QED BY Zenon, <1>3, <1>4, <1>5 DEF HandlerStep, Finalizes

-------------------------------------------------------------------------------
(***************************************************************************)
(* Theorems.                                                               *)
(***************************************************************************)
\* The execution rows follow the committed chain after every handler.
THEOREM ExecutionInvariance == Spec => []ExecutionInv
PROOF
  <1>1. IInv /\ PrefixInv /\ ExecutionInv /\ [Next]_vars => ExecutionInv'
    <2> SUFFICES ASSUME IInv, PrefixInv, ExecutionInv, [Next]_vars PROVE ExecutionInv'
      BY Zenon
    <2>1. HandlerStep
      BY Zenon, NextShape
    <2> QED BY Zenon, <2>1, ExecutionStep
  <1> QED BY <1>1, InitExecution, PrefixInvariance, Invariance, PTL DEF Spec

\* Every candidate of the committed chain is executed once, in the order of
\* first placement, whatever is placed again, replayed or recovered.
THEOREM ExecutesOnceInOrder == Spec => []ExecutedOnceInOrder
PROOF
  <1>1. ExecutionInv => ExecutedOnceInOrder
    BY SMTT(20), ExecutionProperties
  <1> QED BY <1>1, ExecutionInvariance, PTL

\* No row is superseded twice and no nonce spent twice or out of order.
THEOREM SpendsOnce == Spec => []SpentOnce
PROOF
  <1>1. ExecutionInv => SpentOnce
    BY ExecutionProperties, Zenon
  <1> QED BY <1>1, ExecutionInvariance, PTL

\* What was executed for a request is what its header binds, ever after.
THEOREM CompletesAsBound == Spec => []CompletedAsBound
PROOF
  <1>1. ExecutionInv => CompletedAsBound
    BY ExecutionProperties
  <1> QED BY <1>1, ExecutionInvariance, PTL

\* No step takes a nonce lock away from a request but its own completion.
THEOREM ReleasesByCompletion == Spec => ReleasedOnlyByCompletion
PROOF
  <1>1. IInv /\ PrefixInv /\ [Next]_vars => [Release]_vars
    <2> SUFFICES ASSUME IInv, PrefixInv, [Next]_vars PROVE Release
      BY Zenon
    <2>1. HandlerStep
      BY Zenon, NextShape
    <2> QED BY Zenon, <2>1, ReleaseStep
  <1> QED BY <1>1, PrefixInvariance, Invariance, PTL DEF Spec, ReleasedOnlyByCompletion, Release

\* In the causal profile a nonce lock is held only for a request that is bound
\* to a candidate of that sender and has no outcome yet.
THEOREM HoldsLiveLocks ==
    ASSUME Causal
    PROVE  Spec => []LocksAreLive
PROOF
  <1> DEFINE Live == \A r \in Honest : LiveOf(r)
  <1>1. Init => Live
    <2> SUFFICES ASSUME Init, NEW r \in Honest, NEW s \in Sender PROVE nonceLock[r][s] = NoRequest
      BY Zenon DEF LiveOf
    <2>1. nonceLock = [q \in Honest |-> [t \in Sender |-> NoRequest]]
      BY Zenon DEF Init
    <2> QED BY Zenon, <2>1
  <1>2. IInv /\ PrefixInv /\ Live /\ [Next]_vars => Live'
    <2> SUFFICES ASSUME IInv, PrefixInv, Live, [Next]_vars, NEW v \in Honest PROVE LiveOf(v)'
      BY Zenon
    <2>1. HandlerStep
      BY Zenon, NextShape
    <2> QED BY Zenon, <2>1, LiveStep
  <1>3. Live => LocksAreLive
    BY Zenon, LiveIsLive
  <1> QED BY <1>1, <1>2, <1>3, PrefixInvariance, Invariance, PTL DEF Spec
===============================================================================
