----------------------------- MODULE OutboxProofs -----------------------------
(***************************************************************************)
(* Proofs about module Outbox: leases, cursors and acknowledgements agree, *)
(* and no message is lost or held twice, for any number of requests,       *)
(* messages, workers and leases, and any times.                            *)
(***************************************************************************)
EXTENDS Outbox, WellFoundedInduction, TLAPS

-------------------------------------------------------------------------------
(* The inductive invariant *)

For(a, r, i) == a # None /\ a.req = r /\ a.idx = i

\* The delivery row of r: its lease is the claimed attempt of the next message,
\* and every earlier attempt of that message ended a lease before it.
RowOf(r, d, A) ==
    /\ d.lease = None =>
          d.available = 0 /\ d.expires = None /\ \A k \in LeaseId : ~For(A[k], r, d.next)
    /\ d.lease # None =>
          /\ d.expires = d.available
          /\ A[d.lease] = [req |-> r, idx |-> d.next, expires |-> d.expires, status |-> "Claimed"]
          /\ \A k \in LeaseId :
                k # d.lease /\ For(A[k], r, d.next) => A[k].expires + LeaseTime <= d.expires

\* The attempt under lease l, by its status.
AttemptOf(l, a, D, R) ==
    a # None =>
        /\ a.req \in R /\ a.idx <= D[a.req].next
        /\ a.status = "Claimed" => D[a.req].lease = l
        /\ a.status = "Acknowledged" => a.idx < D[a.req].next

\* Two attempts of one message are a lease apart, and not both acknowledged.
Apart(a, b) ==
    a # None /\ For(b, a.req, a.idx) =>
        /\ a.expires + LeaseTime <= b.expires \/ b.expires + LeaseTime <= a.expires
        /\ ~(a.status = "Acknowledged" /\ b.status = "Acknowledged")

AckedBelow(r, n, A) ==
    \A i \in 0..(n - 1) : \E l \in LeaseId : For(A[l], r, i) /\ A[l].status = "Acknowledged"

Tables(D, A, R) ==
    /\ \A r \in Request : RowOf(r, D[r], A) /\ AckedBelow(r, D[r].next, A)
    /\ \A r \in Request : r \notin R => D[r] = Unclaimed(0)
    /\ \A l \in LeaseId : AttemptOf(l, A[l], D, R)
    /\ \A k, l \in LeaseId : k # l => Apart(A[k], A[l])

\* What a worker in the middle of an attempt knows about the tables.
WorkOf(v, A, S, t) ==
    /\ v.pc = "idle" => v.lease = None
    /\ v.pc # "idle" => v.lease \in LeaseId /\ v.clock <= t + Skew
    /\ v.pc # "idle" /\ A[v.lease] # None => A[v.lease].expires = v.clock + LeaseTime
    /\ v.pc = "invoke" => v.req \in Request
    /\ v.pc \in {"send", "ack", "reack"} =>
          A[v.lease] # None /\ v.msg = <<A[v.lease].req, A[v.lease].idx>>
    /\ v.pc \in {"ack", "reack"} => v.msg \in S

OwnLeases == \A v, w \in Worker : v # w /\ wk[v].lease # None => wk[v].lease # wk[w].lease

\* In order, without gaps: the prefix of each request that was sent reaches at
\* least its cursor.
SentTo(D, S) ==
    /\ \A r \in Request : \A i \in 0..(D[r].next - 1) : <<r, i>> \in S
    /\ \A m \in S : \A i \in 0..(m[2] - 1) : <<m[1], i>> \in S

TablesInv ==
    /\ receipts \subseteq Request /\ deliv \in [Request -> Delivery]
    /\ \A r \in Request : deliv[r].next <= Count[r]
    /\ attempts \in [LeaseId -> Attempt \cup {None}] /\ sent \subseteq Request \X Nat
    /\ Tables(deliv, attempts, receipts)
    /\ SentTo(deliv, sent)
    /\ SealStrandsNothing

Work == [pc : {"idle", "invoke", "claim", "reclaim", "send", "ack", "reack"},
         req : Request \cup {None}, clock : Int, lease : LeaseId \cup {None},
         msg : (Request \X Nat) \cup {None}]

WorkInv ==
    /\ wk \in [Worker -> Work]
    /\ \A w \in Worker : WorkOf(wk[w], attempts, sent, now)
    /\ OwnLeases

MetaInv ==
    /\ now \in 0..MaxTime /\ fence \in 1..MaxFence /\ sealed \in BOOLEAN
    /\ config \in [Worker -> 1..fence] /\ faults \in 0..MaxFaults

OutboxInv == MetaInv /\ TablesInv /\ WorkInv

-------------------------------------------------------------------------------
(* The two transactions that change the tables *)

LEMMA NoneIsNoAttempt == /\ None \notin Attempt /\ None \notin LeaseId /\ None \notin Request
                         /\ LeaseId \subseteq Nat /\ Request \subseteq Nat /\ LeaseTime \in Nat
<1>1. /\ None \notin Int \cup Attempt /\ LeaseId \subseteq Nat /\ Request \subseteq Nat
      /\ LeaseTime \in Nat
    BY OutboxAssumption, Zenon
<1>2. None \notin Nat
    BY <1>1
<1> QED
    BY <1>1, <1>2, Zenon

\* The lease in a delivery row is the claimed attempt of its next message.
LEMMA Holder ==
    ASSUME TypeOK, Tables(deliv, attempts, receipts), NEW r \in Request, deliv[r].lease # None
    PROVE  LET l == deliv[r].lease
           IN  /\ l \in LeaseId /\ attempts[l] \in Attempt /\ attempts[l] # None
               /\ attempts[l].req = r /\ attempts[l].idx = deliv[r].next
               /\ attempts[l].status = "Claimed"
               /\ attempts[l].expires = deliv[r].expires /\ deliv[r].expires \in Int
               /\ deliv[r].available = deliv[r].expires
<1>1. RowOf(r, deliv[r], attempts) /\ deliv[r] \in Delivery
    BY Zenon DEF Tables, TypeOK
<1>2. /\ deliv[r].expires = deliv[r].available
      /\ attempts[deliv[r].lease] =
           [req |-> r, idx |-> deliv[r].next, expires |-> deliv[r].expires, status |-> "Claimed"]
    BY <1>1, Zenon DEF RowOf
<1>3. deliv[r].lease \in LeaseId /\ deliv[r].expires \in Int /\ deliv[r].next \in Nat
    BY <1>1, <1>2, Zenon DEF Delivery
<1>4. attempts[deliv[r].lease] \in Attempt
    BY <1>2, <1>3 DEF Attempt
<1> QED
    BY <1>2, <1>3, <1>4, NoneIsNoAttempt

\* What the tables look like to the claim of r under a new lease l at clock c.
Takes(l, r, c) ==
    /\ l \in LeaseId /\ attempts[l] = None /\ r \in receipts /\ r \in Request /\ c \in Int
    /\ deliv[r].next < Count[r]
    /\ deliv[r].lease # None => deliv[r].expires <= c
    /\ deliv' = [deliv EXCEPT ![r].lease = l, ![r].expires = c + LeaseTime, ![r].available = c + LeaseTime]
    /\ attempts' =
           [k \in LeaseId |->
               IF k = l THEN [req |-> r, idx |-> deliv[r].next, expires |-> c + LeaseTime, status |-> "Claimed"]
               ELSE IF k = deliv[r].lease THEN [attempts[k] EXCEPT !.status = "Expired"]
               ELSE attempts[k]]

\* Install takes a row over, or takes one that nobody holds.
LEMMA TakesRows ==
    ASSUME TypeOK, Tables(deliv, attempts, receipts), NEW l, NEW r, NEW c, Takes(l, r, c)
    PROVE  /\ deliv' \in [Request -> Delivery]
           /\ \A q \in Request : q # r => deliv'[q] = deliv[q]
           /\ deliv'[r] = [next |-> deliv[r].next, available |-> c + LeaseTime,
                           lease |-> l, expires |-> c + LeaseTime]
           /\ attempts' \in [LeaseId -> Attempt \cup {None}]
           /\ attempts'[l] = [req |-> r, idx |-> deliv[r].next, expires |-> c + LeaseTime, status |-> "Claimed"]
           /\ \A k \in LeaseId : k # l => attempts'[k] = attempts[k] \/
                 /\ k = deliv[r].lease /\ For(attempts[k], r, deliv[r].next)
                 /\ attempts[k].expires = deliv[r].expires
                 /\ attempts'[k] = [req |-> r, idx |-> deliv[r].next,
                                    expires |-> deliv[r].expires, status |-> "Expired"]
<1>1. deliv \in [Request -> Delivery] /\ deliv[r] \in Delivery /\ attempts \in [LeaseId -> Attempt \cup {None}]
    BY Zenon DEF TypeOK, Takes
<1>2. c + LeaseTime \in Int /\ l \in LeaseId /\ r \in Request /\ deliv[r].next \in Nat
    BY <1>1, NoneIsNoAttempt DEF Takes, Delivery
<1>3. deliv' = [deliv EXCEPT ![r] = [deliv[r] EXCEPT !.lease = l, !.expires = c + LeaseTime, !.available = c + LeaseTime]]
    BY Zenon DEF Takes
<1>4. [deliv[r] EXCEPT !.lease = l, !.expires = c + LeaseTime, !.available = c + LeaseTime]
      = [next |-> deliv[r].next, available |-> c + LeaseTime, lease |-> l, expires |-> c + LeaseTime]
  <2> DEFINE d == [deliv[r] EXCEPT !.lease = l]
             e == [d EXCEPT !.expires = c + LeaseTime]
  <2>1. d = [next |-> deliv[r].next, available |-> deliv[r].available, lease |-> l, expires |-> deliv[r].expires]
    BY <1>1 DEF Delivery
  <2> HIDE DEF d
  <2>2. e = [next |-> deliv[r].next, available |-> deliv[r].available, lease |-> l, expires |-> c + LeaseTime]
    BY <2>1
  <2> HIDE DEF e
  <2>3. [e EXCEPT !.available = c + LeaseTime]
        = [next |-> deliv[r].next, available |-> c + LeaseTime, lease |-> l, expires |-> c + LeaseTime]
    BY <2>2
  <2> QED
    BY <2>3, Zenon DEF d, e
<1>5. [next |-> deliv[r].next, available |-> c + LeaseTime, lease |-> l, expires |-> c + LeaseTime] \in Delivery
    BY <1>2, Zenon DEF Delivery
<1>6. /\ deliv' \in [Request -> Delivery]
      /\ \A q \in Request : q # r => deliv'[q] = deliv[q]
      /\ deliv'[r] = [next |-> deliv[r].next, available |-> c + LeaseTime, lease |-> l, expires |-> c + LeaseTime]
    BY <1>1, <1>2, <1>3, <1>4, <1>5, Zenon
<1>7. [req |-> r, idx |-> deliv[r].next, expires |-> c + LeaseTime, status |-> "Claimed"] \in Attempt
    BY <1>2, Zenon DEF Attempt
<1>8. /\ attempts'[l] = [req |-> r, idx |-> deliv[r].next, expires |-> c + LeaseTime, status |-> "Claimed"]
      /\ \A k \in LeaseId : k # l /\ k # deliv[r].lease => attempts'[k] = attempts[k]
      /\ \A k \in LeaseId : k # l /\ k = deliv[r].lease => attempts'[k] = [attempts[k] EXCEPT !.status = "Expired"]
    BY <1>2, Zenon DEF Takes
<1>9. ASSUME NEW k \in LeaseId, k = deliv[r].lease
      PROVE  /\ For(attempts[k], r, deliv[r].next) /\ attempts[k].expires = deliv[r].expires
             /\ [attempts[k] EXCEPT !.status = "Expired"] =
                  [req |-> r, idx |-> deliv[r].next, expires |-> deliv[r].expires, status |-> "Expired"]
             /\ [req |-> r, idx |-> deliv[r].next, expires |-> deliv[r].expires, status |-> "Expired"] \in Attempt
  <2>1. RowOf(r, deliv[r], attempts) /\ deliv[r].lease # None
    BY <1>2, <1>9, NoneIsNoAttempt, Zenon DEF Tables
  <2>2. attempts[k] = [req |-> r, idx |-> deliv[r].next, expires |-> deliv[r].expires, status |-> "Claimed"]
    BY <1>9, <2>1, Zenon DEF RowOf
  <2>3. deliv[r].expires = deliv[r].available /\ deliv[r].expires \in Int
    BY <1>1, <2>1, Zenon DEF RowOf, Delivery
  <2>4. attempts[k] \in Attempt
    BY <1>2, <2>2, <2>3 DEF Attempt
  <2>5. attempts[k] # None
    BY <2>4, NoneIsNoAttempt, Zenon
  <2> QED
    BY <1>2, <2>2, <2>3, <2>5 DEF For, Attempt
<1>10. attempts' \in [LeaseId -> Attempt \cup {None}]
  <2>1. ASSUME NEW k \in LeaseId PROVE attempts'[k] \in Attempt \cup {None}
    <3>1. CASE k = l
      BY <1>7, <1>8, <3>1, Zenon
    <3>2. CASE k # l /\ k = deliv[r].lease
      <4>1. attempts'[k] = [attempts[k] EXCEPT !.status = "Expired"]
        BY <1>8, <3>2, Zenon
      <4>2. [attempts[k] EXCEPT !.status = "Expired"] \in Attempt
        BY <1>9, <3>2, Zenon
      <4> QED
        BY <4>1, <4>2, Zenon
    <3>3. CASE k # l /\ k # deliv[r].lease
      BY <1>1, <1>8, <3>3, Zenon
    <3> QED
      BY <3>1, <3>2, <3>3, Zenon
  <2> QED
    BY <2>1, Zenon DEF Takes
<1> QED
    BY <1>6, <1>8, <1>9, <1>10

LEMMA TakesTables ==
    ASSUME TypeOK, Tables(deliv, attempts, receipts), NEW l, NEW r, NEW c, Takes(l, r, c)
    PROVE  Tables(deliv', attempts', receipts)
<1> DEFINE n == deliv[r].next
<1>1. /\ \A q \in Request : q # r => deliv'[q] = deliv[q]
      /\ deliv'[r] = [next |-> n, available |-> c + LeaseTime, lease |-> l, expires |-> c + LeaseTime]
      /\ attempts'[l] = [req |-> r, idx |-> n, expires |-> c + LeaseTime, status |-> "Claimed"]
      /\ \A k \in LeaseId : k # l => attempts'[k] = attempts[k] \/
            /\ k = deliv[r].lease /\ For(attempts[k], r, n)
            /\ attempts[k].expires = deliv[r].expires
            /\ attempts'[k] = [req |-> r, idx |-> n, expires |-> deliv[r].expires, status |-> "Expired"]
    BY TakesRows
<1>2. attempts' \in [LeaseId -> Attempt \cup {None}] /\ attempts \in [LeaseId -> Attempt \cup {None}]
    BY TakesRows, Zenon DEF TypeOK
<1>3. /\ l \in LeaseId /\ r \in Request /\ r \in receipts /\ c \in Int /\ attempts[l] = None
      /\ deliv[r].lease # None => deliv[r].expires <= c
      /\ deliv[r] \in Delivery /\ n \in Nat
    BY Zenon DEF Takes, TypeOK, Delivery
<1>4. \A q \in Request : RowOf(q, deliv[q], attempts) /\ AckedBelow(q, deliv[q].next, attempts)
    BY Zenon DEF Tables
<1>5. \A k \in LeaseId : AttemptOf(k, attempts[k], deliv, receipts)
    BY Zenon DEF Tables
<1>6. \A j, k \in LeaseId : j # k => Apart(attempts[j], attempts[k])
    BY Zenon DEF Tables
<1>n. LeaseTime \in Nat /\ None \notin Attempt /\ None \notin LeaseId
    BY NoneIsNoAttempt, Zenon
<1>u. deliv'[r].next = n /\ deliv'[r].lease = l /\ deliv'[r].expires = c + LeaseTime
    BY <1>1
<1> HIDE DEF n
\* What an attempt other than the new one keeps.
<1>7. ASSUME NEW k \in LeaseId, k # l
      PROVE  /\ \A q, i : For(attempts'[k], q, i) <=> For(attempts[k], q, i)
             /\ (attempts'[k] = None) <=> (attempts[k] = None)
             /\ attempts[k] # None =>
                   /\ attempts'[k].req = attempts[k].req /\ attempts'[k].idx = attempts[k].idx
                   /\ attempts'[k].expires = attempts[k].expires
                   /\ attempts'[k].status \in {attempts[k].status, "Expired"}
             /\ k = deliv[r].lease => attempts[k].status = "Claimed"
  <2>1. CASE attempts'[k] = attempts[k] /\ k # deliv[r].lease
    BY <2>1, Zenon
  <2>2. CASE k = deliv[r].lease
    <3>1. deliv[r].lease # None
      BY <1>n, <2>2, Zenon
    <3>2. attempts[k] \in Attempt /\ attempts[k] # None
      BY <1>3, <2>2, <3>1, Holder, Zenon
    <3>3. /\ attempts[k].req = r /\ attempts[k].idx = n /\ attempts[k].expires = deliv[r].expires
          /\ attempts[k].status = "Claimed"
      BY <1>3, <2>2, <3>1, Holder, Zenon DEF n
    <3>4. attempts[k] # None /\ deliv[r].expires \in Int
      BY <1>3, <2>2, <3>1, Holder, Zenon
    <3>5. [req |-> r, idx |-> n, expires |-> deliv[r].expires, status |-> "Expired"] \in Attempt
      BY <1>3, <3>4, Zenon DEF Attempt
    <3>6. CASE attempts'[k] = attempts[k]
      BY <2>2, <3>3, <3>4, <3>6, Zenon
    <3>7. CASE attempts'[k] = [req |-> r, idx |-> n, expires |-> deliv[r].expires, status |-> "Expired"]
      <4>1. /\ attempts'[k].req = r /\ attempts'[k].idx = n /\ attempts'[k].expires = deliv[r].expires
            /\ attempts'[k].status = "Expired"
        BY <3>7
      <4> QED
        BY <1>n, <2>2, <3>3, <3>4, <3>5, <3>7, <4>1, Zenon DEF For
    <3> QED
      BY <1>1, <1>7, <3>6, <3>7, Zenon
  <2> QED
    BY <1>1, <1>7, <2>1, <2>2, Zenon
<1>8. /\ attempts'[l] # None /\ attempts'[l].req = r /\ attempts'[l].idx = n
      /\ attempts'[l].expires = c + LeaseTime /\ attempts'[l].status = "Claimed"
  <2>1. attempts'[l] \in Attempt
    BY <1>1, <1>3, <1>n DEF Attempt
  <2> QED
    BY <1>1, <1>n, <2>1
\* Earlier attempts of the message ended before the new one began.
<1>9. ASSUME NEW k \in LeaseId, k # l, For(attempts[k], r, n)
      PROVE  attempts[k].expires + LeaseTime <= c + LeaseTime
  <2>1. deliv[r].lease # None /\ deliv[r].expires <= c
    BY <1>3, <1>4, <1>9, Zenon DEF RowOf, n
  <2>2. attempts[k].expires \in Int /\ deliv[r].expires \in Int
    BY <1>2, <1>3, <1>4, <1>9, <2>1, Zenon DEF For, Attempt, RowOf, Delivery
  <2>3. CASE k = deliv[r].lease
    <3>1. attempts[k].expires = deliv[r].expires
      BY <1>3, <2>1, <2>3, Holder, Zenon
    <3> QED
      BY <1>3, <1>n, <2>1, <2>2, <3>1
  <2>4. CASE k # deliv[r].lease
    <3>1. attempts[k].expires + LeaseTime <= deliv[r].expires
      BY <1>3, <1>4, <1>9, <2>1, <2>4, Zenon DEF RowOf, n
    <3> QED
      BY <1>3, <1>n, <2>1, <2>2, <3>1
  <2> QED
    BY <2>3, <2>4, Zenon
<1>10. ASSUME NEW q \in Request PROVE RowOf(q, deliv'[q], attempts')
  <2>1. CASE q = r
    <3>1. deliv'[q].lease # None /\ deliv'[q].expires = deliv'[q].available
      BY <1>1, <1>3, <1>n, <2>1
    <3>2. attempts'[deliv'[q].lease] =
            [req |-> q, idx |-> deliv'[q].next, expires |-> deliv'[q].expires, status |-> "Claimed"]
      BY <1>1, <1>u, <2>1, Zenon
    <3>3. ASSUME NEW k \in LeaseId, k # l, For(attempts'[k], r, n)
          PROVE  attempts'[k].expires + LeaseTime <= c + LeaseTime
      <4>1. For(attempts[k], r, n)
        BY <1>7, <3>3, Zenon
      <4>2. attempts'[k].expires = attempts[k].expires
        BY <1>7, <3>3, <4>1, Zenon DEF For
      <4> QED
        BY <1>9, <3>3, <4>1, <4>2, Zenon
    <3> QED
      BY <1>u, <2>1, <3>1, <3>2, <3>3, Zenon DEF RowOf
  <2>2. CASE q # r
    <3>1. deliv'[q] = deliv[q] /\ RowOf(q, deliv[q], attempts)
      BY <1>1, <1>4, <2>2, Zenon
    <3>2. ~For(attempts'[l], q, deliv[q].next)
      BY <1>8, <2>2, Zenon DEF For
    <3>3. CASE deliv[q].lease = None
      <4>1. \A k \in LeaseId : ~For(attempts'[k], q, deliv[q].next)
        BY <1>7, <3>1, <3>2, <3>3 DEF RowOf
      <4> QED
        BY <3>1, <3>3, <4>1, Zenon DEF RowOf
    <3>4. CASE deliv[q].lease # None
      <4> DEFINE j == deliv[q].lease
      <4>1. attempts[j] = [req |-> q, idx |-> deliv[q].next, expires |-> deliv[q].expires, status |-> "Claimed"]
        BY <3>1, <3>4, Zenon DEF RowOf
      <4>2. j \in LeaseId /\ deliv[q] \in Delivery
        BY <3>4, Zenon DEF TypeOK, Delivery
      <4>3. attempts[j] \in Attempt /\ attempts[j].req = q
        <5>1. deliv[q].expires = deliv[q].available /\ deliv[q].available \in Int /\ deliv[q].next \in Nat
          BY <3>1, <3>4, <4>2, Zenon DEF RowOf, Delivery
        <5> QED
          BY <4>1, <5>1 DEF Attempt
      <4>4. j # l
        BY <1>3, <1>n, <4>3, Zenon
      <4>5. j # deliv[r].lease
        <5>1. deliv[r].lease # None => attempts[deliv[r].lease].req = r
          BY <1>3, Holder, Zenon
        <5> QED
          BY <2>2, <3>4, <4>3, <5>1, Zenon
      <4>6. attempts'[j] = attempts[j]
        BY <1>1, <4>2, <4>4, <4>5, Zenon
      <4>7. ASSUME NEW k \in LeaseId, k # j, For(attempts'[k], q, deliv[q].next)
            PROVE  attempts'[k].expires + LeaseTime <= deliv[q].expires
        <5>1. k # l
          BY <3>2, <4>7, Zenon
        <5>2. For(attempts[k], q, deliv[q].next)
          BY <1>7, <4>7, <5>1, Zenon
        <5>3. attempts'[k].expires = attempts[k].expires
          BY <1>7, <5>1, <5>2, Zenon DEF For
        <5> QED
          BY <3>1, <3>4, <4>7, <5>2, <5>3, Zenon DEF RowOf
      <4> QED
        BY <3>1, <3>4, <4>1, <4>6, <4>7, Zenon DEF RowOf
    <3> QED
      BY <3>3, <3>4, Zenon
  <2> QED
    BY <2>1, <2>2, Zenon
<1>11. ASSUME NEW q \in Request PROVE AckedBelow(q, deliv'[q].next, attempts')
  <2>1. deliv'[q].next = deliv[q].next /\ AckedBelow(q, deliv[q].next, attempts)
    BY <1>1, <1>4, <1>u, Zenon DEF n
  <2>2. ASSUME NEW i \in 0..(deliv[q].next - 1)
        PROVE  \E k \in LeaseId : For(attempts'[k], q, i) /\ attempts'[k].status = "Acknowledged"
    <3>1. PICK k \in LeaseId : For(attempts[k], q, i) /\ attempts[k].status = "Acknowledged"
      BY <2>1, Zenon DEF AckedBelow
    <3>2. k # l
      BY <1>3, <3>1, Zenon DEF For
    <3>3. attempts'[k].status = "Acknowledged" /\ For(attempts'[k], q, i)
      <4>1. k # deliv[r].lease
        BY <1>7, <3>1, <3>2, Zenon
      <4>2. attempts'[k] = attempts[k]
        BY <1>1, <3>2, <4>1, Zenon
      <4> QED
        BY <3>1, <4>2, Zenon
    <3> QED
      BY <3>3, Zenon
  <2> QED
    BY <2>1, <2>2, Zenon DEF AckedBelow
<1>12. ASSUME NEW k \in LeaseId PROVE AttemptOf(k, attempts'[k], deliv', receipts)
  <2>1. CASE k = l
    <3>1. n <= n
      BY <1>3
    <3> QED
      BY <1>3, <1>8, <1>u, <2>1, <3>1, Zenon DEF AttemptOf
  <2>2. CASE k # l
    <3> SUFFICES ASSUME attempts'[k] # None PROVE AttemptOf(k, attempts'[k], deliv', receipts)
      BY Zenon DEF AttemptOf
    <3> DEFINE a == attempts[k]
               b == attempts'[k]
    <3>1. /\ a # None /\ b.req = a.req /\ b.idx = a.idx
          /\ b.status \in {a.status, "Expired"}
          /\ k = deliv[r].lease => a.status = "Claimed"
      BY <1>7, <2>2, Zenon
    <3>2. /\ a.req \in receipts /\ a.idx <= deliv[a.req].next
          /\ a.status = "Claimed" => deliv[a.req].lease = k
          /\ a.status = "Acknowledged" => a.idx < deliv[a.req].next
      BY <1>5, <3>1, Zenon DEF AttemptOf
    <3>3. a.req \in Request /\ deliv'[a.req].next = deliv[a.req].next
      BY <1>1, <1>2, <1>u, <3>1, Zenon DEF Attempt, n
    <3>4. b.status = "Claimed" => deliv'[a.req].lease = k
      <4> SUFFICES ASSUME b.status = "Claimed" PROVE deliv'[a.req].lease = k
        BY Zenon
      <4>1. a.status = "Claimed" /\ deliv[a.req].lease = k
        BY <3>1, <3>2, Zenon
      <4>2. k # deliv[r].lease
        <5> SUFFICES ASSUME k = deliv[r].lease PROVE FALSE
          BY Zenon
        <5>1. b = [a EXCEPT !.status = "Expired"]
          BY <2>2, Zenon DEF Takes
        <5>2. a \in Attempt
          BY <1>2, <3>1, Zenon
        <5> QED
          BY <5>1, <5>2, Zenon DEF Attempt
      <4>3. a.req # r
        BY <4>1, <4>2, Zenon
      <4> QED
        BY <1>1, <3>3, <4>1, <4>3, Zenon
    <3>5. b.status = "Acknowledged" => a.status = "Acknowledged"
      BY <3>1, Zenon
    <3> QED
      BY <3>1, <3>2, <3>3, <3>4, <3>5, Zenon DEF AttemptOf
  <2> QED
    BY <2>1, <2>2, Zenon
<1>13. ASSUME NEW j \in LeaseId, NEW k \in LeaseId, j # k PROVE Apart(attempts'[j], attempts'[k])
  <2> SUFFICES ASSUME attempts'[j] # None, For(attempts'[k], attempts'[j].req, attempts'[j].idx)
               PROVE  Apart(attempts'[j], attempts'[k])
    BY Zenon DEF Apart
  <2>1. CASE j = l
    <3>1. For(attempts[k], r, n) /\ attempts'[k].expires = attempts[k].expires
      BY <1>7, <1>8, <1>13, <2>1, Zenon DEF For
    <3> QED
      BY <1>8, <1>9, <1>13, <2>1, <3>1, Zenon DEF Apart
  <2>2. CASE k = l
    <3>1. For(attempts'[j], r, n)
      BY <1>8, <2>2, Zenon DEF For
    <3>2. For(attempts[j], r, n) /\ attempts'[j].expires = attempts[j].expires
      BY <1>7, <1>13, <2>2, <3>1, Zenon DEF For
    <3> QED
      BY <1>8, <1>9, <1>13, <2>2, <3>2, Zenon DEF Apart
  <2>3. CASE j # l /\ k # l
    <3>1. /\ attempts[j] # None /\ attempts'[j].req = attempts[j].req /\ attempts'[j].idx = attempts[j].idx
          /\ attempts'[j].expires = attempts[j].expires
          /\ attempts'[j].status = "Acknowledged" => attempts[j].status = "Acknowledged"
      BY <1>7, <2>3, Zenon
    <3>2. For(attempts[k], attempts[j].req, attempts[j].idx)
      BY <1>7, <2>3, <3>1, Zenon
    <3>3. /\ attempts'[k].expires = attempts[k].expires
          /\ attempts'[k].status = "Acknowledged" => attempts[k].status = "Acknowledged"
      BY <1>7, <2>3, <3>2, Zenon DEF For
    <3>4. /\ \/ attempts[j].expires + LeaseTime <= attempts[k].expires
             \/ attempts[k].expires + LeaseTime <= attempts[j].expires
          /\ ~(attempts[j].status = "Acknowledged" /\ attempts[k].status = "Acknowledged")
      BY <1>6, <1>13, <3>1, <3>2, Zenon DEF Apart
    <3> QED
      BY <3>1, <3>3, <3>4, Zenon DEF Apart
  <2> QED
    BY <2>1, <2>2, <2>3, Zenon
<1>14. ASSUME NEW q \in Request, q \notin receipts PROVE deliv'[q] = Unclaimed(0)
    BY <1>1, <1>3, <1>14, Zenon DEF Tables
<1> QED
    BY <1>10, <1>11, <1>12, <1>13, <1>14, Zenon DEF Tables

\* What the tables look like to the acknowledgement of the attempt under l.
Acks(l) ==
    LET a == attempts[l]
    IN  /\ l \in LeaseId /\ a # None
        /\ a.idx = deliv[a.req].next /\ deliv[a.req].next # Count[a.req] /\ deliv[a.req].lease = l
        /\ attempts' = [attempts EXCEPT ![l].status = "Acknowledged"]
        /\ deliv' = [deliv EXCEPT ![a.req] = Unclaimed(deliv[a.req].next + 1)]

LEMMA AcksRows ==
    ASSUME TypeOK, Tables(deliv, attempts, receipts), NEW l, Acks(l)
    PROVE  LET r == attempts[l].req
           IN  /\ r \in Request /\ r \in receipts /\ deliv' \in [Request -> Delivery]
               /\ \A q \in Request : q # r => deliv'[q] = deliv[q]
               /\ deliv'[r] = Unclaimed(deliv[r].next + 1)
               /\ deliv'[r].next = deliv[r].next + 1 /\ deliv'[r].next <= Count[r]
               /\ attempts' \in [LeaseId -> Attempt \cup {None}]
               /\ \A k \in LeaseId : k # l => attempts'[k] = attempts[k]
               /\ For(attempts'[l], r, deliv[r].next) /\ attempts'[l].status = "Acknowledged"
               /\ attempts'[l].expires = attempts[l].expires
<1> DEFINE a == attempts[l]
           r == a.req
<1>1. /\ deliv \in [Request -> Delivery] /\ attempts \in [LeaseId -> Attempt \cup {None}]
      /\ l \in LeaseId /\ a \in Attempt /\ a # None
    BY Zenon DEF TypeOK, Acks
<1>2. r \in Request /\ a.idx = deliv[r].next /\ deliv[r].next # Count[r]
    BY <1>1, Zenon DEF Acks, Attempt
<1>3. r \in receipts
    BY <1>1, Zenon DEF Tables, AttemptOf
<1>4. deliv[r].next \in Nat /\ Count[r] \in Nat /\ deliv[r].next <= Count[r]
    BY <1>1, <1>2, OutboxAssumption, Zenon DEF TypeOK, Delivery
<1>5. deliv[r].next + 1 \in Nat /\ deliv[r].next + 1 <= Count[r]
    BY <1>2, <1>4
<1>6. Unclaimed(deliv[r].next + 1) \in Delivery /\ Unclaimed(deliv[r].next + 1).next = deliv[r].next + 1
    BY <1>5 DEF Unclaimed, Delivery
<1>7. /\ deliv' \in [Request -> Delivery] /\ deliv'[r] = Unclaimed(deliv[r].next + 1)
      /\ \A q \in Request : q # r => deliv'[q] = deliv[q]
    BY <1>1, <1>2, <1>6, Zenon DEF Acks
<1>8. /\ attempts'[l] = [a EXCEPT !.status = "Acknowledged"]
      /\ \A k \in LeaseId : k # l => attempts'[k] = attempts[k]
    BY <1>1, Zenon DEF Acks
<1> HIDE DEF a
<1>9. /\ [a EXCEPT !.status = "Acknowledged"] \in Attempt
      /\ [a EXCEPT !.status = "Acknowledged"].req = a.req
      /\ [a EXCEPT !.status = "Acknowledged"].idx = a.idx
      /\ [a EXCEPT !.status = "Acknowledged"].expires = a.expires
      /\ [a EXCEPT !.status = "Acknowledged"].status = "Acknowledged"
    BY <1>1, Zenon DEF Attempt
<1>10. attempts' \in [LeaseId -> Attempt \cup {None}]
    BY <1>1, <1>9, Zenon DEF Acks, a
<1>11. For(attempts'[l], r, deliv[r].next)
    BY <1>2, <1>8, <1>9, NoneIsNoAttempt, Zenon DEF For
<1> QED
    BY <1>2, <1>3, <1>5, <1>6, <1>7, <1>8, <1>9, <1>10, <1>11 DEF a

LEMMA AcksTables ==
    ASSUME TypeOK, Tables(deliv, attempts, receipts), NEW l, Acks(l)
    PROVE  Tables(deliv', attempts', receipts)
<1> DEFINE r == attempts[l].req
           n == deliv[r].next
<1>1. /\ r \in Request /\ r \in receipts
      /\ \A q \in Request : q # r => deliv'[q] = deliv[q]
      /\ deliv'[r] = Unclaimed(n + 1) /\ deliv'[r].next = n + 1
      /\ \A k \in LeaseId : k # l => attempts'[k] = attempts[k]
      /\ For(attempts'[l], r, n) /\ attempts'[l].status = "Acknowledged"
      /\ attempts'[l].expires = attempts[l].expires
    BY AcksRows, Zenon
<1>2. l \in LeaseId /\ For(attempts[l], r, n) /\ deliv[r].lease = l /\ n \in Nat
    BY <1>1, Zenon DEF Acks, For, TypeOK, Delivery
<1>3. /\ \A q \in Request : RowOf(q, deliv[q], attempts) /\ AckedBelow(q, deliv[q].next, attempts)
      /\ \A k \in LeaseId : AttemptOf(k, attempts[k], deliv, receipts)
      /\ \A j, k \in LeaseId : j # k => Apart(attempts[j], attempts[k])
    BY Zenon DEF Tables
<1>4. /\ deliv \in [Request -> Delivery]
      /\ \A k \in LeaseId : attempts[k] # None =>
            attempts[k] \in Attempt /\ attempts[k].req \in Request /\ attempts[k].idx \in Nat
    BY Zenon DEF TypeOK, Attempt
<1>u. /\ Unclaimed(n + 1).next = n + 1 /\ Unclaimed(n + 1).lease = None
      /\ Unclaimed(n + 1).available = 0 /\ Unclaimed(n + 1).expires = None
    BY Zenon DEF Unclaimed
<1> HIDE DEF r, n
<1>5. \A q, i : For(attempts'[l], q, i) <=> For(attempts[l], q, i)
    BY <1>1, <1>2, Zenon DEF For
<1>6. \A k \in LeaseId : \A q, i : For(attempts'[k], q, i) <=> For(attempts[k], q, i)
    BY <1>1, <1>5, Zenon
\* No attempt is beyond the cursor, and none at it is acknowledged.
<1>7. ASSUME NEW k \in LeaseId, attempts[k] # None, attempts[k].req = r
      PROVE  attempts[k].idx <= n /\ (attempts[k].status = "Acknowledged" => attempts[k].idx < n)
    BY <1>3, <1>7, Zenon DEF AttemptOf, n
<1>8. ASSUME NEW q \in Request PROVE RowOf(q, deliv'[q], attempts')
  <2>1. CASE q = r
    <3>1. ASSUME NEW k \in LeaseId PROVE ~For(attempts'[k], r, n + 1)
      <4> SUFFICES ASSUME For(attempts[k], r, n + 1) PROVE FALSE
        BY <1>6, Zenon
      <4>1. n + 1 <= n
        BY <1>7, Zenon DEF For
      <4> QED
        BY <1>2, <4>1
    <3> QED
      BY <1>1, <1>u, <2>1, <3>1, Zenon DEF RowOf
  <2>2. CASE q # r
    <3>1. deliv'[q] = deliv[q] /\ RowOf(q, deliv[q], attempts)
      BY <1>1, <1>3, <2>2, Zenon
    <3>2. CASE deliv[q].lease = None
      BY <1>6, <3>1, <3>2, Zenon DEF RowOf
    <3>3. CASE deliv[q].lease # None
      <4>1. deliv[q].lease \in LeaseId /\ attempts[deliv[q].lease].req = q
        BY <3>3, Holder, Zenon
      <4>2. attempts'[deliv[q].lease] = attempts[deliv[q].lease]
        BY <1>1, <2>2, <4>1, Zenon DEF r
      <4>3. ASSUME NEW k \in LeaseId, k # deliv[q].lease, For(attempts'[k], q, deliv[q].next)
            PROVE  attempts'[k].expires + LeaseTime <= deliv[q].expires
        <5>1. For(attempts[k], q, deliv[q].next) /\ attempts'[k].expires = attempts[k].expires
          BY <1>1, <1>6, <4>3, Zenon
        <5> QED
          BY <3>1, <3>3, <4>3, <5>1, Zenon DEF RowOf
      <4> QED
        BY <3>1, <3>3, <4>2, <4>3, Zenon DEF RowOf
    <3> QED
      BY <3>2, <3>3, Zenon
  <2> QED
    BY <2>1, <2>2, Zenon
<1>9. ASSUME NEW q \in Request PROVE AckedBelow(q, deliv'[q].next, attempts')
  <2>1. ASSUME NEW i \in 0..(deliv[q].next - 1)
        PROVE  \E k \in LeaseId : For(attempts'[k], q, i) /\ attempts'[k].status = "Acknowledged"
    <3>1. PICK k \in LeaseId : For(attempts[k], q, i) /\ attempts[k].status = "Acknowledged"
      BY <1>3, Zenon DEF AckedBelow
    <3>2. For(attempts'[k], q, i) /\ attempts'[k].status = "Acknowledged"
      BY <1>1, <1>6, <3>1, Zenon
    <3> QED
      BY <3>2, Zenon
  <2>2. CASE q # r
    BY <1>1, <2>1, <2>2, Zenon DEF AckedBelow
  <2>3. CASE q = r
    <3>1. ASSUME NEW i \in 0..((n + 1) - 1)
          PROVE  \E k \in LeaseId : For(attempts'[k], q, i) /\ attempts'[k].status = "Acknowledged"
      <4>1. i = n \/ i \in 0..(deliv[q].next - 1)
        BY <1>2, <2>3 DEF n
      <4> QED
        BY <1>1, <1>2, <2>1, <2>3, <4>1, Zenon
    <3> QED
      BY <1>1, <2>3, <3>1, Zenon DEF AckedBelow
  <2> QED
    BY <2>2, <2>3, Zenon
<1>10. ASSUME NEW k \in LeaseId PROVE AttemptOf(k, attempts'[k], deliv', receipts)
  <2>1. CASE k = l
    BY <1>1, <1>2, <2>1 DEF AttemptOf, For
  <2>2. CASE k # l /\ attempts[k] # None
    <3>1. attempts'[k] = attempts[k] /\ AttemptOf(k, attempts[k], deliv, receipts)
      BY <1>1, <1>3, <2>2, Zenon
    <3>2. CASE attempts[k].req # r
      <4>1. deliv'[attempts[k].req] = deliv[attempts[k].req]
        BY <1>1, <1>4, <2>2, <3>2, Zenon
      <4> QED
        BY <3>1, <4>1, Zenon DEF AttemptOf
    <3>3. CASE attempts[k].req = r
      <4>1. /\ attempts[k].idx <= n /\ attempts[k].idx \in Nat
            /\ attempts[k].status # "Claimed"
        BY <1>2, <1>4, <1>7, <2>2, <3>1, <3>3, Zenon DEF AttemptOf
      <4>2. attempts[k].idx <= n + 1 /\ attempts[k].idx < n + 1
        BY <1>2, <4>1
      <4> QED
        BY <1>1, <2>2, <3>1, <3>3, <4>1, <4>2, Zenon DEF AttemptOf
    <3> QED
      BY <3>2, <3>3, Zenon
  <2>3. CASE k # l /\ attempts[k] = None
    BY <1>1, <2>3, Zenon DEF AttemptOf
  <2> QED
    BY <2>1, <2>2, <2>3, Zenon
<1>11. ASSUME NEW k \in LeaseId, k # l, For(attempts[k], r, n)
       PROVE  attempts[k].status # "Acknowledged"
    BY <1>2, <1>7, <1>11 DEF For
<1>12. ASSUME NEW j \in LeaseId, NEW k \in LeaseId, j # k PROVE Apart(attempts'[j], attempts'[k])
  <2> SUFFICES ASSUME attempts'[j] # None, For(attempts'[k], attempts'[j].req, attempts'[j].idx)
               PROVE  Apart(attempts'[j], attempts'[k])
    BY Zenon DEF Apart
  <2>1. /\ attempts[j] # None /\ attempts'[j].req = attempts[j].req /\ attempts'[j].idx = attempts[j].idx
        /\ attempts'[j].expires = attempts[j].expires
    BY <1>1, <1>2, Zenon DEF For
  <2>2. For(attempts[k], attempts[j].req, attempts[j].idx) /\ attempts'[k].expires = attempts[k].expires
    BY <1>1, <1>6, <2>1, Zenon
  <2>3. /\ \/ attempts[j].expires + LeaseTime <= attempts[k].expires
           \/ attempts[k].expires + LeaseTime <= attempts[j].expires
        /\ ~(attempts[j].status = "Acknowledged" /\ attempts[k].status = "Acknowledged")
    BY <1>3, <1>12, <2>1, <2>2, Zenon DEF Apart
  <2>4. ~(attempts'[j].status = "Acknowledged" /\ attempts'[k].status = "Acknowledged")
    <3>1. CASE j = l
      <4>1. For(attempts[k], r, n)
        BY <1>2, <2>2, <3>1, Zenon DEF For
      <4> QED
        BY <1>1, <1>11, <1>12, <3>1, <4>1, Zenon
    <3>2. CASE k = l
      <4>1. For(attempts[j], r, n)
        BY <1>2, <2>1, <2>2, <3>2, Zenon DEF For
      <4> QED
        BY <1>1, <1>11, <1>12, <3>2, <4>1, Zenon
    <3>3. CASE j # l /\ k # l
      BY <1>1, <2>3, <3>3, Zenon
    <3> QED
      BY <3>1, <3>2, <3>3, Zenon
  <2> QED
    BY <2>1, <2>2, <2>3, <2>4, Zenon DEF Apart
<1>13. ASSUME NEW q \in Request, q \notin receipts PROVE deliv'[q] = Unclaimed(0)
    BY <1>1, <1>13, Zenon DEF Tables
<1> QED
    BY <1>8, <1>9, <1>10, <1>12, <1>13, Zenon DEF Tables

LEMMA InvTypes == OutboxInv => TypeOK
    BY Zenon DEF OutboxInv, MetaInv, TablesInv, WorkInv, TypeOK, Work

-------------------------------------------------------------------------------
(* Steps of the tables *)

\* From A to B attempts keep what they are about, and only l may be new.
Grows(A, B, l) ==
    \A k \in LeaseId :
        /\ A[k] # None => /\ B[k] # None /\ B[k].req = A[k].req
                          /\ B[k].idx = A[k].idx /\ B[k].expires = A[k].expires
        /\ A[k] = None /\ k # l => B[k] = None

LEMMA TakesStep ==
    ASSUME TypeOK, TablesInv, ~sealed, NEW l, NEW r, NEW c, Takes(l, r, c),
           UNCHANGED <<sealed, receipts, sent>>
    PROVE  /\ TablesInv' /\ Grows(attempts, attempts', l) /\ attempts'[l] # None
           /\ attempts'[l].req = r /\ attempts'[l].idx = deliv[r].next
           /\ attempts'[l].expires = c + LeaseTime
<1>0. Tables(deliv, attempts, receipts) /\ SentTo(deliv, sent)
    BY Zenon DEF TablesInv
<1>1. /\ deliv' \in [Request -> Delivery]
      /\ \A q \in Request : q # r => deliv'[q] = deliv[q]
      /\ deliv'[r] = [next |-> deliv[r].next, available |-> c + LeaseTime, lease |-> l, expires |-> c + LeaseTime]
      /\ attempts' \in [LeaseId -> Attempt \cup {None}]
      /\ attempts'[l] = [req |-> r, idx |-> deliv[r].next, expires |-> c + LeaseTime, status |-> "Claimed"]
      /\ \A k \in LeaseId : k # l => attempts'[k] = attempts[k] \/
            /\ k = deliv[r].lease /\ For(attempts[k], r, deliv[r].next)
            /\ attempts[k].expires = deliv[r].expires
            /\ attempts'[k] = [req |-> r, idx |-> deliv[r].next,
                               expires |-> deliv[r].expires, status |-> "Expired"]
    BY <1>0, TakesRows, Zenon
<1>2. \A q \in Request : deliv'[q].next = deliv[q].next
    BY <1>1
<1>3. Tables(deliv', attempts', receipts')
    BY <1>0, TakesTables, Zenon
<1>4. SentTo(deliv', sent')
    BY <1>0, <1>2, Zenon DEF SentTo
<1>5. SealStrandsNothing' /\ receipts' \subseteq Request /\ sent' \subseteq Request \X Nat
    BY Zenon DEF SealStrandsNothing, TablesInv
<1>6. \A q \in Request : deliv'[q].next <= Count[q]
    BY <1>2, Zenon DEF TablesInv
<1>7. TablesInv'
    BY <1>1, <1>3, <1>4, <1>5, <1>6, Zenon DEF TablesInv
<1>8. l \in LeaseId /\ attempts[l] = None /\ r \in Request /\ c \in Int /\ deliv[r] \in Delivery
    BY Zenon DEF Takes, TypeOK
<1>9. attempts'[l] \in Attempt
    BY <1>1, <1>8, NoneIsNoAttempt DEF Attempt, Delivery
<1>10. ASSUME NEW k \in LeaseId, attempts[k] # None
       PROVE  /\ attempts'[k] # None /\ attempts'[k].req = attempts[k].req
              /\ attempts'[k].idx = attempts[k].idx /\ attempts'[k].expires = attempts[k].expires
  <2>1. k # l
    BY <1>8, <1>10, Zenon
  <2>2. CASE attempts'[k] = attempts[k]
    BY <1>10, <2>2, Zenon
  <2>3. CASE /\ k = deliv[r].lease /\ For(attempts[k], r, deliv[r].next)
             /\ attempts[k].expires = deliv[r].expires
             /\ attempts'[k] = [req |-> r, idx |-> deliv[r].next,
                                expires |-> deliv[r].expires, status |-> "Expired"]
    <3>1. attempts[k] \in Attempt
      BY <1>10, Zenon DEF TypeOK
    <3>2. attempts'[k] \in Attempt
      BY <2>3, <3>1 DEF Attempt, For
    <3> QED
      BY <2>3, <3>2, NoneIsNoAttempt DEF For
  <2> QED
    BY <1>1, <2>1, <2>2, <2>3, Zenon
<1>11. ASSUME NEW k \in LeaseId, attempts[k] = None, k # l PROVE attempts'[k] = None
    BY <1>1, <1>11, Zenon DEF For
<1> QED
    BY <1>1, <1>7, <1>9, <1>10, <1>11, NoneIsNoAttempt DEF Grows

LEMMA AcksStep ==
    ASSUME TypeOK, TablesInv, ~sealed, NEW l, Acks(l),
           <<attempts[l].req, attempts[l].idx>> \in sent, UNCHANGED <<sealed, receipts, sent>>
    PROVE  TablesInv' /\ Grows(attempts, attempts', None)
<1> DEFINE r == attempts[l].req
<1>0. Tables(deliv, attempts, receipts) /\ SentTo(deliv, sent)
    BY Zenon DEF TablesInv
<1>1. /\ r \in Request /\ r \in receipts /\ deliv' \in [Request -> Delivery]
      /\ \A q \in Request : q # r => deliv'[q] = deliv[q]
      /\ deliv'[r].next = deliv[r].next + 1 /\ deliv'[r].next <= Count[r]
      /\ attempts' \in [LeaseId -> Attempt \cup {None}]
      /\ \A k \in LeaseId : k # l => attempts'[k] = attempts[k]
      /\ For(attempts'[l], r, deliv[r].next)
      /\ attempts'[l].expires = attempts[l].expires
    BY <1>0, AcksRows, Zenon
<1>2. l \in LeaseId /\ attempts[l].idx = deliv[r].next /\ attempts[l] # None /\ deliv[r].next \in Nat
    BY <1>1, Zenon DEF Acks, TypeOK, Delivery
<1>3. Tables(deliv', attempts', receipts')
    BY <1>0, AcksTables, Zenon
<1>4. SentTo(deliv', sent')
  <2>1. ASSUME NEW q \in Request, NEW i \in 0..(deliv'[q].next - 1) PROVE <<q, i>> \in sent
    <3>1. CASE q # r
      BY <1>0, <1>1, <3>1, Zenon DEF SentTo
    <3>2. CASE q = r
      <4>1. i = deliv[r].next \/ i \in 0..(deliv[q].next - 1)
        BY <1>1, <1>2, <3>2
      <4> QED
        BY <1>0, <1>2, <3>2, <4>1, Zenon DEF SentTo
    <3> QED
      BY <3>1, <3>2, Zenon
  <2> QED
    BY <1>0, <2>1, Zenon DEF SentTo
<1>5. SealStrandsNothing' /\ receipts' \subseteq Request /\ sent' \subseteq Request \X Nat
    BY Zenon DEF SealStrandsNothing, TablesInv
<1>6. \A q \in Request : deliv'[q].next <= Count[q]
    BY <1>1, Zenon DEF TablesInv
<1>7. TablesInv'
    BY <1>1, <1>3, <1>4, <1>5, <1>6, Zenon DEF TablesInv
<1>8. Grows(attempts, attempts', None)
    BY <1>1, <1>2, Zenon DEF Grows, For
<1> QED
    BY <1>7, <1>8, Zenon

\* A claim answers with the message of the attempt under the worker's lease,
\* which it inserted now or, when it is repeated, before.
LEMMA ClaimEffect ==
    ASSUME OutboxInv, NEW w \in Worker, wk[w].pc \in {"claim", "reclaim"},
           NEW m \in Claimable(w), CommitClaim(w, m), UNCHANGED <<sealed, receipts, sent>>
    PROVE  LET l == wk[w].lease
           IN  /\ TablesInv' /\ Grows(attempts, attempts', l)
               /\ l \in LeaseId /\ attempts'[l] # None
               /\ m = <<attempts'[l].req, attempts'[l].idx>>
               /\ attempts'[l].expires = wk[w].clock + LeaseTime
<1> DEFINE l == wk[w].lease
           c == wk[w].clock
<1>0. TypeOK /\ TablesInv
    BY InvTypes, Zenon DEF OutboxInv
<1>1. l \in LeaseId /\ c \in Int /\ (attempts[l] # None => attempts[l].expires = c + LeaseTime)
    BY Zenon DEF OutboxInv, WorkInv, WorkOf, Work
<1>2. CASE attempts[l] # None
  <2>1. m = <<attempts[l].req, attempts[l].idx>> /\ Standing(l, c)
    BY <1>2, Zenon DEF Claimable, Reconciled
  <2>2. deliv' = deliv /\ attempts' = attempts
    BY <1>2, Zenon DEF CommitClaim
  <2>3. TablesInv'
    BY <1>0, <2>2, Zenon DEF TablesInv, SealStrandsNothing, Completed
  <2>4. Grows(attempts, attempts', l)
    BY <2>2, Zenon DEF Grows
  <2> QED
    BY <1>1, <1>2, <2>1, <2>2, <2>3, <2>4, Zenon
<1>3. CASE attempts[l] = None
  <2>1. PICK r \in Target(w) : Installable(w, r) /\ m = <<r, deliv[r].next>>
    BY <1>3, Zenon DEF Claimable
  <2>2. r \in Request /\ r \in receipts
    BY <2>1, Zenon DEF Target, Due, HasRow
  <2>3. Install(w, r) /\ m[1] = r
    BY <1>3, <2>1, Zenon DEF CommitClaim
  <2>4. /\ ~sealed /\ deliv[r].next < Count[r]
        /\ deliv[r].lease # None => deliv[r].expires <= c
    BY <2>1, Zenon DEF Installable, ExpiredHolder
  <2>5. Takes(l, r, c)
    BY <1>1, <1>3, <2>2, <2>3, <2>4, Zenon DEF Takes, Install, Expiry
  <2>6. /\ TablesInv' /\ Grows(attempts, attempts', l) /\ attempts'[l] # None
        /\ attempts'[l].req = r /\ attempts'[l].idx = deliv[r].next
        /\ attempts'[l].expires = c + LeaseTime
    BY <1>0, <2>4, <2>5, TakesStep
  <2> QED
    BY <1>1, <2>1, <2>6, Zenon
<1> QED
    BY <1>2, <1>3, Zenon

\* An acknowledgement moves the cursor past a message that was sent, or finds
\* that it has done so.
LEMMA AckEffect ==
    ASSUME OutboxInv, NEW w \in Worker, wk[w].pc \in {"ack", "reack"},
           Acknowledgeable(w), CommitAck(w), UNCHANGED <<sealed, receipts, sent>>
    PROVE  TablesInv' /\ Grows(attempts, attempts', None)
<1> DEFINE l == wk[w].lease
           a == attempts[l]
<1>0. TypeOK /\ TablesInv
    BY InvTypes, Zenon DEF OutboxInv
<1>1. l \in LeaseId /\ a # None /\ wk[w].msg = <<a.req, a.idx>> /\ wk[w].msg \in sent
    BY Zenon DEF OutboxInv, WorkInv, WorkOf
<1>2. CASE a.status = "Acknowledged"
  <2>1. deliv' = deliv /\ attempts' = attempts
    BY <1>2, Zenon DEF CommitAck
  <2>2. TablesInv'
    BY <1>0, <2>1, Zenon DEF TablesInv, SealStrandsNothing, Completed
  <2>3. Grows(attempts, attempts', None)
    BY <2>1, Zenon DEF Grows
  <2> QED
    BY <2>2, <2>3, Zenon
<1>3. CASE a.status # "Acknowledged"
  <2>1. Active(l, a)
    BY <1>3, Zenon DEF Acknowledgeable, Replayed
  <2>2. ~sealed /\ Acks(l)
    BY <1>1, <1>3, <2>1, Zenon DEF Active, Acks, CommitAck, Completed
  <2> QED
    BY <1>0, <1>1, <2>2, AcksStep, Zenon
<1> QED
    BY <1>2, <1>3, Zenon

-------------------------------------------------------------------------------
(* Steps of the workers *)

\* What another worker, or the store, does leaves a worker where it is.
LEMMA WorkLater ==
    ASSUME NEW v \in Work, NEW A, NEW B, NEW S, NEW T, NEW t \in Int, NEW u \in Int, NEW l,
           WorkOf(v, A, S, t), Grows(A, B, l), v.lease # None => v.lease # l, S \subseteq T, t <= u
    PROVE  WorkOf(v, B, T, u)
<1>1. CASE v.pc = "idle"
    BY <1>1, Zenon DEF WorkOf
<1>2. CASE v.pc # "idle"
  <2>1. /\ v.lease \in LeaseId /\ v.clock <= t + Skew
        /\ A[v.lease] # None => A[v.lease].expires = v.clock + LeaseTime
        /\ v.pc = "invoke" => v.req \in Request
    BY <1>2, Zenon DEF WorkOf
  <2>2. v.clock <= u + Skew
    BY <2>1, OutboxAssumption DEF Work
  <2>3. v.lease # l
    BY <2>1, NoneIsNoAttempt, Zenon
  <2>4. /\ A[v.lease] # None => /\ B[v.lease] # None /\ B[v.lease].req = A[v.lease].req
                                /\ B[v.lease].idx = A[v.lease].idx
                                /\ B[v.lease].expires = A[v.lease].expires
        /\ A[v.lease] = None => B[v.lease] = None
    BY <2>1, <2>3, Zenon DEF Grows
  <2>5. v.pc \in {"send", "ack", "reack"} =>
            B[v.lease] # None /\ v.msg = <<B[v.lease].req, B[v.lease].idx>>
    BY <2>4, Zenon DEF WorkOf
  <2>6. v.pc \in {"ack", "reack"} => v.msg \in T
    BY Zenon DEF WorkOf
  <2> QED
    BY <1>2, <2>1, <2>2, <2>4, <2>5, <2>6, Zenon DEF WorkOf
<1> QED
    BY <1>1, <1>2, Zenon

\* Worker w goes on to v; its lease is the one it had, a fresh one, or none.
LEMMA WorkerMoves ==
    ASSUME WorkInv, now \in Nat, now' = now, NEW w \in Worker, NEW v \in Work,
           wk' = [wk EXCEPT ![w] = v], WorkOf(v, attempts', sent', now),
           Grows(attempts, attempts', wk[w].lease), sent \subseteq sent',
           v.lease \in {None, wk[w].lease} \/ \A u \in Worker : wk[u].lease # v.lease
    PROVE  WorkInv'
<1>1. wk' \in [Worker -> Work] /\ wk'[w] = v /\ \A u \in Worker : u # w => wk'[u] = wk[u]
    BY Zenon DEF WorkInv
<1>2. ASSUME NEW u \in Worker PROVE WorkOf(wk'[u], attempts', sent', now')
  <2>1. CASE u = w
    BY <1>1, <2>1, Zenon
  <2>2. CASE u # w
    <3>1. /\ wk'[u] = wk[u] /\ wk[u] \in Work /\ WorkOf(wk[u], attempts, sent, now)
          /\ wk[u].lease # None => wk[u].lease # wk[w].lease
      BY <1>1, <2>2, Zenon DEF WorkInv, OwnLeases
    <3>2. now \in Int /\ now <= now
      OBVIOUS
    <3>3. WorkOf(wk[u], attempts', sent', now)
      BY <3>1, <3>2, WorkLater
    <3> QED
      BY <3>1, <3>3, Zenon
  <2> QED
    BY <2>1, <2>2, Zenon
<1>3. OwnLeases'
  <2>1. ASSUME NEW x \in Worker, NEW y \in Worker, x # y, wk'[x].lease # None
        PROVE  wk'[x].lease # wk'[y].lease
    <3>1. CASE x = w
      BY <1>1, <2>1, <3>1 DEF WorkInv, OwnLeases
    <3>2. CASE y = w
      BY <1>1, <2>1, <3>2 DEF WorkInv, OwnLeases
    <3>3. CASE x # w /\ y # w
      BY <1>1, <2>1, <3>3, Zenon DEF WorkInv, OwnLeases
    <3> QED
      BY <3>1, <3>2, <3>3, Zenon
  <2> QED
    BY <2>1, Zenon DEF OwnLeases
<1> QED
    BY <1>1, <1>2, <1>3, Zenon DEF WorkInv

LEMMA GrowsNot == \A l : Grows(attempts, attempts, l)
    BY Zenon DEF Grows

LEMMA GrowsMore == \A l : Grows(attempts, attempts', None) => Grows(attempts, attempts', l)
    BY NoneIsNoAttempt, Zenon DEF Grows

LEMMA IdleWork == Idle \in Work /\ Idle.lease = None /\ \A A, S, t : WorkOf(Idle, A, S, t)
<1>1. Idle.pc = "idle" /\ Idle.lease = None
    BY Zenon DEF Idle
<1>2. Idle \in Work
    BY DEF Idle, Work
<1> QED
    BY <1>1, <1>2, Zenon DEF WorkOf

\* A worker that stops, for whatever reason.
LEMMA StopStep ==
    ASSUME WorkInv, now \in Nat, now' = now, NEW w \in Worker, Stop(w),
           Grows(attempts, attempts', wk[w].lease), sent' = sent
    PROVE  WorkInv'
<1>1. wk' = [wk EXCEPT ![w] = Idle]
    BY Zenon DEF Stop
<1>2. Idle \in Work /\ Idle.lease \in {None, wk[w].lease} /\ WorkOf(Idle, attempts', sent', now)
    BY IdleWork, Zenon
<1>3. sent \subseteq sent'
    BY Zenon
<1> QED
    BY <1>1, <1>2, <1>3, WorkerMoves, Zenon

\* A worker that goes on to another place with what it has.
LEMMA PlaceStep ==
    ASSUME WorkInv, now \in Nat, now' = now, NEW w \in Worker, NEW x, Step(w, x),
           x \in {"claim", "reclaim", "ack", "reack"}, wk[w].pc # "idle",
           Grows(attempts, attempts', wk[w].lease), sent \subseteq sent',
           attempts'[wk[w].lease] # None => attempts'[wk[w].lease].expires = wk[w].clock + LeaseTime,
           x \in {"ack", "reack"} =>
               /\ attempts'[wk[w].lease] # None
               /\ wk[w].msg = <<attempts'[wk[w].lease].req, attempts'[wk[w].lease].idx>>
               /\ wk[w].msg \in sent'
    PROVE  WorkInv'
<1> DEFINE v == wk[w]
           u == [v EXCEPT !.pc = x]
<1>1. v \in Work /\ WorkOf(v, attempts, sent, now)
    BY Zenon DEF WorkInv
<1>2. wk' = [wk EXCEPT ![w] = u]
    BY Zenon DEF Step
<1>3. v.lease \in LeaseId /\ v.clock <= now + Skew
    BY <1>1, Zenon DEF WorkOf
<1> HIDE DEF v
<1>4. /\ u \in Work /\ u.pc = x /\ u.req = v.req /\ u.clock = v.clock
      /\ u.lease = v.lease /\ u.msg = v.msg
    BY <1>1, Zenon DEF Work
<1> HIDE DEF u
<1>5. WorkOf(u, attempts', sent', now)
    BY <1>3, <1>4, Zenon DEF WorkOf, v
<1>6. u.lease \in {None, wk[w].lease}
    BY <1>4, Zenon DEF v
<1> QED
    BY <1>2, <1>4, <1>5, <1>6, WorkerMoves, Zenon

LEMMA TablesStay ==
    ASSUME TablesInv, UNCHANGED <<sealed, receipts, deliv, attempts, sent>>
    PROVE  TablesInv' /\ \A l : Grows(attempts, attempts', l)
<1>1. TablesInv'
    BY Zenon DEF TablesInv, SealStrandsNothing, Completed
<1>2. \A l : Grows(attempts, attempts', l)
    BY GrowsNot, Zenon
<1> QED
    BY <1>1, <1>2, Zenon

LEMMA MetaStays ==
    ASSUME MetaInv, UNCHANGED <<now, fence, sealed, config>>, UNCHANGED faults \/ Fault
    PROVE  MetaInv'
<1>1. faults' \in 0..MaxFaults
    BY OutboxAssumption DEF MetaInv, Fault
<1> QED
    BY <1>1, Zenon DEF MetaInv

\* The identity source gives a lease that no attempt and no worker has.
LEMMA LeaseIsFresh ==
    ASSUME FreshLease # {}
    PROVE  (CHOOSE l \in FreshLease : \A k \in FreshLease : l <= k) \in FreshLease
<1>1. FreshLease \subseteq Nat
    BY NoneIsNoAttempt, Zenon DEF FreshLease
<1>2. \E l \in FreshLease : \A k \in FreshLease : ~(<<k, l>> \in OpToRel(<, Nat))
    BY <1>1, NatLessThanWellFounded, WFMin, Zenon
<1>3. \A k, l \in FreshLease : k < l => <<k, l>> \in OpToRel(<, Nat)
    BY <1>1, Zenon DEF OpToRel
<1>4. \E l \in FreshLease : \A k \in FreshLease : ~(k < l)
    BY <1>2, <1>3, Zenon
<1>5. \E l \in FreshLease : \A k \in FreshLease : l <= k
    BY <1>1, <1>4
<1> QED
    BY <1>5, Zenon

\* Begin: the lease is fresh, the clock close to the store's.
LEMMA BeginStep ==
    ASSUME OutboxInv, NEW w \in Worker, NEW r \in Request \cup {None}, Begin(w, r)
    PROVE  OutboxInv'
<1> DEFINE l == CHOOSE x \in FreshLease : \A k \in FreshLease : x <= k
<1>1. PICK t \in (now - Skew)..(now + Skew) :
          /\ t >= 0
          /\ wk' = [wk EXCEPT ![w] = [pc |-> IF r = None THEN "claim" ELSE "invoke", req |-> r,
                                      clock |-> t, lease |-> l, msg |-> None]]
    BY Zenon DEF Begin
<1>2. /\ UNCHANGED <<now, fence, sealed, receipts, deliv, attempts, sent, config, faults>>
      /\ FreshLease # {} /\ now \in Nat
    BY OutboxAssumption DEF Begin, store, OutboxInv, MetaInv
<1>3. l \in LeaseId /\ attempts[l] = None /\ \A u \in Worker : wk[u].lease # l
    BY <1>2, LeaseIsFresh, Zenon DEF FreshLease
<1> HIDE DEF l
<1> DEFINE v == [pc |-> IF r = None THEN "claim" ELSE "invoke", req |-> r, clock |-> t, lease |-> l, msg |-> None]
<1>4. t \in Int /\ t <= now + Skew
    BY <1>2, OutboxAssumption
<1>5. v \in Work /\ v.lease = l /\ v.clock = t /\ v.req = r /\ v.pc \in {"claim", "invoke"}
      /\ (v.pc = "invoke" => r # None)
    BY <1>3, <1>4, Zenon DEF Work
<1>6. wk' = [wk EXCEPT ![w] = v]
    BY <1>1, Zenon
<1> HIDE DEF v
<1>7. WorkOf(v, attempts', sent', now)
    BY <1>2, <1>3, <1>4, <1>5, Zenon DEF WorkOf
<1>8. Grows(attempts, attempts', wk[w].lease) /\ TablesInv'
    BY <1>2, TablesStay, Zenon DEF OutboxInv
<1>9. WorkInv'
    BY <1>2, <1>3, <1>5, <1>6, <1>7, <1>8, WorkerMoves, Zenon DEF OutboxInv
<1>10. MetaInv'
    BY <1>2, MetaStays, Zenon DEF OutboxInv
<1> QED
    BY <1>8, <1>9, <1>10, Zenon DEF OutboxInv

\* Invoke: the rows of a request that was not committed are as they were.
LEMMA InvokeStep ==
    ASSUME OutboxInv, NEW w \in Worker, Invoke(w)
    PROVE  OutboxInv'
<1> DEFINE r == wk[w].req
<1>1. /\ wk[w].pc = "invoke" /\ Invokable(w) /\ receipts' = receipts \cup {r}
      /\ deliv' = IF r \in receipts THEN deliv ELSE [deliv EXCEPT ![r] = Unclaimed(0)]
      /\ Step(w, "claim")
      /\ UNCHANGED <<now, fence, sealed, attempts, sent, config, faults>>
    BY Zenon DEF Invoke
<1>2. TablesInv /\ WorkInv /\ MetaInv /\ now \in Nat
    BY OutboxAssumption DEF OutboxInv, MetaInv
<1>3. /\ r \in Request /\ wk[w].lease \in LeaseId
      /\ attempts[wk[w].lease] # None => attempts[wk[w].lease].expires = wk[w].clock + LeaseTime
    BY <1>1, <1>2, Zenon DEF WorkInv, WorkOf
<1> HIDE DEF r
<1>4. deliv' = deliv
  <2>1. CASE r \in receipts
    BY <1>1, <2>1, Zenon
  <2>2. CASE r \notin receipts
    BY <1>1, <1>2, <1>3, <2>2, Zenon DEF TablesInv, Tables
  <2> QED
    BY <2>1, <2>2, Zenon
<1>5. Tables(deliv', attempts', receipts')
  <2>1. \A l \in LeaseId : AttemptOf(l, attempts[l], deliv, receipts')
    BY <1>1, <1>2, Zenon DEF TablesInv, Tables, AttemptOf
  <2>2. attempts' = attempts /\ receipts \subseteq receipts'
    BY <1>1, Zenon
  <2> QED
    BY <1>2, <1>4, <2>1, <2>2, Zenon DEF TablesInv, Tables
<1>6. SealStrandsNothing'
    BY <1>1, <1>2, <1>4, Zenon DEF TablesInv, SealStrandsNothing, Completed, Invokable, r
<1>7. TablesInv'
    BY <1>1, <1>2, <1>3, <1>4, <1>5, <1>6, Zenon DEF TablesInv
<1>8. Grows(attempts, attempts', wk[w].lease) /\ sent \subseteq sent' /\ attempts' = attempts
    BY <1>1, GrowsNot, Zenon
<1>9. WorkInv'
    BY <1>1, <1>2, <1>3, <1>8, PlaceStep, Zenon
<1>10. MetaInv'
    BY <1>1, <1>2, MetaStays, Zenon
<1> QED
    BY <1>7, <1>9, <1>10, Zenon DEF OutboxInv

\* Claim and ClaimIndeterminate.
LEMMA ClaimStep ==
    ASSUME OutboxInv, NEW w \in Worker, Claim(w) \/ ClaimIndeterminate(w)
    PROVE  OutboxInv'
<1> DEFINE l == wk[w].lease
<1>1. /\ UNCHANGED <<now, fence, sealed, receipts, sent, config>>
      /\ wk[w].pc \in {"claim", "reclaim"}
    BY Zenon DEF Claim, ClaimIndeterminate
<1>2. TablesInv /\ WorkInv /\ MetaInv /\ now \in Nat
    BY OutboxAssumption DEF OutboxInv, MetaInv
<1>3. MetaInv'
  <2>1. UNCHANGED faults \/ Fault
    BY Zenon DEF Claim, ClaimIndeterminate
  <2> QED
    BY <1>1, <1>2, <2>1, MetaStays, Zenon
<1>4. /\ wk[w] \in Work /\ l \in LeaseId /\ wk[w].clock <= now + Skew /\ wk[w].pc # "idle"
      /\ attempts[l] # None => attempts[l].expires = wk[w].clock + LeaseTime
  <2>1. wk[w] \in Work /\ WorkOf(wk[w], attempts, sent, now)
    BY <1>2, Zenon DEF WorkInv
  <2>2. wk[w].pc # "idle"
    BY Zenon DEF Claim, ClaimIndeterminate
  <2> QED
    BY <2>1, <2>2, Zenon DEF WorkOf
<1>5. CASE Claim(w)
  <2>1. PICK m \in Claimable(w) :
            CommitClaim(w, m) /\ wk' = [wk EXCEPT ![w].pc = "send", ![w].msg = m]
    BY <1>5, Zenon DEF Claim
  <2>2. wk[w].pc \in {"claim", "reclaim"}
    BY <1>5, Zenon DEF Claim
  <2>3. /\ TablesInv' /\ Grows(attempts, attempts', l) /\ attempts'[l] # None
        /\ m = <<attempts'[l].req, attempts'[l].idx>>
        /\ attempts'[l].expires = wk[w].clock + LeaseTime
    BY <1>1, <2>1, <2>2, ClaimEffect, Zenon
  <2>4. attempts'[l] \in Attempt
    BY <1>4, <2>3, Zenon DEF TablesInv
  <2>5. m \in Request \X Nat
    BY <2>3, <2>4, Zenon DEF Attempt
  <2> DEFINE u == [wk[w] EXCEPT !.pc = "send"]
             v == [u EXCEPT !.msg = m]
  <2>6. wk' = [wk EXCEPT ![w] = v]
    BY <2>1, Zenon
  <2>7. u \in Work /\ u.lease = l /\ u.clock = wk[w].clock /\ u.pc = "send"
    BY <1>4, Zenon DEF Work
  <2> HIDE DEF u
  <2>8. v \in Work /\ v.lease = l /\ v.clock = wk[w].clock /\ v.pc = "send" /\ v.msg = m
    BY <2>5, <2>7, Zenon DEF Work
  <2> HIDE DEF v
  <2>9. WorkOf(v, attempts', sent', now)
    BY <1>4, <2>3, <2>8, Zenon DEF WorkOf
  <2>10. sent \subseteq sent' /\ v.lease \in {None, wk[w].lease} /\ now' = now
    BY <1>1, <2>8, Zenon
  <2>11. WorkInv'
    BY <1>2, <2>3, <2>6, <2>8, <2>9, <2>10, WorkerMoves, Zenon
  <2> QED
    BY <1>3, <2>3, <2>11, Zenon DEF OutboxInv
<1>6. CASE ClaimIndeterminate(w)
  <2>1. /\ wk[w].pc \in {"claim", "reclaim"}
        /\ \E m \in Claimable(w) : CommitClaim(w, m) \/ UNCHANGED <<deliv, attempts>>
        /\ Step(w, "reclaim") \/ Stop(w)
    BY <1>6, Zenon DEF ClaimIndeterminate
  <2>2. /\ TablesInv' /\ Grows(attempts, attempts', l)
        /\ attempts'[l] # None => attempts'[l].expires = wk[w].clock + LeaseTime
    <3>1. CASE UNCHANGED <<deliv, attempts>>
      BY <1>1, <1>2, <1>4, <3>1, TablesStay, Zenon
    <3>2. ASSUME NEW m \in Claimable(w), CommitClaim(w, m)
          PROVE  /\ TablesInv' /\ Grows(attempts, attempts', l)
                 /\ attempts'[l].expires = wk[w].clock + LeaseTime
      BY <1>1, <2>1, <3>2, ClaimEffect, Zenon
    <3> QED
      BY <2>1, <3>1, <3>2, Zenon
  <2>3. sent \subseteq sent' /\ sent' = sent /\ now' = now
    BY <1>1, Zenon
  <2>4. WorkInv'
    <3>1. CASE Step(w, "reclaim")
      BY <1>2, <1>4, <2>2, <2>3, <3>1, PlaceStep, Zenon
    <3>2. CASE Stop(w)
      BY <1>2, <2>2, <2>3, <3>2, StopStep, Zenon
    <3> QED
      BY <2>1, <3>1, <3>2, Zenon
  <2> QED
    BY <1>3, <2>2, <2>4, Zenon DEF OutboxInv
<1> QED
    BY <1>5, <1>6, Zenon

\* Send: what is sent continues what was sent.
LEMMA SendStep ==
    ASSUME OutboxInv, NEW w \in Worker, Send(w)
    PROVE  OutboxInv'
<1> DEFINE l == wk[w].lease
           a == attempts[l]
<1>1. /\ wk[w].pc = "send" /\ sent' = sent \cup {wk[w].msg} /\ Step(w, "ack")
      /\ UNCHANGED <<now, fence, sealed, receipts, deliv, attempts, config, faults>>
    BY Zenon DEF Send, store
<1>2. TablesInv /\ WorkInv /\ MetaInv /\ now \in Nat
    BY OutboxAssumption DEF OutboxInv, MetaInv
<1>3. l \in LeaseId /\ a # None /\ wk[w].msg = <<a.req, a.idx>> /\ a.expires = wk[w].clock + LeaseTime
    BY <1>1, <1>2, Zenon DEF WorkInv, WorkOf
<1>4. /\ a \in Attempt /\ a.req \in Request /\ a.idx \in Nat /\ a.idx <= deliv[a.req].next
      /\ deliv[a.req].next \in Nat
    BY <1>2, <1>3, Zenon DEF TablesInv, Tables, AttemptOf, Attempt, Delivery
<1>5. SentTo(deliv', sent')
  <2>1. SentTo(deliv, sent) /\ deliv' = deliv
    BY <1>1, <1>2, Zenon DEF TablesInv
  <2>2. \A r \in Request : \A i \in 0..(deliv[r].next - 1) : <<r, i>> \in sent'
    BY <1>1, <2>1, Zenon DEF SentTo
  <2>3. ASSUME NEW m \in sent', NEW i \in 0..(m[2] - 1) PROVE <<m[1], i>> \in sent'
    <3>1. CASE m \in sent
      BY <1>1, <2>1, <3>1, Zenon DEF SentTo
    <3>2. CASE m = wk[w].msg
      <4>1. m[1] = a.req /\ m[2] = a.idx
        BY <1>3, <3>2
      <4>2. i \in 0..(deliv[a.req].next - 1)
        BY <1>4, <4>1
      <4> QED
        BY <1>4, <2>2, <4>1, <4>2, Zenon
    <3> QED
      BY <1>1, <3>1, <3>2, Zenon
  <2> QED
    BY <2>1, <2>2, <2>3, Zenon DEF SentTo
<1>6. sent' \subseteq Request \X Nat
  <2>1. sent \subseteq Request \X Nat
    BY <1>2, Zenon DEF TablesInv
  <2>2. <<a.req, a.idx>> \in Request \X Nat
    BY <1>4, Zenon
  <2> QED
    BY <1>1, <1>3, <2>1, <2>2, Zenon
<1>7. TablesInv'
    BY <1>1, <1>2, <1>5, <1>6, Zenon DEF TablesInv, SealStrandsNothing, Completed
<1>8. Grows(attempts, attempts', l) /\ sent \subseteq sent' /\ attempts' = attempts /\ wk[w].msg \in sent'
    BY <1>1, GrowsNot, Zenon
<1>9. WorkInv'
    BY <1>1, <1>2, <1>3, <1>8, PlaceStep, Zenon
<1>10. MetaInv'
    BY <1>1, <1>2, MetaStays, Zenon
<1> QED
    BY <1>7, <1>9, <1>10, Zenon DEF OutboxInv

\* Ack and AckIndeterminate.
LEMMA AckStep ==
    ASSUME OutboxInv, NEW w \in Worker, Ack(w) \/ AckIndeterminate(w)
    PROVE  OutboxInv'
<1> DEFINE l == wk[w].lease
<1>1. /\ UNCHANGED <<now, fence, sealed, receipts, sent, config>>
      /\ wk[w].pc \in {"ack", "reack"} /\ Acknowledgeable(w)
    BY Zenon DEF Ack, AckIndeterminate
<1>2. TablesInv /\ WorkInv /\ MetaInv /\ now \in Nat
    BY OutboxAssumption DEF OutboxInv, MetaInv
<1>3. MetaInv'
  <2>1. UNCHANGED faults \/ Fault
    BY Zenon DEF Ack, AckIndeterminate
  <2> QED
    BY <1>1, <1>2, <2>1, MetaStays, Zenon
<1>4. TablesInv' /\ Grows(attempts, attempts', None)
  <2>1. CASE UNCHANGED <<deliv, attempts>>
    BY <1>1, <1>2, <2>1, TablesStay, Zenon
  <2>2. CASE CommitAck(w)
    BY <1>1, <2>2, AckEffect, Zenon
  <2> QED
    BY <2>1, <2>2, Zenon DEF Ack, AckIndeterminate
<1>5. Grows(attempts, attempts', l)
    BY <1>4, GrowsMore, Zenon
<1>6. /\ l \in LeaseId /\ attempts[l] # None /\ wk[w].msg = <<attempts[l].req, attempts[l].idx>>
      /\ attempts[l].expires = wk[w].clock + LeaseTime /\ wk[w].msg \in sent /\ wk[w].pc # "idle"
    BY <1>1, <1>2, Zenon DEF WorkInv, WorkOf
<1>7. /\ attempts'[l] # None /\ attempts'[l].expires = wk[w].clock + LeaseTime
      /\ wk[w].msg = <<attempts'[l].req, attempts'[l].idx>>
    BY <1>5, <1>6, Zenon DEF Grows
<1>8. sent' = sent /\ sent \subseteq sent' /\ now' = now
    BY <1>1, Zenon
<1>9. Step(w, "reack") \/ Stop(w)
    BY Zenon DEF Ack, AckIndeterminate
<1>10. WorkInv'
  <2>1. CASE Step(w, "reack")
    BY <1>2, <1>5, <1>6, <1>7, <1>8, <2>1, PlaceStep, Zenon
  <2>2. CASE Stop(w)
    BY <1>2, <1>5, <1>8, <2>2, StopStep, Zenon
  <2> QED
    BY <1>9, <2>1, <2>2, Zenon
<1> QED
    BY <1>3, <1>4, <1>10, Zenon DEF OutboxInv

\* Refused, Abort and Restart: the worker stops, the store stays.
LEMMA EndStep ==
    ASSUME OutboxInv, NEW w \in Worker, Refused(w) \/ Abort(w) \/ Restart(w)
    PROVE  OutboxInv'
<1>1. UNCHANGED <<now, fence, sealed, receipts, deliv, attempts, sent>> /\ Stop(w)
    BY Zenon DEF Refused, Abort, Restart, store
<1>2. TablesInv /\ WorkInv /\ MetaInv /\ now \in Nat
    BY OutboxAssumption DEF OutboxInv, MetaInv
<1>3. TablesInv' /\ Grows(attempts, attempts', wk[w].lease)
    BY <1>1, <1>2, TablesStay, Zenon
<1>4. WorkInv'
    BY <1>1, <1>2, <1>3, StopStep, Zenon
<1>5. MetaInv'
  <2>1. CASE Refused(w) \/ Abort(w)
    <3>1. UNCHANGED config /\ (UNCHANGED faults \/ Fault)
      BY <2>1, Zenon DEF Refused, Abort
    <3> QED
      BY <1>1, <1>2, <3>1, MetaStays, Zenon
  <2>2. CASE Restart(w)
    <3>1. config' = [config EXCEPT ![w] = fence] /\ faults' = faults
      BY <2>2, Zenon DEF Restart
    <3>2. fence \in 1..fence
      BY <1>2, OutboxAssumption DEF MetaInv
    <3>3. config' \in [Worker -> 1..fence]
      BY <1>2, <3>1, <3>2, Zenon DEF MetaInv
    <3> QED
      BY <1>1, <1>2, <3>1, <3>3, Zenon DEF MetaInv
  <2> QED
    BY <2>1, <2>2, Zenon
<1> QED
    BY <1>3, <1>4, <1>5, Zenon DEF OutboxInv

\* Tick, AdvanceFence and Seal.
LEMMA StoreStep ==
    ASSUME OutboxInv, Tick \/ AdvanceFence \/ Seal \/ UNCHANGED vars
    PROVE  OutboxInv'
<1>1. UNCHANGED <<receipts, deliv, attempts, sent, wk, config>>
    BY Zenon DEF Tick, AdvanceFence, Seal, vars, store
<1>2. TablesInv /\ WorkInv /\ MetaInv /\ now \in Nat
    BY OutboxAssumption DEF OutboxInv, MetaInv
<1>3. now' \in 0..MaxTime /\ now <= now'
    BY <1>2, OutboxAssumption DEF Tick, AdvanceFence, Seal, vars, store, MetaInv
<1>4. fence' \in 1..MaxFence /\ fence <= fence' /\ fence \in Nat /\ fence' \in Nat
    BY <1>2, OutboxAssumption DEF Tick, AdvanceFence, Seal, vars, store, MetaInv
<1>5. config' \in [Worker -> 1..fence']
  <2>1. 1..fence \subseteq 1..fence'
    BY <1>4
  <2> QED
    BY <1>1, <1>2, <2>1, Zenon DEF MetaInv
<1>6. sealed' \in BOOLEAN /\ faults' \in 0..MaxFaults
  <2>1. sealed' \in {sealed, TRUE} /\ sealed \in BOOLEAN
    BY <1>2, Zenon DEF Tick, AdvanceFence, Seal, vars, store, MetaInv
  <2>2. faults' = faults \/ Fault
    BY Zenon DEF Tick, AdvanceFence, Seal, vars
  <2>3. faults' \in 0..MaxFaults
    BY <1>2, <2>2, OutboxAssumption DEF MetaInv, Fault
  <2> QED
    BY <2>1, <2>3, Zenon
<1>7. SealStrandsNothing'
  <2>1. CASE sealed' = sealed
    BY <1>1, <1>2, <2>1, Zenon DEF TablesInv, SealStrandsNothing, Completed
  <2>2. CASE Seal
    <3>1. ASSUME NEW r \in receipts PROVE deliv[r].next = Count[r]
      <4>1. r \in Request /\ ~(Count[r] > 0)
        BY <1>2, <2>2, Zenon DEF Seal, HasRow, TablesInv
      <4>2. Count[r] \in Nat /\ deliv[r].next \in Nat /\ deliv[r].next <= Count[r]
        BY <1>2, <4>1, OutboxAssumption, Zenon DEF TablesInv, Delivery
      <4> QED
        BY <4>1, <4>2
    <3> QED
      BY <1>1, <3>1, Zenon DEF SealStrandsNothing, Completed
  <2> QED
    BY <2>1, <2>2, Zenon DEF Tick, AdvanceFence, vars, store
<1>8. TablesInv'
    BY <1>1, <1>2, <1>7, Zenon DEF TablesInv
<1>9. ASSUME NEW w \in Worker PROVE WorkOf(wk'[w], attempts', sent', now')
  <2>1. wk[w] \in Work /\ WorkOf(wk[w], attempts, sent, now) /\ now \in Int /\ now' \in Int
    BY <1>2, <1>3 DEF WorkInv
  <2>2. Grows(attempts, attempts, None) /\ sent \subseteq sent
    BY GrowsNot, Zenon
  <2>3. WorkOf(wk[w], attempts, sent, now')
    BY <1>3, <2>1, <2>2, WorkLater, Zenon
  <2> QED
    BY <1>1, <2>3, Zenon
<1>10. WorkInv'
    BY <1>1, <1>2, <1>9, Zenon DEF WorkInv, OwnLeases
<1>11. MetaInv'
    BY <1>3, <1>4, <1>5, <1>6, Zenon DEF MetaInv
<1> QED
    BY <1>8, <1>10, <1>11, Zenon DEF OutboxInv

-------------------------------------------------------------------------------
(* Theorems *)

\* The inductive invariant: the delivery rows, the attempts and the workers
\* agree (claim_outbox and acknowledge_outbox), whatever is lost and whoever is
\* fenced.
THEOREM OutboxInvariance == Spec => []OutboxInv
<1>1. Init => OutboxInv
  <2> SUFFICES ASSUME Init PROVE OutboxInv
    BY Zenon
  <2>1. /\ \A r \in Request : deliv[r] = Unclaimed(0)
        /\ \A l \in LeaseId : attempts[l] = None
        /\ receipts = {} /\ sent = {} /\ sealed = FALSE /\ now = 0
        /\ \A w \in Worker : wk[w] = Idle
    BY Zenon DEF Init
  <2>2. /\ Unclaimed(0) \in Delivery /\ Unclaimed(0).next = 0 /\ Unclaimed(0).lease = None
        /\ Unclaimed(0).available = 0 /\ Unclaimed(0).expires = None
    BY DEF Unclaimed, Delivery
  <2>3. Tables(deliv, attempts, receipts)
    <3>1. \A r \in Request : RowOf(r, deliv[r], attempts)
      BY <2>1, <2>2, Zenon DEF RowOf, For
    <3>2. \A r \in Request : AckedBelow(r, deliv[r].next, attempts)
      BY <2>1, <2>2 DEF AckedBelow
    <3>3. \A l \in LeaseId : AttemptOf(l, attempts[l], deliv, receipts)
      BY <2>1, Zenon DEF AttemptOf
    <3>4. \A k, l \in LeaseId : Apart(attempts[k], attempts[l])
      BY <2>1, Zenon DEF Apart
    <3> QED
      BY <2>1, <3>1, <3>2, <3>3, <3>4, Zenon DEF Tables
  <2>4. SentTo(deliv, sent) /\ SealStrandsNothing
    BY <2>1, <2>2 DEF SentTo, SealStrandsNothing
  <2>5. \A r \in Request : deliv[r].next <= Count[r]
    <3> TAKE r \in Request
    <3>1. deliv[r].next = 0
      BY <2>1, <2>2, Zenon
    <3>2. Count[r] \in Nat
      BY OutboxAssumption, Zenon
    <3> QED
      BY <3>1, <3>2
  <2>6. /\ deliv \in [Request -> Delivery] /\ attempts \in [LeaseId -> Attempt \cup {None}]
        /\ receipts \subseteq Request /\ sent \subseteq Request \X Nat
    BY <2>2, Zenon DEF Init
  <2>7. TablesInv
    BY <2>3, <2>4, <2>5, <2>6, Zenon DEF TablesInv
  <2>8. WorkInv
    <3>1. wk \in [Worker -> Work]
      BY IdleWork, Zenon DEF Init
    <3>2. \A w \in Worker : WorkOf(wk[w], attempts, sent, now)
      BY <2>1, IdleWork, Zenon
    <3>3. OwnLeases
      BY <2>1, IdleWork, Zenon DEF OwnLeases
    <3> QED
      BY <3>1, <3>2, <3>3, Zenon DEF WorkInv
  <2>9. MetaInv
    <3>1. 0 \in 0..MaxTime /\ 1 \in 1..MaxFence /\ 0 \in 0..MaxFaults /\ 1 \in 1..1
      BY OutboxAssumption
    <3>2. now = 0 /\ fence = 1 /\ sealed = FALSE /\ faults = 0 /\ config = [w \in Worker |-> 1]
      BY Zenon DEF Init
    <3>3. config \in [Worker -> 1..1]
      BY <3>1, <3>2, Zenon
    <3> QED
      BY <3>1, <3>2, <3>3, Zenon DEF MetaInv
  <2> QED
    BY <2>7, <2>8, <2>9, Zenon DEF OutboxInv
<1>2. OutboxInv /\ [Next]_vars => OutboxInv'
  <2> SUFFICES ASSUME OutboxInv, [Next]_vars PROVE OutboxInv'
    BY Zenon
  <2>1. CASE Tick \/ AdvanceFence \/ Seal \/ UNCHANGED vars
    BY <2>1, StoreStep, Zenon
  <2>2. ASSUME NEW w \in Worker, Attempting(w) PROVE OutboxInv'
    <3>1. ASSUME NEW r \in Request \cup {None}, Begin(w, r) PROVE OutboxInv'
      BY <3>1, BeginStep, Zenon
    <3>2. CASE Invoke(w)
      BY <3>2, InvokeStep, Zenon
    <3>3. CASE Claim(w) \/ ClaimIndeterminate(w)
      BY <3>3, ClaimStep, Zenon
    <3>4. CASE Send(w)
      BY <3>4, SendStep, Zenon
    <3>5. CASE Ack(w) \/ AckIndeterminate(w)
      BY <3>5, AckStep, Zenon
    <3>6. CASE Refused(w) \/ Abort(w) \/ Restart(w)
      BY <3>6, EndStep, Zenon
    <3> QED
      BY <2>2, <3>1, <3>2, <3>3, <3>4, <3>5, <3>6, Zenon DEF Attempting
  <2> QED
    BY <2>1, <2>2, Zenon DEF Next
<1> QED
    BY <1>1, <1>2, PTL DEF Spec

\* Types of all rows and of the workers' state.
THEOREM OutboxTypes == Spec => []TypeOK
    BY OutboxInvariance, InvTypes, PTL

\* No message is lost between its claim and its acknowledgement, and the first
\* copies of the messages of a request leave in their order.
THEOREM NothingIsSkipped == Spec => []AcknowledgedWasSent
<1>1. OutboxInv => AcknowledgedWasSent
    BY Zenon DEF OutboxInv, TablesInv, SentTo, AcknowledgedWasSent
<1> QED
    BY <1>1, OutboxInvariance, PTL

\* durable_outbox_delivery and durable_outbox_attempts agree: the branches of
\* claim and acknowledgement that return InvalidPersistedState are unreachable.
THEOREM OutboxTablesAgree == Spec => []TablesAgree
<1>1. OutboxInv => TablesAgree
  <2> SUFFICES ASSUME OutboxInv PROVE TablesAgree
    BY Zenon
  <2>1. TypeOK /\ Tables(deliv, attempts, receipts)
    BY InvTypes, Zenon DEF OutboxInv, TablesInv
  <2>2. ASSUME NEW r \in Request
        PROVE  LET d == deliv[r]
               IN  IF d.lease = None
                     THEN d.available = 0 /\ d.expires = None
                     ELSE /\ d.expires = d.available
                          /\ attempts[d.lease] =
                               [req |-> r, idx |-> d.next, expires |-> d.expires, status |-> "Claimed"]
    <3>1. RowOf(r, deliv[r], attempts)
      BY <2>1, Zenon DEF Tables
    <3> QED
      BY <3>1, Zenon DEF RowOf
  <2>3. ASSUME NEW l \in LeaseId, attempts[l] # None, attempts[l].status = "Claimed"
        PROVE  deliv[attempts[l].req].lease = l
    BY <2>1, <2>3, Zenon DEF Tables, AttemptOf
  <2>4. ASSUME NEW r \in Request, NEW i \in 0..(deliv[r].next - 1)
        PROVE  \E l \in LeaseId : AckedUnder(l, r, i)
    <3>1. AckedBelow(r, deliv[r].next, attempts)
      BY <2>1, Zenon DEF Tables
    <3>2. PICK l \in LeaseId : For(attempts[l], r, i) /\ attempts[l].status = "Acknowledged"
      BY <3>1, Zenon DEF AckedBelow
    <3> QED
      BY <3>2, Zenon DEF AckedUnder, For
  <2>5. ASSUME NEW r \in Request, NEW i \in 0..Count[r], NEW k \in LeaseId, NEW l \in LeaseId,
               AckedUnder(k, r, i), AckedUnder(l, r, i)
        PROVE  k = l /\ i < deliv[r].next
    <3>1. AttemptOf(k, attempts[k], deliv, receipts) /\ (k # l => Apart(attempts[k], attempts[l]))
      BY <2>1, Zenon DEF Tables
    <3> QED
      BY <2>5, <3>1, Zenon DEF AttemptOf, Apart, For, AckedUnder
  <2> QED
    <3>1. \A l \in LeaseId : attempts[l] # None /\ attempts[l].status = "Claimed"
                => deliv[attempts[l].req].lease = l
      BY <2>3, Zenon
    <3>2. \A r \in Request : \A i \in 0..(deliv[r].next - 1) : \E l \in LeaseId : AckedUnder(l, r, i)
      BY <2>4, Zenon
    <3>3. \A r \in Request : \A i \in 0..Count[r], k, l \in LeaseId :
                AckedUnder(k, r, i) /\ AckedUnder(l, r, i) => k = l /\ i < deliv[r].next
      BY <2>5, Zenon
    <3> QED
      BY <2>2, <3>1, <3>2, <3>3, Zenon DEF TablesAgree
<1> QED
    BY <1>1, OutboxInvariance, PTL

\* A sealed namespace has no message that waits.
THEOREM SealLeavesNothing == Spec => []SealStrandsNothing
<1>1. OutboxInv => SealStrandsNothing
    BY Zenon DEF OutboxInv, TablesInv
<1> QED
    BY <1>1, OutboxInvariance, PTL

\* A clock that is a lease later than another, yet hardly ahead of the store's,
\* is past the other one's deadline.
LEMMA ClocksApart ==
    ASSUME NEW p \in Int, NEW q \in Int, NEW t \in Nat, NEW T \in Nat, NEW S \in Nat, NEW L \in Nat,
           T + S <= L, q <= t + S, t < p + T
    PROVE  ~(p + L + L <= q + L)
    OBVIOUS

\* Two workers within their deadlines never hold one message, as long as the
\* operation timeout and the error of a worker's clock fit in a lease: the
\* lease is given for the worker's clock, the deadline is the store's.
THEOREM HoldersAreAlone ==
    ASSUME Timeout + Skew <= LeaseTime
    PROVE  Spec => []OneHolder
<1>1. OutboxInv => OneHolder
  <2> SUFFICES ASSUME OutboxInv, NEW v \in Worker, NEW w \in Worker, v # w,
                      Holding(v), Holding(w), wk[v].msg = wk[w].msg
               PROVE  FALSE
    BY Zenon DEF OneHolder
  <2> DEFINE a == attempts[wk[v].lease]
             b == attempts[wk[w].lease]
  <2>1. /\ wk[v].lease \in LeaseId /\ wk[v].clock \in Int /\ wk[v].clock <= now + Skew
        /\ a # None /\ a.expires = wk[v].clock + LeaseTime /\ wk[v].msg = <<a.req, a.idx>>
    BY Zenon DEF Holding, OutboxInv, WorkInv, WorkOf, Work
  <2>2. /\ wk[w].lease \in LeaseId /\ wk[w].clock \in Int /\ wk[w].clock <= now + Skew
        /\ b # None /\ b.expires = wk[w].clock + LeaseTime /\ wk[w].msg = <<b.req, b.idx>>
    BY Zenon DEF Holding, OutboxInv, WorkInv, WorkOf, Work
  <2>3. wk[v].lease # wk[w].lease
    BY <2>1, NoneIsNoAttempt, Zenon DEF OutboxInv, WorkInv, OwnLeases
  <2>4. Apart(a, b)
    BY <2>1, <2>2, <2>3, Zenon DEF OutboxInv, TablesInv, Tables
  <2> HIDE DEF a, b
  <2>5. For(b, a.req, a.idx)
    <3>1. a.req = b.req /\ a.idx = b.idx
      <4>1. <<a.req, a.idx>> = <<b.req, b.idx>>
        BY <2>1, <2>2, Zenon
      <4> QED
        BY <4>1, Zenon
    <3> QED
      BY <2>2, <3>1, Zenon DEF For
  <2>6. a.expires + LeaseTime <= b.expires \/ b.expires + LeaseTime <= a.expires
    BY <2>1, <2>4, <2>5, Zenon DEF Apart
  <2>7. now < wk[v].clock + Timeout /\ now < wk[w].clock + Timeout
    BY Zenon DEF Holding, Deadline
  <2>8. now \in Nat /\ Timeout \in Nat /\ Skew \in Nat /\ LeaseTime \in Nat
    BY OutboxAssumption DEF OutboxInv, MetaInv
  <2>9. ~(wk[v].clock + LeaseTime + LeaseTime <= wk[w].clock + LeaseTime)
    BY <2>1, <2>2, <2>7, <2>8, ClocksApart, Zenon
  <2>10. ~(wk[w].clock + LeaseTime + LeaseTime <= wk[v].clock + LeaseTime)
    BY <2>1, <2>2, <2>7, <2>8, ClocksApart, Zenon
  <2>11. a.expires = wk[v].clock + LeaseTime /\ b.expires = wk[w].clock + LeaseTime
    BY <2>1, <2>2, Zenon
  <2> QED
    BY <2>6, <2>9, <2>10, <2>11, Zenon
<1> QED
    BY <1>1, OutboxInvariance, PTL
===============================================================================
