-------------------------------- MODULE Outbox --------------------------------
(***************************************************************************)
(* Delivery of the messages that committed invocations leave in the durable *)
(* outbox (runtime-sql-durable/src/engine.rs), by request handlers and by   *)
(* recovery workers (native-http/src/lib.rs).  A worker reads its clock and *)
(* takes a fresh lease identity, claims the next message of a request under *)
(* that lease, sends it and acknowledges it.  Every storage operation is    *)
(* one transaction, fenced by the writer generation and by the deadline of  *)
(* the attempt, and its commit may be lost on the way back: the worker then *)
(* repeats it once under the same identity.  A lease that runs out is taken *)
(* over by the next claim; the worker that held it may still be running.    *)
(*                                                                          *)
(* A request is committed, with the rows of its messages, by Invoke; what   *)
(* else the invocation writes is module DurableNamespace.                   *)
(***************************************************************************)
EXTENDS Integers

CONSTANTS
    Request,    \* request identities, ordered
    Count,      \* messages that the invocation of a request emits
    Handler,    \* workers that execute a request and claim its outbox
    Recoverer,  \* workers that a scheduler lets claim what is due
    LeaseId,    \* lease identities, never reused by the identity source
    LeaseTime,  \* lease_duration_millis
    Timeout,    \* operation_timeout_millis
    Skew,       \* difference between a worker's clock and the store's
    MaxTime, MaxFence, MaxFaults,   \* bounds of the model
    None

Delivery == [next : Nat, available : Int, lease : LeaseId \cup {None}, expires : Int \cup {None}]
Attempt == [req : Request, idx : Nat, expires : Int, status : {"Claimed", "Acknowledged", "Expired"}]

ASSUME OutboxAssumption ==
    /\ Request \subseteq Nat /\ Count \in [Request -> Nat]
    /\ LeaseTime \in Nat /\ Timeout \in Nat \ {0} /\ Timeout < LeaseTime
    /\ Skew \in Nat /\ MaxTime \in Nat /\ MaxFence \in Nat \ {0} /\ MaxFaults \in Nat
    /\ LeaseId \subseteq Nat /\ None \notin Int \cup Attempt

VARIABLES
    now,        \* the store's clock
    fence,      \* the writer fence in the metadata row
    sealed,     \* the outgoing barrier of the namespace
    receipts,   \* requests whose invocation is committed
    deliv,      \* durable_outbox_delivery
    attempts,   \* durable_outbox_attempts
    sent,       \* messages handed to the transport at least once
    wk,         \* the running attempt of each worker
    config,     \* the writer fence each worker's process was started with
    faults      \* faults so far

Worker == Handler \cup Recoverer

store == <<fence, sealed, receipts, deliv, attempts>>
vars == <<now, store, sent, wk, config, faults>>

Idle == [pc |-> "idle", req |-> None, clock |-> 0, lease |-> None, msg |-> None]

Completed(r) == deliv[r].next = Count[r]
HasRow(r) == r \in receipts /\ Count[r] > 0
Deadline(w) == wk[w].clock + Timeout
Expiry(w) == wk[w].clock + LeaseTime

\* Every row has the type its columns give it.
TypeOK ==
    /\ now \in 0..MaxTime /\ fence \in 1..MaxFence /\ sealed \in BOOLEAN
    /\ receipts \subseteq Request
    /\ deliv \in [Request -> Delivery]
    /\ \A r \in Request : deliv[r].next <= Count[r]
    /\ attempts \in [LeaseId -> Attempt \cup {None}]
    /\ sent \subseteq Request \X Nat
    /\ wk \in [Worker -> [pc : {"idle", "invoke", "claim", "reclaim", "send", "ack", "reack"},
                          req : Request \cup {None}, clock : Int, lease : LeaseId \cup {None},
                          msg : (Request \X Nat) \cup {None}]]
    /\ config \in [Worker -> 1..fence]
    /\ faults \in 0..MaxFaults

Unclaimed(i) == [next |-> i, available |-> 0, lease |-> None, expires |-> None]

Init ==
    /\ now = 0 /\ fence = 1 /\ sealed = FALSE
    /\ receipts = {}
    /\ deliv = [r \in Request |-> Unclaimed(0)]
    /\ attempts = [l \in LeaseId |-> None]
    /\ sent = {}
    /\ wk = [w \in Worker |-> Idle]
    /\ config = [w \in Worker |-> 1]
    /\ faults = 0

-----------------------------------------------------------------------------
(* Transactions of the store. *)

\* validate_authority and check_deadline, with the deadline read again before
\* the commit.
Authorized(w) == config[w] = fence /\ now < Deadline(w)

\* Mutant: a request is due only while nobody has claimed it.
DueUnleased(t) ==
    {r \in Request : HasRow(r) /\ ~Completed(r) /\ deliv[r].available <= t /\ deliv[r].lease = None}

\* The row that a claim may take: the one asked for, or the first due one in
\* the order of the index.
Due(t) == {r \in Request : HasRow(r) /\ ~Completed(r) /\ deliv[r].available <= t}

Before(q, r) ==
    \/ deliv[q].available < deliv[r].available
    \/ deliv[q].available = deliv[r].available /\ q <= r

Target(w) ==
    IF wk[w].req # None
      THEN {wk[w].req} \cap Due(wk[w].clock)
      ELSE {r \in Due(wk[w].clock) : \A q \in Due(wk[w].clock) : Before(r, q)}

\* A lease identity that is already there is the retry of a claim: it answers
\* the claim again while its attempt stands and its lease has not run out.
Standing(l, t) ==
    LET a == attempts[l] d == deliv[a.req]
    IN  /\ a.status = "Claimed" /\ t < a.expires
        /\ ~Completed(a.req) /\ d.next = a.idx
        /\ d.lease = l /\ d.expires = a.expires /\ d.available = a.expires
        /\ ~sealed

Reconciled(w) ==
    /\ wk[w].req \in {None, attempts[wk[w].lease].req}
    /\ Standing(wk[w].lease, wk[w].clock)

\* An active lease that has run out must be the attempt of this very message.
ExpiredHolder(r, t) ==
    LET d == deliv[r] a == attempts[d.lease]
    IN  /\ d.expires <= t /\ d.available = d.expires
        /\ a # None
        /\ a.req = r /\ a.idx = d.next /\ a.expires = d.expires
        /\ a.status = "Claimed"

Installable(w, r) ==
    /\ ~sealed
    /\ deliv[r].next < Count[r]
    /\ deliv[r].lease = None \/ ExpiredHolder(r, wk[w].clock)

\* The message that the claim of w answers with, if it answers.
Claimable(w) ==
    LET a == attempts[wk[w].lease]
    IN  IF ~Authorized(w) THEN {}
        ELSE IF a # None THEN {m \in {<<a.req, a.idx>>} : Reconciled(w)}
        ELSE {<<r, deliv[r].next>> : r \in {q \in Target(w) : Installable(w, q)}}

\* Mutant: the lease is recorded with the time of the claim.
InstallAtClaim(w, r) ==
    LET l == wk[w].lease old == deliv[r].lease t == wk[w].clock
    IN  /\ deliv' = [deliv EXCEPT ![r].lease = l, ![r].expires = t, ![r].available = t]
        /\ attempts' =
            [k \in LeaseId |->
                IF k = l THEN [req |-> r, idx |-> deliv[r].next,
                               expires |-> t, status |-> "Claimed"]
                ELSE IF k = old THEN [attempts[k] EXCEPT !.status = "Expired"]
                ELSE attempts[k]]

\* Mutant: the attempt that is taken over stays claimed.
InstallOver(w, r) ==
    LET l == wk[w].lease
    IN  /\ deliv' = [deliv EXCEPT ![r].lease = l, ![r].expires = Expiry(w),
                                  ![r].available = Expiry(w)]
        /\ attempts' = [attempts EXCEPT ![l] = [req |-> r, idx |-> deliv[r].next,
                            expires |-> Expiry(w), status |-> "Claimed"]]

\* The attempt row is inserted, the one it takes over expires, and the
\* delivery row names the new lease.
Install(w, r) ==
    LET l == wk[w].lease old == deliv[r].lease
    IN  /\ deliv' = [deliv EXCEPT ![r].lease = l, ![r].expires = Expiry(w),
                                  ![r].available = Expiry(w)]
        /\ attempts' =
            [k \in LeaseId |->
                IF k = l THEN [req |-> r, idx |-> deliv[r].next,
                               expires |-> Expiry(w), status |-> "Claimed"]
                ELSE IF k = old THEN [attempts[k] EXCEPT !.status = "Expired"]
                ELSE attempts[k]]

CommitClaim(w, msg) ==
    IF attempts[wk[w].lease] # None
      THEN UNCHANGED <<deliv, attempts>>
      ELSE Install(w, msg[1])

\* A repeated acknowledgement finds its attempt acknowledged.
Replayed(a) ==
    /\ a.status = "Acknowledged"
    /\ a.idx < deliv[a.req].next /\ deliv[a.req].next <= Count[a.req]

\* The attempt is the active one of its message.  Nothing compares its expiry
\* with the clock: a lease that has run out stands until it is taken over.
Active(l, a) ==
    LET d == deliv[a.req]
    IN  /\ a.status = "Claimed" /\ d.next = a.idx /\ ~Completed(a.req)
        /\ d.lease = l /\ d.expires = a.expires /\ d.available = a.expires
        /\ ~sealed

Acknowledgeable(w) ==
    LET a == attempts[wk[w].lease]
    IN  /\ Authorized(w)
        /\ a # None /\ <<a.req, a.idx>> = wk[w].msg
        /\ Replayed(a) \/ Active(wk[w].lease, a)

\* Mutant: a repeated acknowledgement advances the cursor again.
CommitAckAgain(w) ==
    LET l == wk[w].lease r == attempts[l].req
    IN  /\ attempts' = [attempts EXCEPT ![l].status = "Acknowledged"]
        /\ deliv' = [deliv EXCEPT ![r] = Unclaimed(deliv[r].next + 1)]

\* The attempt is acknowledged and the cursor moves past its message.
CommitAck(w) ==
    LET l == wk[w].lease r == attempts[l].req
    IN  IF attempts[l].status = "Acknowledged"
          THEN UNCHANGED <<deliv, attempts>>
          ELSE /\ attempts' = [attempts EXCEPT ![l].status = "Acknowledged"]
               /\ deliv' = [deliv EXCEPT ![r] = Unclaimed(deliv[r].next + 1)]

-----------------------------------------------------------------------------
(* Workers. *)

Step(w, pc) == wk' = [wk EXCEPT ![w].pc = pc]
Stop(w) == wk' = [wk EXCEPT ![w] = Idle]
Fault == faults < MaxFaults /\ faults' = faults + 1

FreshLease == {l \in LeaseId : attempts[l] = None /\ \A w \in Worker : wk[w].lease # l}

\* The clock and the lease identity are read before anything is stored: by a
\* handler before it executes its request, by a recovery worker before it
\* knows which message it will get.
Begin(w, r) ==
    /\ wk[w].pc = "idle"
    /\ IF r = None THEN w \in Recoverer ELSE w \in Handler
    /\ FreshLease # {}
    /\ \E t \in (now - Skew)..(now + Skew) :
        /\ t >= 0
        /\ wk' = [wk EXCEPT ![w] =
                [pc |-> IF r = None THEN "claim" ELSE "invoke", req |-> r, clock |-> t,
                 lease |-> CHOOSE l \in FreshLease : \A k \in FreshLease : l <= k, msg |-> None]]
    /\ UNCHANGED <<now, store, sent, config, faults>>

\* The handler commits its invocation with the rows of its messages, or finds
\* its receipt: either way it goes on to claim.
Invokable(w) == Authorized(w) /\ (wk[w].req \in receipts \/ ~sealed)

Invoke(w) ==
    LET r == wk[w].req
    IN  /\ wk[w].pc = "invoke"
        /\ Invokable(w)
        /\ receipts' = receipts \cup {r}
        /\ deliv' = IF r \in receipts THEN deliv ELSE [deliv EXCEPT ![r] = Unclaimed(0)]
        /\ Step(w, "claim")
        /\ UNCHANGED <<now, fence, sealed, attempts, sent, config, faults>>

Claim(w) ==
    /\ wk[w].pc \in {"claim", "reclaim"}
    /\ \E msg \in Claimable(w) :
        /\ CommitClaim(w, msg)
        /\ wk' = [wk EXCEPT ![w].pc = "send", ![w].msg = msg]
    /\ UNCHANGED <<now, fence, sealed, receipts, sent, config, faults>>

\* The commit of the claim is lost, whether or not it took effect: the claim
\* is repeated once.
ClaimIndeterminate(w) ==
    /\ wk[w].pc \in {"claim", "reclaim"}
    /\ \E msg \in Claimable(w) : CommitClaim(w, msg) \/ UNCHANGED <<deliv, attempts>>
    /\ IF wk[w].pc = "claim" THEN Step(w, "reclaim") ELSE Stop(w)
    /\ Fault
    /\ UNCHANGED <<now, fence, sealed, receipts, sent, config>>

Send(w) ==
    /\ wk[w].pc = "send"
    /\ sent' = sent \cup {wk[w].msg}
    /\ Step(w, "ack")
    /\ UNCHANGED <<now, store, config, faults>>

Ack(w) ==
    /\ wk[w].pc \in {"ack", "reack"}
    /\ Acknowledgeable(w)
    /\ CommitAck(w)
    /\ Stop(w)
    /\ UNCHANGED <<now, fence, sealed, receipts, sent, config, faults>>

AckIndeterminate(w) ==
    /\ wk[w].pc \in {"ack", "reack"}
    /\ Acknowledgeable(w)
    /\ CommitAck(w) \/ UNCHANGED <<deliv, attempts>>
    /\ IF wk[w].pc = "ack" THEN Step(w, "reack") ELSE Stop(w)
    /\ Fault
    /\ UNCHANGED <<now, fence, sealed, receipts, sent, config>>

\* The store refuses, or has nothing due: the attempt is over.
Refused(w) ==
    /\ \/ wk[w].pc = "invoke" /\ ~Invokable(w)
       \/ wk[w].pc \in {"claim", "reclaim"} /\ Claimable(w) = {}
       \/ wk[w].pc \in {"ack", "reack"} /\ ~Acknowledgeable(w)
    /\ Stop(w)
    /\ UNCHANGED <<now, store, sent, config, faults>>

\* An error on the way: the store or the transport is unavailable, or the
\* transport reports a failure although the message left.
Abort(w) ==
    /\ wk[w].pc # "idle"
    /\ Stop(w)
    /\ Fault
    /\ UNCHANGED <<now, store, sent, config>>

-----------------------------------------------------------------------------
(* The operator, the epoch handoff and time. *)

\* Failover: the fence advances, and a process is replaced by one that is
\* configured with it.  Until then the old one keeps running.
AdvanceFence ==
    /\ fence < MaxFence
    /\ fence' = fence + 1
    /\ UNCHANGED <<now, sealed, receipts, deliv, attempts, sent, wk, config, faults>>

Restart(w) ==
    /\ config[w] # fence
    /\ config' = [config EXCEPT ![w] = fence]
    /\ Stop(w)
    /\ UNCHANGED <<now, store, sent, faults>>

\* Mutant: the Seal completes over messages that wait.
SealOver ==
    /\ ~sealed
    /\ sealed' = TRUE
    /\ UNCHANGED <<now, fence, receipts, deliv, attempts, sent, wk, config, faults>>

\* The Seal completes only over an outbox without messages, delivered or not.
Seal ==
    /\ ~sealed
    /\ \A r \in Request : ~HasRow(r)
    /\ sealed' = TRUE
    /\ UNCHANGED <<now, fence, receipts, deliv, attempts, sent, wk, config, faults>>

\* Time that nobody waits for is not counted.  Time that passes while an
\* attempt has work at hand counts as a fault: it may miss its deadline.
Busy ==
    \E w \in Worker :
        \/ wk[w].pc \in {"send", "ack", "reack"}
        \/ wk[w].pc = "invoke" /\ wk[w].req \notin receipts
        \/ wk[w].pc \in {"claim", "reclaim"} /\ Claimable(w) # {}

Tick ==
    /\ now < MaxTime
    /\ now' = now + 1
    /\ IF Busy THEN Fault
       ELSE /\ \E r \in Request : deliv[r].available > now
            /\ UNCHANGED faults
    /\ UNCHANGED <<store, sent, wk, config>>

Attempting(w) ==
    \/ \E r \in Request \cup {None} : Begin(w, r)
    \/ Invoke(w) \/ Claim(w) \/ Send(w) \/ Ack(w) \/ Refused(w)
    \/ ClaimIndeterminate(w) \/ AckIndeterminate(w) \/ Abort(w) \/ Restart(w)

Next == Tick \/ AdvanceFence \/ Seal \/ \E w \in Worker : Attempting(w)

Spec == Init /\ [][Next]_vars

\* The scheduler keeps calling the recovery of one message, a worker goes on
\* with what it began, the operator replaces a fenced process, time passes.
Fairness ==
    /\ WF_vars(Tick)
    /\ \A w \in Recoverer : WF_vars(Begin(w, None))
    /\ \A w \in Worker :
        /\ WF_vars(Claim(w) \/ Send(w) \/ Ack(w) \/ Invoke(w) \/ Refused(w))
        /\ WF_vars(Restart(w))

FairSpec == Spec /\ Fairness

-----------------------------------------------------------------------------
(* Properties. *)

\* A message that the cursor has passed was handed to the transport, and the
\* messages of a request are first sent in their order: nothing that happens
\* between a claim and its acknowledgement loses one.
AcknowledgedWasSent ==
    /\ \A r \in Request : \A i \in 0..(deliv[r].next - 1) : <<r, i>> \in sent
    /\ \A m \in sent : \A i \in 0..(m[2] - 1) : <<m[1], i>> \in sent

AckedUnder(l, r, i) ==
    /\ attempts[l] # None
    /\ attempts[l].req = r /\ attempts[l].idx = i
    /\ attempts[l].status = "Acknowledged"

\* The two outbox tables agree: an active lease is the claimed attempt of the
\* next message, every claimed attempt is the active lease of its request,
\* and each message below the cursor was acknowledged under exactly one
\* lease.  It is what the InvalidPersistedState branches guard against.
TablesAgree ==
    /\ \A r \in Request :
        LET d == deliv[r]
        IN  IF d.lease = None
              THEN d.available = 0 /\ d.expires = None
              ELSE /\ d.expires = d.available
                   /\ attempts[d.lease] =
                        [req |-> r, idx |-> d.next, expires |-> d.expires, status |-> "Claimed"]
    /\ \A l \in LeaseId :
        attempts[l] # None /\ attempts[l].status = "Claimed"
            => deliv[attempts[l].req].lease = l
    /\ \A r \in Request : \A i \in 0..(deliv[r].next - 1) :
        \E l \in LeaseId : AckedUnder(l, r, i)
    /\ \A r \in Request : \A i \in 0..Count[r], k, l \in LeaseId :
        AckedUnder(k, r, i) /\ AckedUnder(l, r, i) => k = l /\ i < deliv[r].next

Holding(w) == wk[w].pc \in {"send", "ack"} /\ now < Deadline(w)

\* Two workers never hold one message at the same time while both are within
\* the deadline of their attempt: the operation timeout is shorter than the
\* lease.
OneHolder ==
    \A v, w \in Worker :
        Holding(v) /\ Holding(w) /\ wk[v].msg = wk[w].msg => v = w

\* A sealed namespace leaves no message behind that can no longer be claimed.
SealStrandsNothing ==
    sealed => \A r \in receipts : Completed(r)

\* Every message of a committed invocation is delivered in the end, whatever
\* failed, crashed or was fenced on the way.
AllDelivered ==
    \A r \in Request : r \in receipts ~> deliv[r].next = Count[r]
====
