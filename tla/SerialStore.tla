------------------------------ MODULE SerialStore ------------------------------
(***************************************************************************)
(* What a durable namespace promises: transactions happen one at a time,   *)
(* each computing what it writes from the values it finds, a request at    *)
(* most once, and none after the closing one.                              *)
(***************************************************************************)
CONSTANTS
    Cell,           \* state rows and objects
    Id, Event,      \* request identities, and the events that carry them
    IdOf,           \* the identity an event carries
    Bare,           \* transactions without a receipt
    Closing,        \* the event that closes the namespace
    Reads, Writes,  \* the cells an event reads, and among them those it writes
    Apply(_, _),    \* what an event writes, from the values it reads
    None

VARIABLES
    val,            \* the value of each cell
    done,           \* the event executed for each identity
    closed

vars == <<val, done, closed>>

Init ==
    /\ val = [c \in Cell |-> None]
    /\ done = [i \in Id |-> None]
    /\ closed = FALSE

Execute(e) ==
    /\ ~closed
    /\ e \notin Bare => done[IdOf[e]] = None
    /\ LET new == Apply(e, [c \in Reads[e] |-> val[c]])
       IN  val' = [c \in Cell |-> IF c \in Writes[e] THEN new[c] ELSE val[c]]
    /\ done' = [i \in Id |-> IF i = IdOf[e] /\ e \notin Bare THEN e ELSE done[i]]
    /\ closed' = (e = Closing)

Next == \E e \in Event : Execute(e)

Spec == Init /\ [][Next]_vars
===============================================================================
