--------------------------- MODULE MCNamespaceImport ---------------------------
(***************************************************************************)
(* A plan of two batches: a row, two versions of an object, its head and    *)
(* the receipt of request "a", executed before the handoff.  Once the       *)
(* successor serves, a handler runs the metadata transaction "m".           *)
(***************************************************************************)
EXTENDS NamespaceImport, TLC

CONSTANTS k, o, v1, v2, i1, i2, i3

MCEvent == {"a", "m", "retain", "seal", "activate"}
MCIdOf == [e \in MCEvent |-> CASE e = "a" -> i1 [] e = "seal" -> i2 [] OTHER -> i3]
MCReads == [e \in MCEvent |-> IF e = "a" THEN {k, o} ELSE {k}]
MCWrites == [e \in MCEvent |-> IF e = "a" THEN {o} ELSE {k}]
MCApply(e, f) == [x \in MCWrites[e] |-> v2]
MCPlan == <<[kind |-> "state", at |-> k, ver |-> 0, val |-> v1],
            [kind |-> "version", at |-> o, ver |-> 1, val |-> v1],
            [kind |-> "version", at |-> o, ver |-> 2, val |-> v2],
            [kind |-> "head", at |-> o, ver |-> 2, val |-> v2],
            [kind |-> "receipt", at |-> i1, ver |-> 0,
             val |-> [event |-> "a", result |-> [x \in {o} |-> v2]]]>>
MCBatchEnd == [n \in {0, 3} |-> IF n = 0 THEN 3 ELSE 5]
MCScan == <<{k, o, i1, i2, i3} \cup ({o} \X (1..MaxVersion))>>
MCCaptureAt == Nat
ImporterSymmetry == Permutations(Importer)
===============================================================================
