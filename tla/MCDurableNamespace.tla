-------------------------- MODULE MCDurableNamespace --------------------------
(***************************************************************************)
(* A row and an object.  "a" and "b" each read what the other writes; "b"   *)
(* deletes the object that the others create, or creates it.  "c" writes    *)
(* it whatever its state, and so may create it again after "b".  A page     *)
(* holds one of the four collections.                                       *)
(***************************************************************************)
EXTENDS DurableNamespace

CONSTANTS k, o, v1, v2, i1, i2, i3, i4

MCEvent == {"a", "b", "c", "retain", "seal"}
MCIdOf == [e \in MCEvent |-> CASE e = "a" -> i1 [] e = "b" -> i2 [] e = "c" -> i4 [] OTHER -> i3]
MCReads == [e \in MCEvent |-> CASE e \in {"a", "b"} -> {k, o} [] e = "c" -> {o} [] OTHER -> {k}]
MCWrites == [e \in MCEvent |-> CASE e \in {"a", "c"} -> {o} [] e = "b" -> {k, o} [] OTHER -> {k}]
MCApply(e, f) == [x \in MCWrites[e] |->
    CASE e = "a" -> IF f[k] = None THEN v1 ELSE v2
      [] e = "b" -> IF f[o] = None THEN v1 ELSE IF x = k THEN v2 ELSE None
      [] e = "c" -> v1
      [] OTHER -> v2]
MCScan == <<{k}, {i1, i2, i3, i4}, {o}, {o} \X (1..MaxVersion)>>
===============================================================================
