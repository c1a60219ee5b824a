----------------------------- MODULE MCRegistry -----------------------------
(* Small instances of the instance register for TLC. *)
EXTENDS InstanceRegistry

TwoActs == {[i \in Items |-> IF i = "registry" THEN 2 ELSE 0]}
=============================================================================
