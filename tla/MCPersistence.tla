--------------------------- MODULE MCPersistence ---------------------------
(* Instances of Persistence for TLC. *)
EXTENDS Persistence, TLC

\* Version 2 is shorter than the others, as a snapshot after a deletion is.
Sizes == [v \in Versions |-> IF v = 2 THEN 1 ELSE 2]

=============================================================================
