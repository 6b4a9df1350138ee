---------------------------- MODULE MCMediaFiles ----------------------------
(* Instances of MediaFiles for TLC. *)
EXTENDS MediaFiles, TLC

Symmetry == Permutations(Requests) \cup Permutations(Names)

=============================================================================
