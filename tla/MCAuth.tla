------------------------------- MODULE MCAuth -------------------------------
(* Instances of Auth for TLC. *)
EXTENDS Auth, TLC

Symmetry == Permutations(Users) \cup Permutations(Passwords) \cup Permutations(Requests)
            \cup Permutations(Secrets)

=============================================================================
