--------------------------- MODULE MCLifecycle ---------------------------
(* An instance of Lifecycle for TLC.  The file, the dumps and the copies on *)
(* their way to the file are copies of any earlier data, so the tables are  *)
(* two small ones, one of which refers to the other, and the admins; and    *)
(* bound: once a copy has rows of the two, all copies have the same login.  *)
EXTENDS Lifecycle, TLC

LifeSeq == [n \in TableNames \ {"admins"} |->
                IF n \in {"characteristics", "charValues"} THEN 1 ELSE 0]

Symmetry == Permutations(Usernames) \cup Permutations(Hashes) \cup Permutations(CharNames)

Bounded ==
    LET known == {d, disk} \cup dumps \cup copies
    IN  \/ \A x \in known : x.characteristics.seq = 0
        \/ Cardinality(UNION {LoginsIn(x) : x \in known}) = 1

BoundedSpec == Init /\ [][Next /\ Bounded']_lifeVars

=============================================================================
