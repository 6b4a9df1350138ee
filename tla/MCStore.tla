------------------------------ MODULE MCStore ------------------------------
(* Instances of Store for TLC: which tables are on in each run, and how far. *)
EXTENDS Store, TLC

\* The tables named in `on` may issue so many ids, the others none.
Bounds(on) == [n \in TableNames \ {"admins"} |-> IF n \in DOMAIN on THEN on[n] ELSE 0]

CatalogSeq == Bounds([categories |-> 2, subcategories |-> 2, products |-> 2,
                      advantages |-> 1])

CharacteristicsSeq == Bounds([categories |-> 1, subcategories |-> 1, products |-> 2,
                              characteristics |-> 2, charValues |-> 3, productChars |-> 2])

MediaSeq == Bounds([categories |-> 1, subcategories |-> 1, products |-> 1, services |-> 1,
                    objectTypes |-> 1, media |-> 2])

Symmetry == Permutations(Slugs) \cup Permutations(CharNames) \cup Permutations(Values)

=============================================================================
