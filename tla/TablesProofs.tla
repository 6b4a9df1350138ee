---------------------------- MODULE TablesProofs ----------------------------
(* What the operators of Tables return: the facts the proofs about Store use. *)
EXTENDS Tables, TLAPS

\* An inserted row gets an id no row has, and the other rows stay.
LEMMA InsertFacts ==
    ASSUME NEW R, NEW t, IsTable(t, R), NEW row \in R
    PROVE  /\ IsTable(Insert(t, row), R)
           /\ Ids(Insert(t, row)) = Ids(t) \cup {NextID(t)}
           /\ NextID(t) \notin Ids(t)
           /\ Insert(t, row).items[NextID(t)] = row
           /\ \A i \in Ids(t) : Insert(t, row).items[i] = t.items[i]
           /\ Insert(t, row).seq = NextID(t)
  BY DEF IsTable, Insert, Put, NextID, Ids

\* A replaced row keeps its id, and the other rows stay.
LEMMA PutFacts ==
    ASSUME NEW R, NEW t, IsTable(t, R), NEW row \in R, NEW id \in Ids(t)
    PROVE  /\ IsTable(Put(t, id, row), R)
           /\ Ids(Put(t, id, row)) = Ids(t)
           /\ Put(t, id, row).items[id] = row
           /\ \A i \in Ids(t) \ {id} : Put(t, id, row).items[i] = t.items[i]
           /\ Put(t, id, row).seq = t.seq
  BY DEF IsTable, Put, Ids

\* A deletion removes the rows it names and nothing else.
LEMMA WithoutFacts ==
    ASSUME NEW R, NEW t, IsTable(t, R), NEW S
    PROVE  /\ IsTable(Without(t, S), R)
           /\ Ids(Without(t, S)) = Ids(t) \ S
           /\ \A i \in Ids(t) \ S : Without(t, S).items[i] = t.items[i]
           /\ Without(t, S).seq = t.seq
  BY DEF IsTable, Without, Ids

\* Rows stay unique on their keys when the inserted key is new ...
LEMMA InsertUnique ==
    ASSUME NEW R, NEW t, IsTable(t, R), NEW row \in R, NEW fields, UniqueOn(t, fields),
           \A i \in Ids(t) : \E f \in fields : t.items[i][f] # row[f]
    PROVE  UniqueOn(Insert(t, row), fields)
  BY InsertFacts DEF UniqueOn

\* ... when the replaced row's key is nobody else's ...
LEMMA PutUnique ==
    ASSUME NEW R, NEW t, IsTable(t, R), NEW row \in R, NEW id \in Ids(t),
           NEW fields, UniqueOn(t, fields),
           \A i \in Ids(t) \ {id} : \E f \in fields : t.items[i][f] # row[f]
    PROVE  UniqueOn(Put(t, id, row), fields)
  BY PutFacts DEF UniqueOn

\* ... and when rows are deleted.
LEMMA WithoutUnique ==
    ASSUME NEW R, NEW t, IsTable(t, R), NEW S, NEW fields, UniqueOn(t, fields)
    PROVE  UniqueOn(Without(t, S), fields)
  BY WithoutFacts DEF UniqueOn

=============================================================================
