------------------------------- MODULE Tables -------------------------------
(***************************************************************************)
(* The generic table of package store (internal/store/store.go): an        *)
(* auto-increment counter and the rows by id.  A table is a record         *)
(* [seq, items]; items is a function from the ids in use to the rows.      *)
(* Rows are values: an update replaces the row, as the store does, which   *)
(* never changes a stored object in place.                                 *)
(***************************************************************************)
EXTENDS Naturals

EmptyTable == [seq |-> 0, items |-> [i \in {} |-> 0]]

Ids(t) == DOMAIN t.items

NextID(t) == t.seq + 1

\* Items[id] = row, for an id in use or just issued.
Put(t, id, row) ==
    [t EXCEPT !.items = [i \in Ids(t) \cup {id} |-> IF i = id THEN row ELSE t.items[i]]]

\* nextID() followed by Items[id] = row.
Insert(t, row) == Put([t EXCEPT !.seq = NextID(t)], NextID(t), row)

\* The ids of the rows that agree with the record `key` on its fields.
Matching(t, key) == {i \in Ids(t) : \A f \in DOMAIN key : t.items[i][f] = key[f]}

\* delete(Items, id) for every id in S; the counter stays.
Without(t, S) == [t EXCEPT !.items = [i \in Ids(t) \ S |-> t.items[i]]]

\* Rows of type R under ids the counter has issued: the next id is unused.
IsTable(t, R) ==
    /\ DOMAIN t = {"seq", "items"}
    /\ t.seq \in Nat
    /\ Ids(t) \subseteq 1..t.seq
    /\ \A i \in Ids(t) : t.items[i] \in R

\* No two rows agree on all of `fields`.
UniqueOn(t, fields) ==
    \A i, j \in Ids(t) : (\A f \in fields : t.items[i][f] = t.items[j][f]) => i = j

=============================================================================
