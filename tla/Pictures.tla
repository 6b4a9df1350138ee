------------------------------ MODULE Pictures ------------------------------
(***************************************************************************)
(* What the store promises to the handlers that keep the image files:      *)
(* which entities there are, and whose picture is registered under which   *)
(* id.  Ids of entities and of pictures are issued once; the deletion of   *)
(* an entity takes exactly its own pictures along.                         *)
(***************************************************************************)
EXTENDS Naturals

CONSTANT Types   \* entity types

VARIABLES
    live,     \* by type, the ids of the entities
    issued,   \* by type, the highest id given to an entity so far
    last,     \* the highest id given to a picture so far
    owner     \* by id, the entity of each picture; it need not be alive

vars == <<live, issued, last, owner>>

Init ==
    /\ live = [t \in Types |-> {}] /\ issued = [t \in Types |-> 0]
    /\ last = 0 /\ owner = [i \in {} |-> 0]

Create(t) ==
    /\ UNCHANGED <<last, owner>>
    /\ issued' = [issued EXCEPT ![t] = @ + 1]
    /\ live' = [live EXCEPT ![t] = @ \cup {issued'[t]}]

Delete(t, id) ==
    /\ id \in live[t]
    /\ UNCHANGED <<last, issued>>
    /\ live' = [live EXCEPT ![t] = @ \ {id}]
    /\ owner' = [i \in {j \in DOMAIN owner : owner[j] # <<t, id>>} |-> owner[i]]

AddPicture ==
    /\ last' = last + 1
    /\ UNCHANGED <<live, issued>>
    /\ DOMAIN owner' = DOMAIN owner \cup {last'}
    /\ owner'[last'] \in Types \X Nat
    /\ \A i \in DOMAIN owner : owner'[i] = owner[i]

DeletePicture(id) ==
    /\ UNCHANGED <<last, live, issued>>
    /\ owner' = [i \in DOMAIN owner \ {id} |-> owner[i]]

Next ==
    \/ AddPicture
    \/ \E id \in DOMAIN owner : DeletePicture(id)
    \/ \E t \in Types : Create(t) \/ \E id \in live[t] : Delete(t, id)

Spec == Init /\ [][Next]_vars

=============================================================================
