------------------------------- MODULE Login -------------------------------
(***************************************************************************)
(* What the handlers of internal/handlers/auth.go may expect of the store: *)
(* there is one login, whose name stays while its password changes; only   *)
(* a dump that is restored brings in another one; and a start takes the    *)
(* saved one, whatever the configuration says, if there is one.  The saved *)
(* one may be behind memory, but is one that memory held when a save began.*)
(***************************************************************************)
CONSTANTS
    Users,     \* names of logins
    Hashes     \* password hashes

VARIABLES
    memory,    \* the logins in memory
    saved,     \* the logins a start would load
    held,      \* the logins the saves under way have read
    overlap    \* saves overlap: whoever calls them decides

vars == <<memory, saved, held>>

Logins == [user : Users, hash : Hashes]

\* S holds a login, and no other one.
Single(S) == \E l \in S : l \in Logins /\ S = {l}

Init == Single(memory) /\ saved = {} /\ held = {}

ChangePassword ==
    /\ Single(memory')
    /\ \E old \in memory, new \in memory' : new.user = old.user
    /\ UNCHANGED <<saved, held>>

\* A save reads the login,
Take ==
    /\ held' = held \cup {memory}
    /\ UNCHANGED <<memory, saved>>

\* and writes what it has read; of saves that overlap either's, or nothing.
Write ==
    /\ saved' \in held \cup (IF overlap THEN {{}} ELSE {})
    /\ held' \in {held, {}}
    /\ UNCHANGED memory

\* A save fails.
Drop ==
    /\ held' = {}
    /\ UNCHANGED <<memory, saved>>

\* The file still has the old login.
Restore ==
    /\ Single(memory')
    /\ UNCHANGED <<saved, held>>

Restart ==
    /\ IF saved = {} THEN Single(memory') ELSE memory' = saved
    /\ held' = {}
    /\ UNCHANGED saved

Next == ChangePassword \/ Take \/ Write \/ Drop \/ Restore \/ Restart

Spec == Init /\ [][Next]_vars

=============================================================================
