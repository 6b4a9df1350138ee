---------------------------- MODULE DurableStore ----------------------------
(***************************************************************************)
(* What the store promises about its snapshot: the last version it made    *)
(* durable survives, whole, every stop of the process, and the durable     *)
(* version only moves forward, never past the one in memory.  The promise  *)
(* is void from the moment two saves run at once.                          *)
(***************************************************************************)
EXTENDS Naturals

VARIABLES
    version,   \* the version in memory; lost when the process stops
    durable,   \* the version a start would load; 0: none yet
    up,        \* the process runs
    void       \* two saves have run at once

Init == version = 1 /\ durable = 0 /\ up = TRUE /\ void = FALSE

Write ==
    /\ up /\ UNCHANGED <<durable, up, void>>
    /\ version' = version + 1

\* A save succeeds; the one main makes is the last thing the process does.
Flush ==
    /\ up /\ UNCHANGED <<version, void>>
    /\ durable' \in durable + 1 .. version
    /\ up' \in BOOLEAN

Stop == up /\ up' = FALSE /\ UNCHANGED <<version, durable, void>>

Start ==
    /\ ~up /\ up' = TRUE /\ UNCHANGED <<durable, void>>
    /\ version' = IF durable = 0 THEN 1 ELSE durable

\* Nothing is promised in this step or later.
Void == void' = TRUE

Next == Void \/ (~void /\ (Write \/ Flush \/ Stop \/ Start))

Spec == Init /\ [][Next]_<<version, durable, up, void>>

=============================================================================
