----------------------------- MODULE Lifecycle -----------------------------
(***************************************************************************)
(* The store across saves, backups, restores and restarts: the data in     *)
(* memory, the data in the snapshot file and the dumps the administrators  *)
(* have downloaded.  Whoever saves marshals the data under the lock and    *)
(* writes the copy without it; a save may fail, saves may overlap, and a   *)
(* restore has swapped the data before it marks and saves them.            *)
(*                                                                         *)
(* The file operations of a save are Persistence's.  Here they are the one *)
(* step that ends it, and a file no start would accept is left out.        *)
(***************************************************************************)
EXTENDS Store, FiniteSets

CONSTANTS
    Restorers,   \* concurrent POST /api/admin/restore requests
    Persist,     \* PERSIST: the snapshot file is in use
    MaxDumps,    \* bound: the dumps downloaded
    MaxUnderWay  \* bound: the saves and restores under way at one time

\* Who saves: the background loop, main at the end, and restores.
Lasting == {"loop", "main"}
Savers == Lasting \cup Restorers

ASSUME LifecycleAssumption ==
    /\ Restorers \cap Lasting = {}
    /\ Persist \in BOOLEAN /\ MaxDumps \in Nat /\ MaxUnderWay \in Nat

VARIABLES
    disk,        \* the data a start would load; EmptyData: no file, or an empty one
    dumps,       \* the dumps downloaded so far, kept outside the program
    save,        \* what each saver does: see Steps
    copies,      \* the copies marshalled since nobody was writing
    mixed,       \* two of them were being written at once
    stale,       \* history: who writes a copy from before a restore
    behind,      \* history: a restore has not got into the file yet
    lost         \* history: a save has failed or overlapped, and nothing was marked since

saving == <<save, copies, mixed, stale>>
lifeVars == <<d, dirty, disk, dumps, saving, behind, lost>>

\* A saver does nothing, is to mark the data, to marshal them, or to write the
\* copy.
Steps == {"idle", "mark", "marshal", "write"}

Writing(s) == save[s] = "write"
Goto(s, step) == save' = [save EXCEPT ![s] = step]

UnderWay == {s \in Savers : save[s] # "idle"}

\* Another save or restore begins.
Begin(s, step) ==
    /\ save[s] = "idle"
    /\ Cardinality(UnderWay) < MaxUnderWay
    /\ Goto(s, step)

-----------------------------------------------------------------------------
(* Saves *)

\* A tick of the background loop: takeDirty, then Save.
Autosave ==
    /\ Persist
    /\ dirty
    /\ dirty' = FALSE
    /\ Begin("loop", "marshal")
    /\ UNCHANGED <<d, disk, dumps, copies, mixed, stale, behind, lost>>

\* The last saves of the loop and of main, without takeDirty.  The signal is left
\* out: they may come at any time, and the process may then end or not.
FinalSave(s) ==
    /\ Persist
    /\ Begin(s, "marshal")
    /\ UNCHANGED <<d, dirty, disk, dumps, copies, mixed, stale, behind, lost>>

\* Save reads the data under the lock.
Marshal(s) ==
    /\ save[s] = "marshal"
    /\ Goto(s, "write")
    /\ copies' = copies \cup {d}
    /\ mixed' = \E t \in Savers : Writing(t)
    /\ UNCHANGED <<d, dirty, disk, dumps, stale, behind, lost>>

\* Save returns: the loop waits for the next tick, a request is answered.
Return(s) ==
    /\ Writing(s)
    /\ Goto(s, "idle")
    /\ stale' = stale \ {s}
    /\ IF \E t \in Savers \ {s} : Writing(t)
       THEN UNCHANGED <<copies, mixed>>
       ELSE copies' = {} /\ mixed' = FALSE

\* Mutant: the mark is cleared when the save is done.
RenameClearing(s) ==
    /\ Return(s)
    /\ disk' \in copies \cup (IF mixed THEN {EmptyData} ELSE {})
    /\ dirty' = FALSE
    /\ lost' = FALSE
    /\ behind' = (behind /\ (mixed \/ s \in stale))
    /\ UNCHANGED <<d, dumps>>

\* The file is replaced.  Saves that overlap write to one temporary file, and
\* either copy, or nothing, may be in it when it is renamed.
Rename(s) ==
    /\ Return(s)
    /\ disk' \in copies \cup (IF mixed THEN {EmptyData} ELSE {})
    /\ lost' = (mixed /\ ~dirty)
    /\ behind' = (behind /\ (mixed \/ s \in stale))
    /\ UNCHANGED <<d, dirty, dumps>>

\* Writing or renaming returns an error, which is logged or answered.  When
\* saves overlap, what was written may be in the file already.
Fail(s) ==
    /\ Return(s)
    /\ disk' \in {disk} \cup (IF mixed THEN copies \cup {EmptyData} ELSE {})
    /\ lost' = ~dirty
    /\ UNCHANGED <<d, dirty, dumps, behind>>

-----------------------------------------------------------------------------
(* Backup, restore and restart *)

Snapshot ==
    /\ Cardinality(dumps) < MaxDumps
    /\ dumps' = dumps \cup {d}
    /\ UNCHANGED <<d, dirty, disk, saving, behind, lost>>

\* Mutant: the rows come back, the counters stay.
RestoreRows(r, x) ==
    /\ Begin(r, "mark")
    /\ d' = [n \in TableNames |-> [x[n] EXCEPT !.seq = d[n].seq]]
    /\ stale' = {s \in Savers : Writing(s)}
    /\ behind' = TRUE
    /\ UNCHANGED <<dirty, disk, dumps, copies, mixed, lost>>

\* A dump comes back, to the process that made it or to a later one: Restore
\* replaces the data under the lock.
RestoreSwap(r, x) ==
    /\ Begin(r, "mark")
    /\ d' = x
    /\ stale' = {s \in Savers : Writing(s)}
    /\ behind' = TRUE
    /\ UNCHANGED <<dirty, disk, dumps, copies, mixed, lost>>

\* Then it marks them, without the lock, and goes on to save them.
RestoreMark(r) ==
    /\ save[r] = "mark"
    /\ dirty' = TRUE /\ lost' = FALSE
    /\ Goto(r, IF Persist THEN "marshal" ELSE "idle")
    /\ UNCHANGED <<d, disk, dumps, copies, mixed, stale, behind>>

\* Mutant: the counters are computed from the rows that are left.
LastId(t) == IF Ids(t) = {} THEN 0 ELSE CHOOSE i \in Ids(t) : \A j \in Ids(t) : j <= i

Recounted(x) == [n \in TableNames |-> [x[n] EXCEPT !.seq = LastId(x[n])]]

\* Whatever the last process was about is gone.
NewProcess ==
    /\ save' = [s \in Savers |-> "idle"]
    /\ copies' = {} /\ mixed' = FALSE /\ stale' = {}
    /\ behind' = FALSE /\ lost' = FALSE

RestartRecounting ==
    /\ \E u \in Usernames, h \in Hashes : Boot(Recounted(disk), u, h, d', dirty')
    /\ NewProcess
    /\ UNCHANGED <<disk, dumps>>

\* The process ends, by a signal or a crash, and main starts again: New, then
\* EnsureAdmin with the login of the configuration.
Restart ==
    /\ \E u \in Usernames, h \in Hashes :
        Boot(IF Persist THEN disk ELSE EmptyData, u, h, d', dirty')
    /\ NewProcess
    /\ UNCHANGED <<disk, dumps>>

Operation ==
    /\ StoreNext
    /\ lost' = (lost /\ ~dirty')
    /\ UNCHANGED <<disk, dumps, saving, behind>>

Init ==
    /\ StoreInit
    /\ disk = EmptyData
    /\ dumps = {}
    /\ save = [s \in Savers |-> "idle"]
    /\ copies = {} /\ mixed = FALSE /\ stale = {}
    /\ behind = FALSE /\ lost = FALSE

Next ==
    \/ Operation
    \/ Autosave
    \/ \E s \in Lasting : FinalSave(s)
    \/ \E s \in Savers : Marshal(s) \/ Rename(s) \/ Fail(s)
    \/ Snapshot
    \/ \E r \in Restorers, x \in dumps : RestoreSwap(r, x)
    \/ \E r \in Restorers : RestoreMark(r)
    \/ Restart

Spec == Init /\ [][Next]_lifeVars

-----------------------------------------------------------------------------
(* Properties *)

\* Whatever is loaded by a restart or a restore satisfies all the rules the
\* operations keep, its type among them: New and Restore take it as it is.
AllCopiesConsistent == \A x \in {d, disk} \cup dumps \cup copies : Consistent(x)

\* Exactly one login: in memory, in every dump and in every copy on its way to
\* the file, whatever EnsureAdmin finds.
OneLoginEverywhere == \A x \in {d} \cup dumps \cup copies : OneAdmin(x)

\* Data the file does not have are marked for the next tick, about to be marked
\* by a restore, or in the hands of a save, even if a save began before the
\* change or wrote an older copy since.  Only a save that failed or overlapped
\* another loses sight of them, until the next change or whole save
\* (store.go:216, 249, backup.go:31).
UnsavedIsDirty ==
    Persist /\ disk # d =>
        \/ dirty
        \/ lost
        \/ \E s \in Savers : save[s] \in {"mark", "marshal"} \/ (Writing(s) /\ d \in copies)

\* An id that was in use or retired when the snapshot was saved is never given
\* to a new row (store_test.go:91-93), not after failed saves, overlapping ones
\* or crashes either.  A restore takes the counters back for as long as it has
\* not got into the file, whole (backup.go:28).
NoIdReissued ==
    ~behind =>
        \A n \in TableNames :
            /\ disk[n].seq <= d[n].seq
            /\ \A i \in Ids(d[n]) : i <= disk[n].seq => i \in Ids(disk[n])

\* Requests can count on the login as module Login says: the configured one is
\* used only where none was saved, and only a restore takes its name away.
LoginsIn(x) == {[user |-> x.admins.items[i].username, hash |-> x.admins.items[i].passwordHash]
                    : i \in Ids(x.admins)}

Account == INSTANCE Login WITH
    Users <- Usernames, memory <- LoginsIn(d), saved <- LoginsIn(disk),
    held <- {LoginsIn(x) : x \in copies}, overlap <- mixed

ImplementsLogin == Account!Spec

=============================================================================
