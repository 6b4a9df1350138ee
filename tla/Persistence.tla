---------------------------- MODULE Persistence ----------------------------
(***************************************************************************)
(* How the store reaches the disk: Save opened into its file operations,   *)
(* the autosave loop, Restore, and main's shutdown, with crashes of the    *)
(* process and failing system calls.                                       *)
(*                                                                         *)
(* Data are versions: version v is the data after v changes.  A file is    *)
(* the sequence of its blocks, each labelled with the version it was       *)
(* written from; Hole is a block nobody wrote.  All savers write the same  *)
(* temporary file, and a descriptor follows the file it opened: when       *)
(* rename(2) moves `tmp` onto `path`, writes to it go to `path`, and       *)
(* writes to the file it replaced go nowhere a reader looks.               *)
(*                                                                         *)
(* The file system keeps what was written when the process crashes; power  *)
(* loss, where the missing fsync would matter, is not modelled.            *)
(***************************************************************************)
EXTENDS Naturals, Sequences

CONSTANTS
    Restorers,      \* concurrent POST /api/admin/restore requests
    Size,           \* blocks in the snapshot of each version
    MaxVersion,     \* bound: changes made to the data
    MaxFailures,    \* bound: system calls that fail
    Signalled       \* whether SIGINT or SIGTERM may arrive

Versions == 1..MaxVersion
Savers == Restorers \cup {"autosave", "main"}

ASSUME PersistenceAssumption ==
    /\ Restorers \cap {"autosave", "main"} = {}
    /\ MaxVersion \in Nat \ {0}
    /\ Size \in [Versions -> Nat \ {0}]
    /\ MaxFailures \in Nat
    /\ Signalled \in BOOLEAN

VARIABLES
    mem,         \* the version in memory, s.d
    dirty,       \* s.dirty
    file,        \* the contents of `tmp` and `path`, those of them that exist
    pc,          \* where each saver is; "off": not running
    raw,         \* the version its Save marshalled
    fd,          \* the file it writes: tmp, path, or gone (replaced)
    off,         \* the blocks it has written
    final,       \* the autosave loop has seen the stop signal
    phase,       \* the process: see Phases
    failures,    \* history: system calls that failed
    overlapped   \* history: a Save began while another was in progress

save == <<pc, raw, fd, off>>
history == <<failures, overlapped>>
vars == <<mem, dirty, file, save, final, phase, history>>

Phases == {"serving",      \* requests are answered
           "draining",     \* srv.Shutdown waits for the requests in flight
           "drained",      \* they are done
           "timedout",     \* 10 seconds passed and some still run
           "exited",       \* main returned after draining
           "down",         \* the process died, or main returned after the timeout
           "refused"}      \* New found the snapshot corrupted

\* What a Save does next; outside Saving, "mark" is Restore before markDirty.
Saving == {"marshal", "open", "write", "rename"}

Hole == 0
Whole(v) == [k \in 1..Size[v] |-> v]

HandlersRun == phase \in {"serving", "draining", "timedout"}
Running == HandlersRun \/ phase = "drained"

At(p, label) == Running /\ pc[p] = label

-----------------------------------------------------------------------------
(* Save *)

\* p enters Save.
BeginSave(p) ==
    /\ pc' = [pc EXCEPT ![p] = "marshal"]
    /\ overlapped' = (overlapped \/ \E q \in Savers \ {p} : pc[q] \in Saving)

\* p returns from Save, with an error or without.
Return(p) ==
    /\ pc' = [pc EXCEPT ![p] =
            IF p = "main" \/ (p = "autosave" /\ final) THEN "off" ELSE "idle"]
    /\ phase' = IF p # "main" THEN phase
                ELSE IF phase = "drained" THEN "exited" ELSE "down"

\* json.MarshalIndent under the read lock.
Marshal(p) ==
    /\ At(p, "marshal")
    /\ raw' = [raw EXCEPT ![p] = mem]
    /\ pc' = [pc EXCEPT ![p] = "open"]
    /\ UNCHANGED <<mem, dirty, file, fd, off, final, phase, history>>

\* Mutant: the snapshot is written in place.
OpenInPlace(p) ==
    /\ At(p, "open")
    /\ file' = [n \in DOMAIN file \cup {"path"} |-> IF n = "path" THEN << >> ELSE file[n]]
    /\ fd' = [fd EXCEPT ![p] = "path"]
    /\ off' = [off EXCEPT ![p] = 0]
    /\ pc' = [pc EXCEPT ![p] = "write"]
    /\ UNCHANGED <<mem, dirty, raw, final, phase, history>>

\* os.WriteFile opens tmp: it is created, or emptied if another save left it
\* or is writing it.
Open(p) ==
    /\ At(p, "open")
    /\ file' = [n \in DOMAIN file \cup {"tmp"} |-> IF n = "tmp" THEN << >> ELSE file[n]]
    /\ fd' = [fd EXCEPT ![p] = "tmp"]
    /\ off' = [off EXCEPT ![p] = 0]
    /\ pc' = [pc EXCEPT ![p] = "write"]
    /\ UNCHANGED <<mem, dirty, raw, final, phase, history>>

\* The blocks of f after block k is written with version v.
WriteAt(f, k, v) ==
    [j \in 1 .. (IF k > Len(f) THEN k ELSE Len(f)) |->
        IF j = k THEN v ELSE IF j \in DOMAIN f THEN f[j] ELSE Hole]

\* The next block is written at the descriptor's own offset.
Write(p) ==
    /\ At(p, "write")
    /\ off' = [off EXCEPT ![p] = @ + 1]
    /\ file' = IF fd[p] = "gone" THEN file
               ELSE [file EXCEPT ![fd[p]] = WriteAt(@, off'[p], raw[p])]
    /\ pc' = [pc EXCEPT ![p] = IF off'[p] = Size[raw[p]] THEN "rename" ELSE "write"]
    /\ UNCHANGED <<mem, dirty, raw, fd, final, phase, history>>

\* Mutant: the store counts as clean when the save is over, not when it began.
RenameClean(p) ==
    /\ At(p, "rename")
    /\ "tmp" \in DOMAIN file
    /\ file' = [n \in {"path"} |-> file["tmp"]]
    /\ fd' = [q \in Savers |-> IF fd[q] = "tmp" THEN "path" ELSE "gone"]
    /\ dirty' = FALSE
    /\ Return(p)
    /\ UNCHANGED <<mem, raw, off, final, history>>

\* os.Rename fails if another save has already moved tmp away.
Rename(p) ==
    /\ At(p, "rename")
    /\ \/ /\ "tmp" \in DOMAIN file
          /\ file' = [n \in {"path"} |-> file["tmp"]]
          /\ fd' = [q \in Savers |-> IF fd[q] = "tmp" THEN "path" ELSE "gone"]
       \/ /\ "tmp" \notin DOMAIN file
          /\ UNCHANGED <<file, fd>>
    /\ Return(p)
    /\ UNCHANGED <<mem, dirty, raw, off, final, history>>

\* A step of Save fails, which abandons the Save where it is.
Fail(p) ==
    /\ \E label \in Saving : At(p, label)
    /\ failures < MaxFailures
    /\ failures' = failures + 1
    /\ Return(p)
    /\ UNCHANGED <<mem, dirty, file, raw, fd, off, final, overlapped>>

SaveStep(p) == Marshal(p) \/ Open(p) \/ Write(p) \/ Rename(p)

-----------------------------------------------------------------------------
(* The requests *)

\* Mutant: an operation forgets markDirty.
ChangeUnmarked ==
    /\ HandlersRun
    /\ mem < MaxVersion
    /\ mem' = mem + 1
    /\ UNCHANGED <<dirty, file, save, final, phase, history>>

\* Any operation of module Store that succeeds: the change and markDirty are
\* made under the write lock, and Marshal waits for it, so they are one step.
Change ==
    /\ HandlersRun
    /\ mem < MaxVersion
    /\ mem' = mem + 1
    /\ dirty' = TRUE
    /\ UNCHANGED <<file, save, final, phase, history>>

\* Restore replaces the data under the lock ...
RestoreSwap(r) ==
    /\ HandlersRun
    /\ At(r, "idle")
    /\ mem < MaxVersion
    /\ mem' = mem + 1
    /\ pc' = [pc EXCEPT ![r] = "mark"]
    /\ UNCHANGED <<dirty, file, raw, fd, off, final, phase, history>>

\* ... marks it after releasing it, and saves.
RestoreMark(r) ==
    /\ At(r, "mark")
    /\ dirty' = TRUE
    /\ BeginSave(r)
    /\ UNCHANGED <<mem, file, raw, fd, off, final, phase, failures>>

-----------------------------------------------------------------------------
(* The autosave loop *)

\* The ticker: takeDirty, and a Save if there was something to take.
Tick ==
    /\ At("autosave", "idle")
    /\ dirty
    /\ dirty' = FALSE
    /\ BeginSave("autosave")
    /\ UNCHANGED <<mem, file, raw, fd, off, final, phase, failures>>

\* done is closed: a last Save, and the loop returns.
LastSave ==
    /\ At("autosave", "idle")
    /\ phase # "serving"
    /\ final' = TRUE
    /\ BeginSave("autosave")
    /\ UNCHANGED <<mem, dirty, file, raw, fd, off, phase, failures>>

-----------------------------------------------------------------------------
(* main *)

\* Mutant: New drops what it has loaded.
LoadedNothing(v) == 1

\* Mutant: EnsureAdmin makes no change.
LoadedAsIs(v) == v

\* What New and EnsureAdmin make of the snapshot of version v: the admin is
\* the first change to an empty store.
Loaded(v) == IF v = 0 THEN 1 ELSE v

\* The goroutines of a new process.
Started ==
    /\ pc' = [p \in Savers |-> IF p = "main" THEN "off" ELSE "idle"]
    /\ raw' = [p \in Savers |-> 0]
    /\ fd' = [p \in Savers |-> "gone"]
    /\ off' = [p \in Savers |-> 0]
    /\ final' = FALSE
    /\ phase' = "serving"

\* A missing or an empty snapshot is a fresh start; version 0 stands for it.
Blank == "path" \in DOMAIN file => file["path"] = << >>

Holds(v) == IF v = 0 THEN Blank ELSE "path" \in DOMAIN file /\ file["path"] = Whole(v)

Restart ==
    /\ phase \in {"exited", "down"}
    /\ \E v \in {0} \cup Versions :
        Holds(v) /\ mem' = Loaded(v) /\ dirty' = (v = 0)
    /\ Started
    /\ UNCHANGED <<file, history>>

\* The JSON does not parse: main ends in log.Fatalf, now and at every restart.
RestartRefused ==
    /\ phase \in {"exited", "down"}
    /\ \A v \in {0} \cup Versions : ~Holds(v)
    /\ phase' = "refused"
    /\ UNCHANGED <<mem, dirty, file, save, final, history>>

Signal ==
    /\ Signalled
    /\ phase = "serving"
    /\ phase' = "draining"
    /\ UNCHANGED <<mem, dirty, file, save, final, history>>

\* srv.Shutdown returns: no request is in flight ...
Drained ==
    /\ phase = "draining"
    /\ \A r \in Restorers : pc[r] = "idle"
    /\ phase' = "drained"
    /\ UNCHANGED <<mem, dirty, file, save, final, history>>

\* ... or 10 seconds have passed and some still are.
TimesOut ==
    /\ phase = "draining"
    /\ phase' = "timedout"
    /\ UNCHANGED <<mem, dirty, file, save, final, history>>

\* Mutant: main leaves the last save to the loop.
MainJustReturns ==
    /\ phase \in {"drained", "timedout"}
    /\ phase' = IF phase = "drained" THEN "exited" ELSE "down"
    /\ UNCHANGED <<mem, dirty, file, save, final, history>>

\* Mutant: an error of Shutdown skips the rest of main.
MainSaveIfDrained ==
    /\ phase = "drained"
    /\ pc["main"] = "off"
    /\ BeginSave("main")
    /\ UNCHANGED <<mem, dirty, file, raw, fd, off, final, phase, failures>>

\* Mutant: main saves while requests are still being served.
MainSaveAtOnce ==
    /\ phase \in {"draining", "drained", "timedout"}
    /\ pc["main"] = "off"
    /\ BeginSave("main")
    /\ UNCHANGED <<mem, dirty, file, raw, fd, off, final, phase, failures>>

\* main's own Save, while the autosave loop may be in its last one.
MainSave ==
    /\ phase \in {"drained", "timedout"}
    /\ pc["main"] = "off"
    /\ BeginSave("main")
    /\ UNCHANGED <<mem, dirty, file, raw, fd, off, final, phase, failures>>

Crash ==
    /\ Running
    /\ phase' = "down"
    /\ UNCHANGED <<mem, dirty, file, save, final, history>>
-----------------------------------------------------------------------------

Init ==
    /\ file = [n \in {} |-> << >>]
    /\ mem = 1 /\ dirty = TRUE
    /\ pc = [p \in Savers |-> IF p = "main" THEN "off" ELSE "idle"]
    /\ raw = [p \in Savers |-> 0]
    /\ fd = [p \in Savers |-> "gone"]
    /\ off = [p \in Savers |-> 0]
    /\ final = FALSE
    /\ phase = "serving"
    /\ failures = 0
    /\ overlapped = FALSE

Next ==
    \/ \E p \in Savers : SaveStep(p) \/ Fail(p)
    \/ Change
    \/ \E r \in Restorers : RestoreSwap(r) \/ RestoreMark(r)
    \/ Tick \/ LastSave
    \/ Signal \/ Drained \/ TimesOut \/ MainSave
    \/ Crash \/ Restart \/ RestartRefused

Spec == Init /\ [][Next]_vars

\* The goroutines run; requests, signals, crashes and restarts need not come.
Fairness ==
    /\ \A p \in Savers : WF_vars(SaveStep(p))
    /\ \A r \in Restorers : WF_vars(RestoreMark(r))
    /\ WF_vars(Tick) /\ WF_vars(LastSave)
    /\ WF_vars(Drained \/ TimesOut) /\ WF_vars(MainSave)

FairSpec == Spec /\ Fairness

-----------------------------------------------------------------------------
(* Properties *)

\* The version a restart would load; 0: a fresh start.
Saved == CHOOSE v \in {0} \cup Versions : Holds(v)
Loadable == \E v \in {0} \cup Versions : Holds(v)

PersistTypeOK ==
    /\ mem \in Versions /\ dirty \in BOOLEAN /\ final \in BOOLEAN
    /\ DOMAIN file \subseteq {"tmp", "path"}
    /\ \A n \in DOMAIN file : file[n] \in Seq({Hole} \cup Versions)
    /\ pc \in [Savers -> Saving \cup {"off", "idle", "mark"}]
    /\ raw \in [Savers -> {0} \cup Versions]
    /\ fd \in [Savers -> {"tmp", "path", "gone"}]
    /\ off \in [Savers -> Nat]
    /\ phase \in Phases
    /\ failures \in 0..MaxFailures /\ overlapped \in BOOLEAN

\* What Save's comment promises (store.go:210), as long as no two Saves run
\* at once: a crash or a failing system call at any point leaves a whole
\* snapshot, or none if there never was one.
WholeUnlessOverlap ==
    ~overlapped => \/ "path" \notin DOMAIN file
                   \/ \E v \in Versions : file["path"] = Whole(v)

\* Nothing but a restore or the end of the process makes two Saves overlap: the
\* loop is never in two of them, also across crashes and restarts, and main
\* saves only after its server is shut down (main.go:108-115, store.go:242-259).
OverlapsExplained ==
    [][~overlapped /\ overlapped' =>
           \/ \E r \in Restorers : pc'[r] \in Saving
           \/ phase \in {"drained", "timedout"}]_vars

\* The file-level protocol implements the promise of DurableStore: until two
\* Saves overlap, restarts load exactly what was last renamed into place, and
\* that only moves forward.
Durable == INSTANCE DurableStore WITH
    version <- mem,
    durable <- IF overlapped THEN 0 ELSE Saved,
    up <- Running,
    void <- overlapped

ImplementsDurable == Durable!Spec

\* A change that is not on disk will be: it is marked, or a Save in progress
\* has it or has yet to look.
Covered ==
    \/ dirty
    \/ Saved = mem
    \/ \E p \in Savers : \/ pc[p] \in {"mark", "marshal"}
                         \/ pc[p] \in Saving /\ raw[p] = mem

NothingForgotten ==
    ~overlapped /\ failures = 0 /\ Running => Covered

\* main returns in time, without an overlap or a failure: nothing is lost.
CleanExitSaved ==
    phase = "exited" /\ ~overlapped /\ failures = 0 => Saved = mem

\* Without a failure or an overlap every change reaches the snapshot while the
\* process serves, however fast changes come.
EventuallySaved ==
    \A v \in Versions :
        phase = "serving" /\ mem = v
            ~> phase # "serving" \/ overlapped \/ failures > 0 \/ Saved >= v

\* main returns after a signal, whatever the savers and requests are doing.
ShutdownEnds == phase = "draining" ~> ~Running

-----------------------------------------------------------------------------
(* What comments and the README say, without the conditions above *)

\* store.go:210: at every moment, a crash included, the file is whole.
SnapshotWhole == Loadable

\* main.go:112: the final snapshot loses none of the last changes.
ExitSaved == phase = "exited" /\ failures = 0 => Loadable /\ Saved = mem

\* README.md:13: saved every few seconds when something changed, a failing
\* save included.
ChangesGetSaved ==
    \A v \in Versions :
        phase = "serving" /\ mem = v ~> phase # "serving" \/ (Loadable /\ Saved >= v)

=============================================================================
