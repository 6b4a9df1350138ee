--------------------------- MODULE DurableProofs ---------------------------
(***************************************************************************)
(* Persistence implements DurableStore.  On top of the invariant of        *)
(* PersistenceProofs the proof needs the order of the versions: what a     *)
(* lone saver has marshalled is between the saved and the current one.     *)
(* From it also follows that no change is forgotten, while the process     *)
(* runs or when it leaves.                                                 *)
(***************************************************************************)
EXTENDS PersistenceProofs

\* A saver past Marshal holds no older version than the file, and nobody holds
\* one that is not yet in memory.
Ordered ==
    /\ Saved <= mem
    /\ \A p \in Savers : pc[p] \in {"open", "write", "rename"} =>
            Saved <= raw[p] /\ raw[p] <= mem

OrderInv == Inv /\ (~overlapped => Ordered)

-----------------------------------------------------------------------------
(* The version in the file *)

\* A whole file tells the version it was written from.
LEMMA WholeTells ==
    ASSUME NEW v \in Versions
    PROVE  /\ Whole(v) # << >>
           /\ Whole(v)[1] = v
  BY PersistenceAssumption DEF Whole

\* A file holds one version at most.
LEMMA SavedIs ==
    ASSUME NEW v \in {0} \cup Versions, Holds(v)
    PROVE  Saved = v
<1>1. ASSUME NEW w \in {0} \cup Versions, Holds(w) PROVE w = v
  <2>1. 0 \notin Versions BY DEF Versions
  <2>2. CASE v = 0 /\ w = 0 BY <2>2
  <2>3. CASE v = 0 /\ w # 0 BY <1>1, <2>1, <2>3, WholeTells DEF Holds, Blank
  <2>4. CASE v # 0 /\ w = 0 BY <1>1, <2>1, <2>4, WholeTells DEF Holds, Blank
  <2>5. CASE v # 0 /\ w # 0
    <3>1. file["path"] = Whole(v) /\ file["path"] = Whole(w) BY <1>1, <2>5 DEF Holds
    <3>2. Whole(v)[1] = v /\ Whole(w)[1] = w BY <1>1, <2>5, WholeTells
    <3> QED BY <3>1, <3>2
  <2> QED BY <2>2, <2>3, <2>4, <2>5
<1> QED BY <1>1 DEF Saved

\* While no saves have overlapped, the file holds the saved version.
LEMMA SavedHolds ==
    ASSUME Inv, ~overlapped
    PROVE  Saved \in {0} \cup Versions /\ Holds(Saved)
<1>1. \E v \in {0} \cup Versions : Holds(v)
  <2>1. CASE "path" \notin DOMAIN file BY <2>1 DEF Holds, Blank
  <2>2. CASE "path" \in DOMAIN file
    <3>1. PICK v \in Versions : file["path"] = Whole(v)
      BY <2>2 DEF Inv, LoneInv, PathWhole
    <3>2. v # 0 BY DEF Versions
    <3> QED BY <2>2, <3>1, <3>2 DEF Holds
  <2> QED BY <2>1, <2>2
<1> QED BY <1>1 DEF Saved

\* The saved version is read off the snapshot file.
LEMMA SavedFrame ==
    ASSUME "path" \in DOMAIN file' <=> "path" \in DOMAIN file,
           "path" \in DOMAIN file => file'["path"] = file["path"]
    PROVE  Saved' = Saved
<1>1. \A v : Holds(v)' <=> Holds(v) BY DEF Holds, Blank
<1> QED BY <1>1 DEF Saved

-----------------------------------------------------------------------------
(* Steps of a process whose saves do not overlap *)

\* The rename of a saver that is alone puts its version into place.
LEMMA RenameSaves ==
    ASSUME Inv, ~overlapped, NEW p \in Savers, Rename(p)
    PROVE  Saved' = raw[p]
<1> USE DEF Inv, TypeInv
<1>1. pc[p] = "rename" /\ raw' = raw BY DEF Rename, At
<1>2. "tmp" \in DOMAIN file /\ file["tmp"] = Whole(raw[p]) /\ raw[p] \in Versions
  BY <1>1 DEF LoneInv, OwnsTmp, Descriptors
<1>3. file' = [n \in {"path"} |-> file["tmp"]] BY <1>2 DEF Rename
<1>4. raw[p] # 0 BY <1>2 DEF Versions
<1>5. Holds(raw[p])' BY <1>1, <1>2, <1>3, <1>4 DEF Holds
<1>6. ASSUME NEW w \in {0} \cup Versions, Holds(w)' PROVE w = raw[p]
  <2>1. file'["path"] = Whole(raw[p]) BY <1>2, <1>3
  <2>2. CASE w = 0 BY <1>2, <1>3, <1>6, <2>1, <2>2, WholeTells DEF Holds, Blank
  <2>3. CASE w # 0
    <3>1. Whole(w) = Whole(raw[p]) BY <1>6, <2>1, <2>3 DEF Holds
    <3> QED BY <1>2, <2>3, <3>1, WholeTells
  <2> QED BY <2>2, <2>3
<1> QED BY <1>1, <1>2, <1>5, <1>6 DEF Saved

\* The saves of a process that is alone in Save: nothing changes for a reader
\* until the rename, which moves the snapshot forward.
LEMMA SaveStepFacts ==
    ASSUME OrderInv, ~overlapped, NEW p \in Savers, SaveStep(p)
    PROVE  /\ mem' = mem /\ overlapped' = overlapped
           /\ Ordered'
           /\ Saved' # Saved => Saved' \in Saved + 1 .. mem
           /\ Running
           /\ Running' \in BOOLEAN
           /\ Running' \/ p = "main"
<1> USE DEF OrderInv, Inv, TypeInv
<1>1. Saved \in {0} \cup Versions /\ Holds(Saved) BY SavedHolds
<1>2. Versions \subseteq Nat /\ mem \in Versions BY DEF Versions, PersistTypeOK
<1>3. CASE Marshal(p)
  <2>1. file' = file /\ pc' = [pc EXCEPT ![p] = "open"] /\ raw' = [raw EXCEPT ![p] = mem]
        /\ mem' = mem /\ phase' = phase /\ overlapped' = overlapped /\ Running
    BY <1>3 DEF Marshal, At, history
  <2>2. Saved' = Saved BY <2>1, SavedFrame
  <2>3. Ordered' BY <1>1, <1>2, <2>1, <2>2 DEF Ordered, PersistTypeOK
  <2> QED BY <2>1, <2>2, <2>3 DEF Running, HandlersRun
<1>4. CASE Open(p)
  <2>1. /\ pc[p] = "open" /\ pc' = [pc EXCEPT ![p] = "write"] /\ raw' = raw
        /\ mem' = mem /\ phase' = phase /\ overlapped' = overlapped /\ Running
        /\ DOMAIN file' = DOMAIN file \cup {"tmp"}
        /\ \A n \in DOMAIN file \ {"tmp"} : file'[n] = file[n]
    BY <1>4 DEF Open, At, history
  <2>2. Saved' = Saved BY <2>1, SavedFrame
  <2>3. Ordered' BY <1>1, <1>2, <2>1, <2>2 DEF Ordered, PersistTypeOK
  <2> QED BY <2>1, <2>2, <2>3 DEF Running, HandlersRun
<1>5. CASE Write(p)
  <2>1. /\ pc[p] = "write" /\ raw' = raw
        /\ pc' = [pc EXCEPT ![p] = pc'[p]] /\ pc'[p] \in {"write", "rename"}
        /\ mem' = mem /\ phase' = phase /\ overlapped' = overlapped /\ Running
    BY <1>5 DEF Write, At, history, PersistTypeOK
  <2>2. fd[p] = "tmp" /\ "tmp" \in DOMAIN file BY <2>1 DEF LoneInv, OwnsTmp
  <2>3. file' = [file EXCEPT !["tmp"] = WriteAt(@, off'[p], raw[p])]
    BY <1>5, <2>2 DEF Write
  <2>4. Saved' = Saved BY <2>3, SavedFrame
  <2>5. Ordered' BY <1>1, <1>2, <2>1, <2>4 DEF Ordered, PersistTypeOK
  <2> QED BY <2>1, <2>4, <2>5 DEF Running, HandlersRun
<1>6. CASE Rename(p)
  <2>1. /\ pc[p] = "rename" /\ Return(p) /\ Running
        /\ raw' = raw /\ mem' = mem /\ overlapped' = overlapped
    BY <1>6 DEF Rename, At, history
  <2>2. raw[p] \in Versions BY <2>1 DEF Descriptors
  <2>3. Saved' = raw[p] BY <1>6, RenameSaves
  <2>4. Saved <= raw[p] /\ raw[p] <= mem BY <2>1 DEF Ordered
  <2>5. \A q \in Savers : pc'[q] \notin Saving
    <3>1. pc'[p] \in {"off", "idle"} /\ \A q \in Savers \ {p} : pc'[q] = pc[q]
      BY <2>1, ReturnFacts
    <3> QED BY <2>1, <3>1 DEF LoneInv, Alone, Saving
  <2>6. Ordered' BY <2>1, <2>3, <2>4, <2>5 DEF Ordered, Saving
  <2>7. Saved' # Saved => Saved' \in Saved + 1 .. mem
    <3>1. Saved \in Nat /\ raw[p] \in Nat /\ mem \in Nat
      BY <1>1, <1>2, <2>2 DEF Versions
    <3>2. ASSUME raw[p] # Saved PROVE raw[p] \in Saved + 1 .. mem
      BY <2>4, <3>1, <3>2
    <3> QED BY <2>3, <3>2
  <2>8. Running' \/ p = "main" BY <2>1 DEF Return, Running, HandlersRun
  <2>9. Running' \in BOOLEAN BY DEF Running, HandlersRun
  <2> QED BY <2>1, <2>6, <2>7, <2>8, <2>9
<1> QED BY <1>3, <1>4, <1>5, <1>6 DEF SaveStep

-----------------------------------------------------------------------------
(* The other steps *)

\* A step that saves nothing, and takes nobody past Marshal, keeps the order if
\* the memory does not go back.
LEMMA OrderKept ==
    ASSUME OrderInv, ~overlapped, Saved' = Saved, mem' \in Nat, mem <= mem',
           raw' = raw,
           \A p \in Savers : pc'[p] = pc[p] \/ pc'[p] \notin {"open", "write", "rename"}
    PROVE  Ordered'
<1>1. Saved \in Nat /\ mem \in Nat
  BY SavedHolds DEF OrderInv, Inv, TypeInv, PersistTypeOK, Versions
<1>2. \A p \in Savers : raw[p] \in Nat
  BY DEF OrderInv, Inv, TypeInv, PersistTypeOK, Versions
<1>3. Ordered BY DEF OrderInv
<1>4. Saved <= mem' BY <1>1, <1>3 DEF Ordered
<1>5. ASSUME NEW p \in Savers, pc'[p] \in {"open", "write", "rename"}
      PROVE  Saved <= raw[p] /\ raw[p] <= mem'
  BY <1>1, <1>2, <1>3, <1>5 DEF Ordered
<1> QED BY <1>4, <1>5 DEF Ordered

\* What a reader of the promise sees.
abstract == <<mem, IF overlapped THEN 0 ELSE Saved, Running, overlapped>>

\* The steps of the promise, told by memory, file and process.
LEMMA AbstractStep ==
    ASSUME Inv, Inv', ~overlapped, ~overlapped',
           \/ mem' = mem /\ Saved' = Saved /\ (Running' => Running)
           \/ mem' = mem + 1 /\ Saved' = Saved /\ Running /\ Running'
           \/ mem' = mem /\ Saved' \in Saved + 1 .. mem /\ Running
           \/ mem' = Loaded(Saved) /\ Saved' = Saved /\ ~Running /\ Running'
    PROVE  [Durable!Next]_abstract
<1>1. overlapped = FALSE /\ overlapped' = FALSE
  BY DEF Inv, TypeInv, PersistTypeOK
<1>2. Running \in BOOLEAN /\ Running' \in BOOLEAN BY DEF Running, HandlersRun
<1>3. CASE mem' = mem /\ Saved' = Saved /\ (Running' => Running)
  <2>1. CASE Running' = Running BY <1>1, <1>3, <2>1 DEF abstract
  <2>2. CASE Running' # Running
    <3>1. Running = TRUE /\ Running' = FALSE BY <1>2, <1>3, <2>2
    <3> QED BY <1>1, <1>3, <3>1 DEF Durable!Next, Durable!Stop
  <2> QED BY <2>1, <2>2
<1>4. CASE mem' = mem + 1 /\ Saved' = Saved /\ Running /\ Running'
  <2>1. Running = TRUE /\ Running' = TRUE BY <1>2, <1>4
  <2> QED BY <1>1, <1>4, <2>1 DEF Durable!Next, Durable!Write
<1>5. CASE mem' = mem /\ Saved' \in Saved + 1 .. mem /\ Running
  BY <1>1, <1>2, <1>5 DEF Durable!Next, Durable!Flush
<1>6. CASE mem' = Loaded(Saved) /\ Saved' = Saved /\ ~Running /\ Running'
  <2>1. Running = FALSE /\ Running' = TRUE BY <1>2, <1>6
  <2> QED BY <1>1, <1>6, <2>1 DEF Durable!Next, Durable!Start, Loaded
<1> QED BY <1>3, <1>4, <1>5, <1>6

\* Until saves overlap, every step is a step of the promise or changes nothing
\* it speaks of, and keeps the order of the versions.
LEMMA QuietStep ==
    ASSUME OrderInv, Inv', [Next]_vars, ~overlapped, ~overlapped'
    PROVE  Ordered' /\ [Durable!Next]_abstract
<1> USE DEF OrderInv, Inv, TypeInv
<1>1. Saved \in {0} \cup Versions /\ Holds(Saved) BY SavedHolds
<1>2. Saved \in Nat /\ mem \in Nat BY <1>1 DEF PersistTypeOK, Versions
<1>3. file' = file => Saved' = Saved BY SavedFrame
<1>4. ASSUME NEW p \in Savers, SaveStep(p)
      PROVE  Ordered' /\ [Durable!Next]_abstract
  <2>1. /\ mem' = mem /\ Ordered' /\ Running
        /\ Saved' # Saved => Saved' \in Saved + 1 .. mem
        /\ Running' \in BOOLEAN
    BY <1>4, SaveStepFacts
  <2>2. Inv /\ Inv' OBVIOUS
  <2>3. [Durable!Next]_abstract
    <3>1. CASE Saved' # Saved BY <2>1, <2>2, <3>1, AbstractStep
    <3>2. CASE Saved' = Saved BY <2>1, <2>2, <3>2, AbstractStep
    <3> QED BY <3>1, <3>2
  <2> QED BY <2>1, <2>3
<1>5. ASSUME NEW p \in Savers, Fail(p)
      PROVE  Ordered' /\ [Durable!Next]_abstract
  <2>1. /\ Return(p) /\ Running
        /\ raw' = raw /\ file' = file /\ mem' = mem
    BY <1>5 DEF Fail, At
  <2>2. pc'[p] \in {"off", "idle"} /\ \A q \in Savers \ {p} : pc'[q] = pc[q]
    BY <2>1, ReturnFacts
  <2>3. Saved' = Saved BY <1>3, <2>1
  <2>4. Ordered' BY <1>2, <2>1, <2>2, <2>3, OrderKept
  <2> QED BY <2>1, <2>3, <2>4, AbstractStep
<1>6. ASSUME Change \/ \E r \in Restorers : RestoreSwap(r)
      PROVE  Ordered' /\ [Durable!Next]_abstract
  <2>1. /\ Running /\ mem' = mem + 1 /\ phase' = phase /\ file' = file /\ raw' = raw
        /\ \A p \in Savers : pc'[p] = pc[p] \/ pc'[p] = "mark"
    BY <1>6 DEF Change, RestoreSwap, Running, save, history, PersistTypeOK, Savers
  <2>2. Saved' = Saved BY <1>3, <2>1
  <2>3. Ordered' BY <1>2, <2>1, <2>2, OrderKept
  <2>4. Running' = Running BY <2>1 DEF Running, HandlersRun
  <2> QED BY <1>2, <2>1, <2>2, <2>3, <2>4, AbstractStep
<1>7. ASSUME Tick \/ LastSave \/ MainSave \/ \E r \in Restorers : RestoreMark(r)
      PROVE  Ordered' /\ [Durable!Next]_abstract
  <2>1. /\ mem' = mem /\ phase' = phase /\ file' = file /\ raw' = raw
        /\ \E p \in Savers : pc' = [pc EXCEPT ![p] = "marshal"]
    BY <1>7 DEF Tick, LastSave, MainSave, RestoreMark, BeginSave, Savers
  <2>2. \A p \in Savers : pc'[p] = pc[p] \/ pc'[p] = "marshal"
    BY <2>1 DEF PersistTypeOK
  <2>3. Saved' = Saved BY <1>3, <2>1
  <2>4. Ordered' BY <1>2, <2>1, <2>2, <2>3, OrderKept
  <2>5. Running' = Running BY <2>1 DEF Running, HandlersRun
  <2> QED BY <2>1, <2>3, <2>4, <2>5, AbstractStep
<1>8. ASSUME Signal \/ Drained \/ TimesOut \/ Crash \/ RestartRefused
      PROVE  Ordered' /\ [Durable!Next]_abstract
  <2>1. mem' = mem /\ file' = file /\ raw' = raw /\ pc' = pc
    BY <1>8 DEF Signal, Drained, TimesOut, Crash, RestartRefused, save
  <2>2. Saved' = Saved BY <1>3, <2>1
  <2>3. Ordered' BY <1>2, <2>1, <2>2, OrderKept
  <2>4. ~Running => ~Running'
    BY <1>8 DEF Signal, Drained, TimesOut, Crash, RestartRefused, Running, HandlersRun
  <2> QED BY <2>1, <2>2, <2>3, <2>4, AbstractStep
<1>9. ASSUME Restart PROVE Ordered' /\ [Durable!Next]_abstract
  <2>1. /\ file' = file /\ Started
        /\ \E v \in {0} \cup Versions : Holds(v) /\ mem' = Loaded(v)
    BY <1>9 DEF Restart
  <2>2. mem' = Loaded(Saved) BY <2>1, SavedIs
  <2>3. Saved' = Saved BY <1>3, <2>1
  <2>4. ~Running /\ Running'
    BY <1>9 DEF Restart, Started, Running, HandlersRun
  <2>5. Ordered'
    <3>1. \A p \in Savers : pc'[p] \in {"off", "idle"} BY <2>1 DEF Started
    <3>2. Saved <= Loaded(Saved) BY <1>2 DEF Loaded
    <3> QED BY <2>2, <2>3, <3>1, <3>2 DEF Ordered
  <2> QED BY <2>2, <2>3, <2>4, <2>5, AbstractStep
<1>10. ASSUME UNCHANGED vars PROVE Ordered' /\ [Durable!Next]_abstract
  <2>1. mem' = mem /\ file' = file /\ raw' = raw /\ pc' = pc /\ phase' = phase
    BY <1>10 DEF vars, save
  <2>2. Saved' = Saved BY <1>3, <2>1
  <2>3. Ordered' BY <1>2, <2>1, <2>2, OrderKept
  <2>4. Running' <=> Running BY <2>1 DEF Running, HandlersRun
  <2> QED BY <2>1, <2>2, <2>3, <2>4, AbstractStep
<1> QED BY <1>4, <1>5, <1>6, <1>7, <1>8, <1>9, <1>10 DEF Next

\* Once two saves have overlapped, they have for good.
LEMMA OverlapStays ==
    ASSUME [Next]_vars, overlapped
    PROVE  overlapped' = TRUE \/ UNCHANGED overlapped
  BY DEF Next, SaveStep, Marshal, Open, Write, Rename, Fail, Change, RestoreSwap,
         RestoreMark, BeginSave, Tick, LastSave, Signal, Drained, TimesOut, MainSave,
         Crash, Restart, RestartRefused, vars, history

-----------------------------------------------------------------------------
(* The theorems *)

\* Until saves overlap the snapshot never runs ahead of the memory, and no Save
\* on its way holds an older version than the file (store.go:211-229).
THEOREM VersionsOrdered == Spec => []OrderInv
<1>1. ASSUME Init PROVE ~overlapped => Ordered
  <2>1. /\ DOMAIN file = {} /\ mem = 1
        /\ \A p \in Savers : pc[p] \in {"off", "idle"}
    BY <1>1 DEF Init
  <2>2. Saved = 0 BY <2>1, SavedIs DEF Holds, Blank
  <2> QED BY <2>1, <2>2 DEF Ordered
<1>2. ASSUME Inv, Inv', ~overlapped => Ordered, [Next]_vars
      PROVE  (~overlapped => Ordered)'
  <2>1. ASSUME ~overlapped' PROVE Ordered'
    <3>1. ~overlapped BY <1>2, <2>1, OverlapStays
    <3> QED BY <1>2, <2>1, <3>1, QuietStep DEF OrderInv
  <2> QED BY <2>1
<1> QED BY <1>1, <1>2, PersistInvariant, PTL DEF Spec, OrderInv

\* The file protocol keeps the promise of DurableStore: through failures,
\* crashes and restarts the snapshot read at a start is the last one renamed
\* into place, until two Saves overlap (store.go:210-229).
THEOREM DurableRefined == Spec => ImplementsDurable
<1>1. ASSUME Init PROVE Durable!Init
  <2>1. DOMAIN file = {} /\ mem = 1 /\ overlapped = FALSE /\ phase = "serving"
    BY <1>1 DEF Init
  <2>2. Saved = 0 BY <2>1, SavedIs DEF Holds, Blank
  <2>3. Running = TRUE BY <2>1 DEF Running, HandlersRun
  <2> QED BY <2>1, <2>2, <2>3 DEF Durable!Init
<1>2. ASSUME OrderInv, Inv', [Next]_vars PROVE [Durable!Next]_abstract
  <2>1. CASE ~overlapped /\ ~overlapped' BY <1>2, <2>1, QuietStep
  <2>2. CASE overlapped
    BY <1>2, <2>2, OverlapStays DEF OrderInv, Inv, TypeInv, PersistTypeOK,
       Durable!Next, Durable!Void
  <2>3. CASE overlapped' BY <2>3 DEF Durable!Next, Durable!Void
  <2> QED BY <2>1, <2>2, <2>3
<1> QED BY <1>1, <1>2, VersionsOrdered, PersistInvariant, PTL
    DEF Spec, ImplementsDurable, Durable!Spec, abstract

-----------------------------------------------------------------------------
(* Nothing is forgotten *)

\* What makes the changes safe while the process runs.
CoverInv == ~overlapped /\ failures = 0 /\ Running => Covered

\* A step that moves neither memory nor file, and leaves whoever covers the
\* last change where it is.
LEMMA CoverKept ==
    ASSUME Inv, CoverInv, ~overlapped, failures = 0, Running,
           mem' = mem, Saved' = Saved, dirty' = dirty,
           \A q \in Savers : pc'[q] = pc[q] /\ raw'[q] = raw[q]
    PROVE  Covered'
<1>1. Covered BY DEF CoverInv
<1>2. CASE dirty \/ Saved = mem BY <1>2 DEF Covered
<1>3. CASE \E p \in Savers : pc[p] \in {"mark", "marshal"}
                             \/ (pc[p] \in Saving /\ raw[p] = mem)
  BY <1>3 DEF Covered
<1> QED BY <1>1, <1>2, <1>3 DEF Covered

\* Each step of a Save keeps the change covered that it carries.
LEMMA SaveCovers ==
    ASSUME OrderInv, CoverInv, ~overlapped, failures = 0, NEW p \in Savers, SaveStep(p)
    PROVE  Covered'
<1> USE DEF OrderInv, Inv, TypeInv
<1>1. Running BY SaveStepFacts
<1>2. Covered BY <1>1 DEF CoverInv
<1>3. CASE Marshal(p)
  <2>1. pc'[p] = "open" /\ raw'[p] = mem /\ mem' = mem
    BY <1>3 DEF Marshal, PersistTypeOK
  <2> QED BY <2>1 DEF Covered, Saving
<1>4. CASE Open(p) \/ Write(p)
  <2>1. /\ pc[p] \in {"open", "write"} /\ pc'[p] \in Saving
        /\ \A q \in Savers \ {p} : pc'[q] = pc[q]
        /\ raw' = raw /\ mem' = mem /\ dirty' = dirty
    BY <1>4 DEF Open, Write, At, PersistTypeOK, Saving
  <2>2. Saved' = Saved
    <3>1. CASE Open(p)
      <4>1. /\ DOMAIN file' = DOMAIN file \cup {"tmp"}
            /\ \A n \in DOMAIN file \ {"tmp"} : file'[n] = file[n]
        BY <3>1 DEF Open
      <4> QED BY <4>1, SavedFrame
    <3>2. CASE Write(p)
      <4>1. pc[p] = "write" BY <3>2 DEF Write, At
      <4>2. fd[p] = "tmp" /\ "tmp" \in DOMAIN file BY <4>1 DEF LoneInv, OwnsTmp
      <4>3. file' = [file EXCEPT !["tmp"] = WriteAt(@, off'[p], raw[p])]
        BY <3>2, <4>2 DEF Write
      <4> QED BY <4>3, SavedFrame
    <3> QED BY <1>4, <3>1, <3>2
  <2>3. CASE dirty \/ Saved = mem BY <2>1, <2>2, <2>3 DEF Covered
  <2>4. CASE \E q \in Savers : pc[q] \in {"mark", "marshal"}
                               \/ (pc[q] \in Saving /\ raw[q] = mem)
    <3>1. PICK q \in Savers : pc[q] \in {"mark", "marshal"}
                              \/ (pc[q] \in Saving /\ raw[q] = mem)
      BY <2>4
    <3>2. pc'[q] \in {"mark", "marshal"} \/ (pc'[q] \in Saving /\ raw'[q] = mem')
      BY <2>1, <3>1
    <3> QED BY <3>2 DEF Covered
  <2> QED BY <1>2, <2>3, <2>4 DEF Covered
<1>5. CASE Rename(p)
  <2>1. /\ pc[p] = "rename" /\ Return(p)
        /\ raw' = raw /\ mem' = mem /\ dirty' = dirty
    BY <1>5 DEF Rename, At
  <2>2. Saved' = raw[p] BY <1>5, RenameSaves
  <2>3. \A q \in Savers \ {p} : pc'[q] = pc[q] /\ pc[q] \notin Saving
    BY <2>1, ReturnFacts DEF LoneInv, Alone, Saving
  <2>4. CASE dirty BY <2>1, <2>4 DEF Covered
  <2>5. CASE Saved = mem
    <3>1. Saved <= raw[p] /\ raw[p] <= mem BY <2>1 DEF Ordered
    <3>2. raw[p] \in Nat /\ mem \in Nat BY DEF PersistTypeOK, Versions
    <3>3. raw[p] = mem BY <2>5, <3>1, <3>2
    <3> QED BY <2>1, <2>2, <3>3 DEF Covered
  <2>6. CASE \E q \in Savers : pc[q] \in {"mark", "marshal"}
                               \/ (pc[q] \in Saving /\ raw[q] = mem)
    <3>1. PICK q \in Savers : pc[q] \in {"mark", "marshal"}
                              \/ (pc[q] \in Saving /\ raw[q] = mem)
      BY <2>6
    <3>2. CASE q = p
      <4>1. raw[p] = mem BY <2>1, <3>1, <3>2
      <4> QED BY <2>1, <2>2, <4>1 DEF Covered
    <3>3. CASE q # p
      <4>1. pc'[q] = "mark" BY <2>3, <3>1, <3>3 DEF Saving
      <4> QED BY <4>1 DEF Covered
    <3> QED BY <3>2, <3>3
  <2> QED BY <1>2, <2>4, <2>5, <2>6 DEF Covered
<1> QED BY <1>3, <1>4, <1>5 DEF SaveStep

\* No step lets go of a change.
LEMMA CoverStep ==
    ASSUME OrderInv, CoverInv, [Next]_vars
    PROVE  CoverInv'
<1> SUFFICES ASSUME ~overlapped', failures' = 0, Running' PROVE Covered'
  BY DEF CoverInv
<1> USE DEF OrderInv, Inv, TypeInv
<1>1. ~overlapped BY OverlapStays
<1>2. failures \in Nat BY PersistenceAssumption DEF PersistTypeOK
<1>3. CASE \E p \in Savers : SaveStep(p)
  <2>1. failures = 0
    BY <1>3 DEF SaveStep, Marshal, Open, Write, Rename, history
  <2> QED BY <1>1, <1>3, <2>1, SaveCovers
<1>4. CASE \E p \in Savers : Fail(p)
  <2>1. failures' = failures + 1 BY <1>4 DEF Fail
  <2> QED BY <1>2, <2>1
<1>5. CASE Change \/ \E r \in Restorers : RestoreMark(r)
  BY <1>5 DEF Change, RestoreMark, Covered
<1>6. CASE \E r \in Restorers : RestoreSwap(r)
  BY <1>6 DEF RestoreSwap, Covered, PersistTypeOK, Savers
<1>7. CASE Tick \/ LastSave \/ MainSave
  BY <1>7 DEF Tick, LastSave, MainSave, BeginSave, Covered, PersistTypeOK, Savers
<1>8. CASE Signal \/ Drained \/ TimesOut \/ Crash \/ RestartRefused \/ UNCHANGED vars
  <2>1. /\ mem' = mem /\ file' = file /\ raw' = raw /\ pc' = pc /\ dirty' = dirty
        /\ failures' = failures
    BY <1>8 DEF Signal, Drained, TimesOut, Crash, RestartRefused, vars, save, history
  <2>2. Running
    BY <1>8 DEF Signal, Drained, TimesOut, Crash, RestartRefused, vars, Running, HandlersRun
  <2>3. Saved' = Saved BY <2>1, SavedFrame
  <2> QED BY <1>1, <2>1, <2>2, <2>3, CoverKept
<1>9. CASE Restart
  <2>1. PICK v \in {0} \cup Versions : Holds(v) /\ mem' = Loaded(v) /\ dirty' = (v = 0)
    BY <1>9 DEF Restart
  <2>2. file' = file BY <1>9 DEF Restart
  <2>3. Saved' = v BY <2>1, <2>2, SavedFrame, SavedIs
  <2> QED BY <2>1, <2>3 DEF Covered, Loaded
<1> QED BY <1>3, <1>4, <1>5, <1>6, <1>7, <1>8, <1>9 DEF Next

\* While the process runs, saves do not overlap and calls do not fail, whatever
\* the file lacks is marked or on its way (store.go:196, 246-258).
THEOREM ChangesCovered == Spec => []NothingForgotten
<1>1. ASSUME Init PROVE CoverInv BY <1>1 DEF Init, CoverInv, Covered
<1>2. ASSUME OrderInv, CoverInv, [Next]_vars PROVE CoverInv'
  BY <1>2, CoverStep
<1>3. CoverInv => NothingForgotten BY DEF CoverInv, NothingForgotten
<1> QED BY <1>1, <1>2, <1>3, VersionsOrdered, PTL DEF Spec

-----------------------------------------------------------------------------
(* The clean exit *)

\* main saves once the last handler is done, so what it has marshalled stays
\* the version in memory.
ExitInv ==
    /\ phase \in {"serving", "draining"} => pc["main"] = "off"
    /\ phase = "drained" /\ pc["main"] \in {"open", "write", "rename"} => raw["main"] = mem
    /\ CleanExitSaved

\* Only main leaves with a save behind it.
LEMMA ExitStep ==
    ASSUME OrderInv, ExitInv, [Next]_vars
    PROVE  ExitInv'
<1> USE DEF OrderInv, Inv, TypeInv, PersistTypeOK
<1>1. "main" \in Savers /\ "main" \notin Restorers /\ "autosave" # "main"
  BY PersistenceAssumption DEF Savers
<1>2. overlapped => overlapped' BY OverlapStays
<1>3. failures \in Nat BY PersistenceAssumption
<1>4. ASSUME phase' # "exited" PROVE CleanExitSaved' BY <1>4 DEF CleanExitSaved
<1>5. ASSUME NEW p \in Savers, Marshal(p) \/ Open(p) \/ Write(p)
      PROVE  ExitInv'
  <2>1. /\ phase' = phase /\ mem' = mem /\ phase # "exited"
        /\ pc[p] \in Saving
        /\ \A q \in Savers \ {p} : pc'[q] = pc[q] /\ raw'[q] = raw[q]
        /\ (raw'[p] = raw[p] /\ pc[p] # "marshal") \/ raw'[p] = mem
    BY <1>5 DEF Marshal, Open, Write, At, Running, HandlersRun, Saving
  <2>2. phase \in {"serving", "draining"} => p # "main" BY <2>1 DEF ExitInv, Saving
  <2>3. phase' \in {"serving", "draining"} => pc'["main"] = "off"
    BY <1>1, <2>1, <2>2 DEF ExitInv
  <2>4. phase' = "drained" /\ pc'["main"] \in {"open", "write", "rename"} => raw'["main"] = mem'
    BY <1>1, <2>1 DEF ExitInv, Saving
  <2> QED BY <1>4, <2>1, <2>3, <2>4 DEF ExitInv
<1>6. ASSUME NEW p \in Savers, Rename(p) \/ Fail(p)
      PROVE  ExitInv'
  <2>1. /\ Return(p) /\ mem' = mem /\ raw' = raw /\ Running /\ overlapped' = overlapped
        /\ pc[p] \in Saving
    BY <1>6 DEF Rename, Fail, At, history, Saving
  <2>2. /\ pc'[p] \in {"off", "idle"} /\ \A q \in Savers \ {p} : pc'[q] = pc[q]
    BY <2>1, ReturnFacts
  <2>3. CASE p # "main"
    <3>1. phase' = phase /\ phase # "exited"
      BY <2>1, <2>3 DEF Return, Running, HandlersRun
    <3> QED BY <1>1, <1>4, <2>1, <2>2, <2>3, <3>1 DEF ExitInv
  <2>4. CASE p = "main"
    <3>1. phase' = IF phase = "drained" THEN "exited" ELSE "down"
      BY <2>1, <2>4 DEF Return
    <3>2. ASSUME ~overlapped', failures' = 0, phase' = "exited" PROVE Saved' = mem'
      <4>1. ~overlapped /\ phase = "drained" BY <2>1, <3>1, <3>2
      <4>2. Rename(p) BY <1>3, <1>6, <3>2 DEF Fail
      <4>3. pc["main"] = "rename" BY <2>4, <4>2 DEF Rename, At
      <4>4. raw[p] = mem BY <2>4, <4>1, <4>3 DEF ExitInv
      <4>5. Saved' = raw[p] BY <4>1, <4>2, RenameSaves
      <4> QED BY <2>1, <4>4, <4>5
    <3>3. CleanExitSaved' BY <3>2 DEF CleanExitSaved
    <3> QED BY <3>1, <3>3 DEF ExitInv
  <2> QED BY <2>3, <2>4
<1>7. ASSUME Change \/ (\E r \in Restorers : RestoreSwap(r) \/ RestoreMark(r)) \/ Tick \/ LastSave
      PROVE  ExitInv'
  <2>1. /\ phase' = phase /\ phase # "exited" /\ raw' = raw
        /\ mem' = mem \/ phase # "drained"
        /\ pc'["main"] = pc["main"]
    BY <1>1, <1>7 DEF Change, RestoreSwap, RestoreMark, Tick, LastSave, BeginSave, At,
       Running, HandlersRun, save
  <2> QED BY <1>4, <2>1 DEF ExitInv
<1>8. ASSUME MainSave PROVE ExitInv'
  <2>1. phase' = phase /\ phase \in {"drained", "timedout"} /\ pc'["main"] = "marshal"
    BY <1>1, <1>8 DEF MainSave, BeginSave
  <2> QED BY <1>4, <2>1 DEF ExitInv
<1>9. ASSUME Signal \/ Drained \/ TimesOut \/ Crash \/ RestartRefused
      PROVE  ExitInv'
  <2>1. /\ mem' = mem /\ raw' = raw /\ pc' = pc
        /\ phase' # "exited"
        /\ phase' \in {"serving", "draining"} => phase \in {"serving", "draining"}
        /\ phase' = "drained" => phase = "draining"
    BY <1>9 DEF Signal, Drained, TimesOut, Crash, RestartRefused, save
  <2> QED BY <1>4, <2>1 DEF ExitInv
<1>10. ASSUME Restart PROVE ExitInv'
  <2>1. phase' = "serving" /\ pc'["main"] = "off" BY <1>1, <1>10 DEF Restart, Started
  <2> QED BY <1>4, <2>1 DEF ExitInv
<1>11. ASSUME UNCHANGED vars PROVE ExitInv'
  <2>1. /\ mem' = mem /\ file' = file /\ raw' = raw /\ pc' = pc /\ phase' = phase
        /\ failures' = failures /\ overlapped' = overlapped
    BY <1>11 DEF vars, save, history
  <2>2. Saved' = Saved BY <2>1, SavedFrame
  <2> QED BY <2>1, <2>2 DEF ExitInv, CleanExitSaved
<1> QED BY <1>5, <1>6, <1>7, <1>8, <1>9, <1>10, <1>11 DEF Next, SaveStep

\* When main returns after the last request is done, the file holds the last
\* change, unless saves overlapped or a call failed (cmd/api/main.go:112-116).
THEOREM ExitSavesAll == Spec => []CleanExitSaved
<1>1. ASSUME Init PROVE ExitInv
  BY <1>1 DEF Init, ExitInv, CleanExitSaved, Savers
<1>2. ASSUME OrderInv, ExitInv, [Next]_vars PROVE ExitInv'
  BY <1>2, ExitStep
<1>3. ExitInv => CleanExitSaved BY DEF ExitInv
<1> QED BY <1>1, <1>2, <1>3, VersionsOrdered, PTL DEF Spec

\* Nor does it lose track of a change, as long as the disk does not fail: what
\* the file lacks is marked, or in the save of the loop (store.go:242-253).
THEOREM LoopAloneForgetsNothing ==
    ASSUME Restorers = {}, Signalled = FALSE, MaxFailures = 0
    PROVE  Spec => [](Running => Covered)
<1>1. Spec => []~overlapped BY LoopAlone
<1>2. NothingForgotten /\ ~overlapped /\ PersistTypeOK => (Running => Covered)
  <2>1. PersistTypeOK => failures = 0 BY DEF PersistTypeOK
  <2> QED BY <2>1 DEF NothingForgotten
<1> QED BY <1>1, <1>2, ChangesCovered, PersistTypes, PTL

=============================================================================
