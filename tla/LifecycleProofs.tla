-------------------------- MODULE LifecycleProofs --------------------------
(***************************************************************************)
(* The rules of the store survive backups, restores, restarts and saves    *)
(* that fail or overlap, for every bound, any number of restores under way *)
(* and with or without a snapshot file.  LifeInv is inductive: all copies  *)
(* are copies of data that once was in memory, and of what memory holds    *)
(* somebody takes care (Tended).  CarryInv adds that memory never falls    *)
(* behind the snapshot file, nor behind a copy on its way there, except    *)
(* through a restore: no counter goes back and no login is added to one    *)
(* that is there.                                                          *)
(***************************************************************************)
EXTENDS Lifecycle, StoreProofs

\* What the savers do, and the copies they share.
SavesInv ==
    /\ save \in [Savers -> Steps]
    /\ dirty \in BOOLEAN /\ mixed \in BOOLEAN /\ behind \in BOOLEAN /\ lost \in BOOLEAN
    /\ ~Persist => disk = EmptyData /\ \A s \in Savers : save[s] \in {"idle", "mark"}
    /\ (\A s \in Savers : ~Writing(s)) => copies = {} /\ ~mixed
    /\ ~mixed => /\ \A s \in Savers : \A t \in Savers : Writing(s) /\ Writing(t) => s = t
                 /\ \A x \in copies : \A y \in copies : x = y

\* A mark, or somebody who is to mark the data or to marshal them.
Tended == dirty \/ \E s \in Savers : save[s] \in {"mark", "marshal"}

\* The copy being written is of the data in memory, or they are tended.
WritesLatest ==
    ~mixed /\ (\E s \in Savers : Writing(s)) => Tended \/ d \in copies

\* The inductive invariant: all copies are consistent, and a change the
\* snapshot file lacks is not forgotten.
LifeInv ==
    /\ AllCopiesConsistent
    /\ SavesInv
    /\ WritesLatest
    /\ UnsavedIsDirty

\* What UnsavedIsDirty and WritesLatest need of a step.
LEMMA TendedSuffices ==
    ASSUME Tended'
    PROVE  WritesLatest' /\ UnsavedIsDirty'
  BY DEF Tended, WritesLatest, UnsavedIsDirty

\* A step of the store leaves the copies alone and marks its change.
LEMMA OperationStep ==
    ASSUME LifeInv, Operation
    PROVE  LifeInv'
<1>1. Consistent(d') BY StoreStep DEF LifeInv, AllCopiesConsistent, Operation
<1>2. dirty' = TRUE BY StepMarksDirty DEF Operation
<1>3. AllCopiesConsistent'
  BY <1>1 DEF LifeInv, AllCopiesConsistent, Operation, saving
<1>4. SavesInv' BY <1>2 DEF LifeInv, SavesInv, Operation, saving, Writing
<1>5. Tended' BY <1>2 DEF Tended
<1> QED BY <1>3, <1>4, <1>5, TendedSuffices DEF LifeInv

\* A saver that begins, or takes its next step other than to write: the copies
\* are left alone.
LEMMA SaverSteps ==
    ASSUME LifeInv, NEW s \in Savers, NEW step \in {"mark", "marshal", "idle"}, ~Writing(s),
           Goto(s, step), Persist \/ step # "marshal",
           UNCHANGED <<disk, copies, mixed>>,
           dirty' \in BOOLEAN, behind' \in BOOLEAN, lost' \in BOOLEAN
    PROVE  /\ SavesInv'
           /\ step # "idle" => Tended'
<1>1. save \in [Savers -> Steps] BY DEF LifeInv, SavesInv
<1>2. save' \in [Savers -> Steps] BY <1>1 DEF Goto, Steps
<1>3. \A t \in Savers : save'[t] = IF t = s THEN step ELSE save[t] BY <1>1 DEF Goto
<1>4. \A t \in Savers : Writing(t)' <=> Writing(t) BY <1>3 DEF Writing
<1>5. ~Persist => disk' = EmptyData /\ \A t \in Savers : save'[t] \in {"idle", "mark"}
  BY <1>3 DEF LifeInv, SavesInv
<1>6. SavesInv' BY <1>2, <1>4, <1>5 DEF LifeInv, SavesInv
<1>7. step # "idle" => Tended' BY <1>3 DEF Tended
<1> QED BY <1>6, <1>7

LEMMA LastingSavers == "loop" \in Savers /\ "main" \in Savers /\ Lasting \subseteq Savers
  BY DEF Savers, Lasting

\* A tick takes the mark and the data into its hands.
LEMMA AutosaveStep ==
    ASSUME LifeInv, Autosave
    PROVE  LifeInv'
<1>1. ~Writing("loop") BY DEF Autosave, Begin, Writing
<1>2. SavesInv' /\ Tended'
  BY <1>1, LastingSavers, SaverSteps DEF LifeInv, SavesInv, Autosave, Begin
<1>3. AllCopiesConsistent' BY DEF LifeInv, AllCopiesConsistent, Autosave
<1> QED BY <1>2, <1>3, TendedSuffices DEF LifeInv

\* The last saves leave the mark.
LEMMA FinalSaveStep ==
    ASSUME LifeInv, NEW s \in Lasting, FinalSave(s)
    PROVE  LifeInv'
<1>1. ~Writing(s) /\ s \in Savers BY LastingSavers DEF FinalSave, Begin, Writing
<1>2. SavesInv' /\ Tended'
  BY <1>1, SaverSteps DEF LifeInv, SavesInv, FinalSave, Begin
<1>3. AllCopiesConsistent' BY DEF LifeInv, AllCopiesConsistent, FinalSave
<1> QED BY <1>2, <1>3, TendedSuffices DEF LifeInv

\* What is written is the latest data.
LEMMA MarshalStep ==
    ASSUME LifeInv, NEW s \in Savers, Marshal(s)
    PROVE  LifeInv'
<1>1. save \in [Savers -> Steps] /\ save[s] = "marshal" BY DEF LifeInv, SavesInv, Marshal
<1>2. save' \in [Savers -> Steps] BY <1>1 DEF Marshal, Goto, Steps
<1>3. \A t \in Savers : save'[t] = IF t = s THEN "write" ELSE save[t]
  BY <1>1 DEF Marshal, Goto
<1>4. /\ UNCHANGED <<d, dirty, disk, dumps, stale, behind, lost>>
      /\ copies' = copies \cup {d} /\ (mixed' <=> \E t \in Savers : Writing(t))
      /\ mixed' \in BOOLEAN
  BY DEF Marshal
<1>5. AllCopiesConsistent' BY <1>4 DEF LifeInv, AllCopiesConsistent
<1>6. Persist BY <1>1 DEF LifeInv, SavesInv
<1>7. Writing(s)' /\ d' \in copies' BY <1>3, <1>4 DEF Writing
<1>8. ASSUME ~mixed' PROVE /\ \A t \in Savers : Writing(t)' => t = s
                           /\ copies' = {d}
  <2>1. \A t \in Savers : ~Writing(t) BY <1>4, <1>8
  <2>2. copies = {} BY <2>1 DEF LifeInv, SavesInv
  <2> QED BY <1>3, <1>4, <2>1, <2>2 DEF Writing
<1>9. SavesInv' BY <1>2, <1>4, <1>6, <1>7, <1>8 DEF LifeInv, SavesInv
<1> QED BY <1>5, <1>7, <1>9 DEF LifeInv, WritesLatest, UnsavedIsDirty

\* A save that returns leaves the other ones alone.
LEMMA ReturnFacts ==
    ASSUME LifeInv, NEW s \in Savers, Return(s), Persist,
           dirty' \in BOOLEAN, behind' \in BOOLEAN, lost' \in BOOLEAN
    PROVE  /\ SavesInv'
           /\ copies' = copies \/ copies' = {}
           /\ \A t \in Savers : save'[t] \in {"mark", "marshal"} <=> save[t] \in {"mark", "marshal"}
           /\ ~mixed => (\A t \in Savers : ~Writing(t)') /\ copies' = {}
           /\ mixed' => mixed
<1>1. save \in [Savers -> Steps] /\ save[s] = "write"
  BY DEF LifeInv, SavesInv, Return, Writing
<1>2. save' \in [Savers -> Steps] BY <1>1 DEF Return, Goto, Steps
<1>3. \A t \in Savers : save'[t] = IF t = s THEN "idle" ELSE save[t]
  BY <1>1 DEF Return, Goto
<1>4. CASE \E t \in Savers \ {s} : Writing(t)
  <2>1. UNCHANGED <<copies, mixed>> BY <1>4 DEF Return
  <2>2. \E t \in Savers : Writing(t)' BY <1>3, <1>4 DEF Writing
  <2>3. mixed BY <1>1, <1>4 DEF LifeInv, SavesInv, Writing
  <2>4. SavesInv' BY <1>2, <2>1, <2>2, <2>3 DEF LifeInv, SavesInv
  <2> QED BY <1>1, <1>3, <2>1, <2>3, <2>4
<1>5. CASE ~\E t \in Savers \ {s} : Writing(t)
  <2>1. copies' = {} /\ mixed' = FALSE BY <1>5 DEF Return
  <2>2. \A t \in Savers : ~Writing(t)' BY <1>3, <1>5 DEF Writing
  <2>3. SavesInv' BY <1>2, <2>1, <2>2 DEF SavesInv
  <2> QED BY <1>1, <1>3, <2>1, <2>2, <2>3
<1> QED BY <1>4, <1>5

\* A save that is alone brings the file to where memory was.
LEMMA RenameStep ==
    ASSUME LifeInv, NEW s \in Savers, Rename(s)
    PROVE  LifeInv'
<1>1. /\ Return(s) /\ UNCHANGED <<d, dirty, dumps>> /\ (lost' <=> mixed /\ ~dirty)
      /\ disk' \in copies \cup (IF mixed THEN {EmptyData} ELSE {})
      /\ lost' \in BOOLEAN /\ behind' \in BOOLEAN /\ dirty' \in BOOLEAN
  BY DEF Rename, LifeInv, SavesInv
<1>2. Writing(s) BY <1>1 DEF Return
<1>3. Persist BY <1>2 DEF LifeInv, SavesInv, Writing
<1>4. /\ SavesInv'
      /\ copies' = copies \/ copies' = {}
      /\ \A t \in Savers : save'[t] \in {"mark", "marshal"} <=> save[t] \in {"mark", "marshal"}
      /\ ~mixed => (\A t \in Savers : ~Writing(t)') /\ copies' = {}
      /\ mixed' => mixed
  BY <1>1, <1>3, ReturnFacts
<1>5. AllCopiesConsistent'
  BY <1>1, <1>4, EmptyConsistent DEF LifeInv, AllCopiesConsistent
<1>6. CASE Tended
  <2>1. Tended' BY <1>1, <1>4, <1>6 DEF Tended
  <2> QED BY <1>4, <1>5, <2>1, TendedSuffices DEF LifeInv
<1>7. CASE ~Tended /\ ~mixed
  <2>1. d \in copies BY <1>2, <1>7 DEF LifeInv, WritesLatest
  <2>2. disk' = d' BY <1>1, <1>7, <2>1 DEF LifeInv, SavesInv
  <2> QED BY <1>4, <1>5, <1>7, <2>2 DEF LifeInv, WritesLatest, UnsavedIsDirty
<1>8. CASE ~Tended /\ mixed
  <2>1. lost' BY <1>1, <1>8 DEF Tended
  <2>2. mixed' \/ \A t \in Savers : ~Writing(t)'
    <3>1. CASE \E t \in Savers \ {s} : Writing(t) BY <1>1, <1>8, <3>1 DEF Return
    <3>2. CASE ~\E t \in Savers \ {s} : Writing(t)
      BY <1>1, <3>2 DEF LifeInv, SavesInv, Return, Goto, Writing
    <3> QED BY <3>1, <3>2
  <2> QED BY <1>4, <1>5, <2>1, <2>2 DEF LifeInv, WritesLatest, UnsavedIsDirty
<1> QED BY <1>6, <1>7, <1>8

\* A save that fails leaves the file, unless another one writes to it too.
LEMMA FailStep ==
    ASSUME LifeInv, NEW s \in Savers, Fail(s)
    PROVE  LifeInv'
<1>1. /\ Return(s) /\ UNCHANGED <<d, dirty, dumps>> /\ (lost' <=> ~dirty)
      /\ disk' \in {disk} \cup (IF mixed THEN copies \cup {EmptyData} ELSE {})
      /\ lost' \in BOOLEAN /\ behind' \in BOOLEAN /\ dirty' \in BOOLEAN
  BY DEF Fail, LifeInv, SavesInv
<1>2. Writing(s) BY <1>1 DEF Return
<1>3. Persist BY <1>2 DEF LifeInv, SavesInv, Writing
<1>4. /\ SavesInv'
      /\ copies' = copies \/ copies' = {}
      /\ \A t \in Savers : save'[t] \in {"mark", "marshal"} <=> save[t] \in {"mark", "marshal"}
      /\ ~mixed => (\A t \in Savers : ~Writing(t)') /\ copies' = {}
  BY <1>1, <1>3, ReturnFacts
<1>5. AllCopiesConsistent'
  BY <1>1, <1>4, EmptyConsistent DEF LifeInv, AllCopiesConsistent
<1>6. UnsavedIsDirty' BY <1>1 DEF UnsavedIsDirty
<1>7. WritesLatest'
  <2>1. CASE \E t \in Savers \ {s} : Writing(t)
    <3>1. mixed BY <1>2, <2>1 DEF LifeInv, SavesInv
    <3> QED BY <1>1, <2>1, <3>1 DEF Return, WritesLatest
  <2>2. CASE ~\E t \in Savers \ {s} : Writing(t)
    <3>1. \A t \in Savers : ~Writing(t)'
      BY <1>1, <2>2 DEF LifeInv, SavesInv, Return, Goto, Writing
    <3> QED BY <3>1 DEF WritesLatest
  <2> QED BY <2>1, <2>2
<1> QED BY <1>4, <1>5, <1>6, <1>7 DEF LifeInv

\* A dump is a copy of the data.
LEMMA SnapshotStep ==
    ASSUME LifeInv, Snapshot
    PROVE  LifeInv'
<1>1. UNCHANGED <<d, dirty, disk, save, copies, mixed, behind, lost>>
      /\ dumps' = dumps \cup {d}
  BY DEF Snapshot, saving
<1> QED
  BY <1>1 DEF LifeInv, AllCopiesConsistent, SavesInv, WritesLatest, UnsavedIsDirty, Tended, Writing

\* A restored dump is one that was consistent when it was made.
LEMMA SwapStep ==
    ASSUME LifeInv, NEW r \in Restorers, NEW x \in dumps, RestoreSwap(r, x)
    PROVE  LifeInv'
<1>1. ~Writing(r) /\ r \in Savers BY DEF RestoreSwap, Begin, Writing, Savers
<1>2. SavesInv' /\ Tended'
  BY <1>1, SaverSteps DEF LifeInv, SavesInv, RestoreSwap, Begin
<1>3. AllCopiesConsistent' BY DEF LifeInv, AllCopiesConsistent, RestoreSwap
<1> QED BY <1>2, <1>3, TendedSuffices DEF LifeInv

\* The restored data are marked.
LEMMA MarkStep ==
    ASSUME LifeInv, NEW r \in Restorers, RestoreMark(r)
    PROVE  LifeInv'
<1>1. ~Writing(r) /\ r \in Savers BY DEF RestoreMark, Writing, Savers
<1> DEFINE step == IF Persist THEN "marshal" ELSE "idle"
<1>2. step \in {"mark", "marshal", "idle"} /\ (Persist \/ step # "marshal") OBVIOUS
<1>3. /\ Goto(r, step) /\ UNCHANGED <<disk, copies, mixed>>
      /\ dirty' \in BOOLEAN /\ behind' \in BOOLEAN /\ lost' \in BOOLEAN
  BY DEF RestoreMark, LifeInv, SavesInv
<1> HIDE DEF step
<1>4. SavesInv' BY <1>1, <1>2, <1>3, SaverSteps
<1>5. Tended' BY DEF RestoreMark, Tended
<1>6. AllCopiesConsistent' BY DEF LifeInv, AllCopiesConsistent, RestoreMark
<1> QED BY <1>4, <1>5, <1>6, TendedSuffices DEF LifeInv

\* A restart takes the snapshot file, and an admin it adds is marked.
LEMMA RestartStep ==
    ASSUME LifeInv, Restart
    PROVE  LifeInv'
<1> DEFINE loaded == IF Persist THEN disk ELSE EmptyData
<1>1. Consistent(loaded)
  BY EmptyConsistent DEF LifeInv, AllCopiesConsistent
<1>2. PICK u \in Usernames, h \in Hashes :
          d' = EnsureAdmin(loaded, u, h) /\ dirty' = NeedsAdmin(loaded)
  BY DEF Restart, Boot
<1>3. Consistent(d') BY <1>1, <1>2, EnsureAdminFacts
<1>4. dirty' \in BOOLEAN BY <1>2 DEF NeedsAdmin
<1>5. Persist /\ ~NeedsAdmin(disk) => d' = disk BY <1>2 DEF EnsureAdmin
<1>6. /\ disk' = disk /\ dumps' = dumps
      /\ save' = [s \in Savers |-> "idle"] /\ copies' = {}
      /\ mixed' = FALSE /\ behind' = FALSE /\ lost' = FALSE
  BY DEF Restart, NewProcess
<1>7. AllCopiesConsistent' BY <1>3, <1>6 DEF LifeInv, AllCopiesConsistent
<1>8. UnsavedIsDirty' BY <1>2, <1>5, <1>6 DEF UnsavedIsDirty
<1>9. \A s \in Savers : ~Writing(s)' BY <1>6 DEF Writing
<1>10. SavesInv' BY <1>4, <1>6, <1>9 DEF LifeInv, SavesInv, Steps
<1>11. WritesLatest' BY <1>9 DEF WritesLatest
<1> QED BY <1>7, <1>8, <1>10, <1>11 DEF LifeInv

\* The inductive invariant holds throughout.
THEOREM LifeInvariant == Spec => []LifeInv
<1>1. ASSUME Init PROVE LifeInv
  <2>1. PICK u \in Usernames, h \in Hashes :
            d = EnsureAdmin(EmptyData, u, h) /\ dirty = NeedsAdmin(EmptyData)
    BY <1>1 DEF Init, StoreInit, Boot
  <2>2. AllCopiesConsistent
    BY <1>1, <2>1, EmptyConsistent, EnsureAdminFacts DEF Init, AllCopiesConsistent
  <2>3. NeedsAdmin(EmptyData) BY EmptyFacts DEF NeedsAdmin, EmptyData, TableNames
  <2>4. dirty = TRUE BY <2>1, <2>3
  <2>5. \A s \in Savers : ~Writing(s) BY <1>1 DEF Init, Writing
  <2>6. SavesInv BY <1>1, <2>4, <2>5 DEF Init, SavesInv, Steps
  <2> QED BY <2>2, <2>4, <2>5, <2>6 DEF LifeInv, WritesLatest, UnsavedIsDirty
<1>2. ASSUME LifeInv, [Next]_lifeVars PROVE LifeInv'
  <2>1. CASE Operation BY <1>2, <2>1, OperationStep
  <2>2. CASE Autosave BY <1>2, <2>2, AutosaveStep
  <2>3. CASE \E s \in Lasting : FinalSave(s) BY <1>2, <2>3, FinalSaveStep
  <2>4. CASE \E s \in Savers : Marshal(s) \/ Rename(s) \/ Fail(s)
    BY <1>2, <2>4, MarshalStep, RenameStep, FailStep
  <2>5. CASE Snapshot BY <1>2, <2>5, SnapshotStep
  <2>6. CASE \E r \in Restorers, x \in dumps : RestoreSwap(r, x) BY <1>2, <2>6, SwapStep
  <2>7. CASE \E r \in Restorers : RestoreMark(r) BY <1>2, <2>7, MarkStep
  <2>8. CASE Restart BY <1>2, <2>8, RestartStep
  <2>9. CASE UNCHANGED lifeVars
    BY <1>2, <2>9 DEF LifeInv, AllCopiesConsistent, SavesInv, WritesLatest, UnsavedIsDirty,
                      Tended, Writing, lifeVars, saving
  <2> QED BY <1>2, <2>1, <2>2, <2>3, <2>4, <2>5, <2>6, <2>7, <2>8, <2>9 DEF Next
<1> QED BY <1>1, <1>2, PTL DEF Spec

\* Neither a crash between a change and its save, nor saves that overlap, nor a
\* dump restored out of its time brings in data that break the rules
\* (backup.go:28, store.go:183).
THEOREM CopiesConsistent == Spec => []AllCopiesConsistent
<1>1. LifeInv => AllCopiesConsistent BY DEF LifeInv
<1> QED BY <1>1, LifeInvariant, PTL

\* Whatever the snapshot file lacks is marked or in somebody's hands, as long
\* as no save fails and none overlaps another; and again from the next change
\* or whole save on (store.go:196, 216, 249, backup.go:31).
THEOREM UnsavedMarked == Spec => []UnsavedIsDirty
<1>1. LifeInv => UnsavedIsDirty BY DEF LifeInv
<1> QED BY <1>1, LifeInvariant, PTL

-----------------------------------------------------------------------------
(* Counters and logins: what no step of the store takes back *)

\* The table u comes after t: its counter has not gone back, and a row that is
\* new has an id that t had not issued.
Grown(t, u) ==
    /\ t.seq <= u.seq
    /\ \A i \in Ids(u) : i \in Ids(t) \/ t.seq < i

Grows(x, y) == \A n \in TableNames : Grown(x[n], y[n])

\* Rows inserted, replaced or deleted: the counter never goes back.
LEMMA TablesGrow ==
    ASSUME NEW R, NEW t, IsTable(t, R)
    PROVE  /\ Grown(t, t)
           /\ \A row : Grown(t, Insert(t, row))
           /\ \A row : \A i \in Ids(t) : Grown(t, Put(t, i, row))
           /\ \A S : Grown(t, Without(t, S))
<1>1. Grown(t, t) BY DEF Grown, IsTable
<1>2. ASSUME NEW row PROVE Grown(t, Insert(t, row))
  <2>1. Ids(Insert(t, row)) = Ids(t) \cup {NextID(t)} /\ Insert(t, row).seq = NextID(t)
    BY DEF IsTable, Insert, Put, NextID, Ids
  <2> QED BY <2>1 DEF Grown, IsTable, NextID
<1>3. ASSUME NEW row, NEW i \in Ids(t) PROVE Grown(t, Put(t, i, row))
  <2>1. Ids(Put(t, i, row)) = Ids(t) /\ Put(t, i, row).seq = t.seq
    BY <1>3 DEF IsTable, Put, Ids
  <2> QED BY <2>1 DEF Grown, IsTable
<1>4. ASSUME NEW S PROVE Grown(t, Without(t, S))
  <2>1. Ids(Without(t, S)) = Ids(t) \ S /\ Without(t, S).seq = t.seq
    BY WithoutFacts
  <2> QED BY <2>1 DEF Grown, IsTable
<1> QED BY <1>1, <1>2, <1>3, <1>4

\* The flags of pictures do not touch ids.
LEMMA UnsetGrows ==
    ASSUME NEW R, NEW t, NEW m, NEW entityType, NEW entityID, NEW exceptID,
           IsTable(t, R), DOMAIN m = {"seq", "items"}, Grown(t, m)
    PROVE  Grown(t, UnsetMainExcept(m, entityType, entityID, exceptID))
<1> DEFINE u == UnsetMainExcept(m, entityType, entityID, exceptID)
<1>1. u.seq = m.seq /\ Ids(u) = Ids(m) BY DEF UnsetMainExcept, Ids
<1> QED BY <1>1 DEF Grown

\* What a step leaves of the counters and the logins.
Carried == Grows(d, d') /\ Ids(d'.admins) = Ids(d.admins)

\* A step that replaces tables other than the logins by later ones.
LEMMA LaterTables ==
    ASSUME WellFormed(d),
           \A k \in TableNames : d'[k] = d[k] \/ (k # "admins" /\ Grown(d[k], d'[k]))
    PROVE  Carried
<1>1. \A k \in TableNames : Grown(d[k], d[k]) BY TablesGrow DEF WellFormed
<1>2. d'.admins = d.admins BY DEF TableNames
<1> QED BY <1>1, <1>2 DEF Carried, Grows

\* The three ways an operation writes to a table.
LEMMA Inserted ==
    ASSUME WellFormed(d), NEW n \in TableNames \ {"admins"}, NEW row,
           d' = [d EXCEPT ![n] = Insert(@, row)]
    PROVE  Carried
<1>1. Grown(d[n], Insert(d[n], row)) BY TablesGrow DEF WellFormed
<1>2. \A k \in TableNames : d'[k] = IF k = n THEN Insert(d[n], row) ELSE d[k]
  BY DEF WellFormed
<1> QED BY <1>1, <1>2, LaterTables

LEMMA Replaced ==
    ASSUME WellFormed(d), NEW n \in TableNames \ {"admins"}, NEW id \in Ids(d[n]), NEW row,
           d' = [d EXCEPT ![n] = Put(@, id, row)]
    PROVE  Carried
<1>1. Grown(d[n], Put(d[n], id, row)) BY TablesGrow DEF WellFormed
<1>2. \A k \in TableNames : d'[k] = IF k = n THEN Put(d[n], id, row) ELSE d[k]
  BY DEF WellFormed
<1> QED BY <1>1, <1>2, LaterTables

LEMMA Removed ==
    ASSUME WellFormed(d),
           \A k \in TableNames :
              d'[k] = d[k] \/ (k # "admins" /\ \E S : d'[k] = Without(d[k], S))
    PROVE  Carried
<1>1. \A k \in TableNames : \A S : Grown(d[k], Without(d[k], S))
  BY TablesGrow DEF WellFormed
<1> QED BY <1>1, LaterTables

\* The operations on categories, subcategories and products.
LEMMA CatalogCarries ==
    ASSUME WellFormed(d), CatalogNext
    PROVE  Carried
<1>1. {"categories", "subcategories", "products"} \subseteq TableNames \ {"admins"}
      /\ "media" \in TableNames /\ DOMAIN d = TableNames
  BY DEF WellFormed, TableNames, SluggedTables
<1>2. ASSUME NEW slug, NEW status,
             CreateCategory(slug, status)
             \/ \E id : CreateSubcategory(id, slug, status) \/ CreateProduct(id, slug, status)
      PROVE  Carried
  BY <1>1, <1>2, Inserted DEF CreateCategory, CreateSubcategory, CreateProduct, Commit
<1>3. ASSUME NEW slug, NEW status, NEW id,
             UpdateCategory(id, slug, status) \/ SetProductStatus(id, status)
             \/ \E p : UpdateSubcategory(id, p, slug, status) \/ UpdateProduct(id, p, slug, status)
      PROVE  Carried
  BY <1>1, <1>3, Replaced
     DEF UpdateCategory, UpdateSubcategory, UpdateProduct, SetProductStatus, Commit
<1>4. ASSUME NEW id, DeleteCategory(id)
      PROVE  Carried
  BY <1>1, <1>4, Removed DEF DeleteCategory, WithoutMedia, Commit
<1>5. ASSUME NEW id, DeleteSubcategory(id)
      PROVE  Carried
  BY <1>1, <1>5, Removed DEF DeleteSubcategory, WithoutMedia, Commit
<1>6. ASSUME NEW id, DeleteProduct(id)
      PROVE  Carried
  BY <1>1, <1>6, Removed DEF DeleteProduct, WithoutMedia, Commit
<1> QED BY <1>2, <1>3, <1>4, <1>5, <1>6 DEF CatalogNext

\* The operations on services, object types and advantages.
LEMMA ContentCarries ==
    ASSUME WellFormed(d), ContentNext
    PROVE  Carried
<1>1. EntryTables \subseteq TableNames \ {"admins"} /\ "media" \in TableNames
      /\ DOMAIN d = TableNames
  BY DEF WellFormed, EntryTables, TableNames, SluggedTables
<1>2. ASSUME NEW n \in EntryTables, NEW slug, NEW status, CreateEntry(n, slug, status)
      PROVE  Carried
  BY <1>1, <1>2, Inserted DEF CreateEntry, Commit
<1>3. ASSUME NEW n \in EntryTables, NEW id, NEW slug, NEW status,
             UpdateEntry(n, id, slug, status) \/ SetEntryStatus(n, id, status)
      PROVE  Carried
  BY <1>1, <1>3, Replaced DEF UpdateEntry, SetEntryStatus, Commit
<1>4. ASSUME NEW n \in EntryTables, NEW entityType, NEW id, DeleteEntry(n, entityType, id)
      PROVE  Carried
  <2>1. "media" \notin EntryTables BY DEF EntryTables
  <2> QED BY <1>1, <1>4, <2>1, Removed DEF DeleteEntry, WithoutMedia, Commit
<1> QED BY <1>2, <1>3, <1>4
        DEF EntryTables, ContentNext, CreateService, UpdateService, SetServiceStatus, DeleteService,
            CreateObjectType, UpdateObjectType, SetObjectTypeStatus, DeleteObjectType,
            CreateAdvantage, UpdateAdvantage, SetAdvantageStatus, DeleteAdvantage

\* The operations on characteristics, values and links.
LEMMA CharacteristicsCarry ==
    ASSUME WellFormed(d), CharacteristicsNext
    PROVE  Carried
<1>1. {"characteristics", "charValues", "productChars"} \subseteq TableNames \ {"admins"}
      /\ DOMAIN d = TableNames
  BY DEF WellFormed, TableNames
<1>2. ASSUME NEW id, NEW value,
             CreateCharacteristic(value) \/ CreateCharacteristicValue(id, value)
      PROVE  Carried
  BY <1>1, <1>2, Inserted DEF CreateCharacteristic, CreateCharacteristicValue, Commit
<1>3. ASSUME NEW id, NEW value,
             UpdateCharacteristic(id, value) \/ UpdateCharacteristicValue(id, value)
      PROVE  Carried
  BY <1>1, <1>3, Replaced DEF UpdateCharacteristic, UpdateCharacteristicValue, Commit
<1>4. ASSUME NEW id, DeleteCharacteristic(id)
      PROVE  Carried
  BY <1>1, <1>4, Removed DEF DeleteCharacteristic, Commit
<1>5. ASSUME NEW v, DeleteCharacteristicValue(v)
      PROVE  Carried
  BY <1>1, <1>5, Removed DEF DeleteCharacteristicValue, Commit
<1>6. ASSUME NEW p, NEW id, NEW v, SetProductCharacteristic(p, id, v)
      PROVE  Carried
  <2>1. Links(p, id) \subseteq Ids(d.productChars) BY DEF Links, Matching
  <2>2. CASE \E i \in Links(p, id) :
               d' = [d EXCEPT !.productChars = Put(@, i, [@.items[i] EXCEPT !.valueID = v])]
    BY <1>1, <2>1, <2>2, Replaced
  <2>3. CASE \E row : d' = [d EXCEPT !.productChars = Insert(@, row)]
    BY <1>1, <2>3, Inserted
  <2> QED BY <1>6, <2>2, <2>3 DEF SetProductCharacteristic, Commit
<1>7. ASSUME NEW p, NEW id, DeleteProductCharacteristic(p, id)
      PROVE  Carried
  BY <1>1, <1>7, Removed DEF DeleteProductCharacteristic, Commit
<1> QED BY <1>2, <1>3, <1>4, <1>5, <1>6, <1>7 DEF CharacteristicsNext

\* The operations on pictures.
LEMMA MediaCarries ==
    ASSUME WellFormed(d), MediaNext
    PROVE  Carried
<1>1. /\ IsTable(d.media, Row["media"])
      /\ "media" \in TableNames /\ DOMAIN d = TableNames
  BY DEF WellFormed, TableNames
<1>2. ASSUME NEW m, d' = [d EXCEPT !.media = m], Grown(d.media, m)
      PROVE  Carried
  BY <1>1, <1>2, LaterTables DEF TableNames
<1>3. ASSUME NEW row PROVE DOMAIN Insert(d.media, row) = {"seq", "items"}
  BY <1>1 DEF IsTable, Insert, Put
<1>4. ASSUME NEW row, NEW i PROVE DOMAIN Put(d.media, i, row) = {"seq", "items"}
  BY <1>1 DEF IsTable, Put
<1>5. ASSUME NEW entityType, NEW entityID, NEW isMain, AddMedia(entityType, entityID, isMain)
      PROVE  Carried
  <2> DEFINE added == Insert(d.media, [entityType |-> entityType, entityID |-> entityID,
                                       isMain |-> isMain])
             unset == UnsetMainExcept(added, entityType, entityID, NextID(d.media))
  <2>1. Grown(d.media, added) BY <1>1, TablesGrow
  <2>2. Grown(d.media, unset) BY <1>1, <1>3, <2>1, UnsetGrows
  <2>3. d' = [d EXCEPT !.media = IF isMain THEN unset ELSE added]
    BY <1>5 DEF AddMedia, Commit
  <2> QED BY <1>2, <2>1, <2>2, <2>3
<1>6. ASSUME NEW id, DeleteMedia(id)
      PROVE  Carried
  <2>1. Grown(d.media, Without(d.media, {id})) BY <1>1, TablesGrow
  <2> QED BY <1>2, <1>6, <2>1 DEF DeleteMedia, Commit
<1>7. ASSUME NEW id, SetMainMedia(id)
      PROVE  Carried
  <2> DEFINE m == d.media.items[id]
             put == Put(d.media, id, [m EXCEPT !.isMain = TRUE])
             unset == UnsetMainExcept(put, m.entityType, m.entityID, id)
  <2>1. Grown(d.media, put) BY <1>1, <1>7, TablesGrow DEF SetMainMedia
  <2>2. Grown(d.media, unset) BY <1>1, <1>4, <2>1, UnsetGrows
  <2>3. d' = [d EXCEPT !.media = unset] BY <1>7 DEF SetMainMedia, Commit
  <2> QED BY <1>2, <2>2, <2>3
<1> QED BY <1>5, <1>6, <1>7 DEF MediaNext

\* A change of password.
LEMMA AdminCarries ==
    ASSUME WellFormed(d), AdminNext
    PROVE  Carried
<1>1. IsTable(d.admins, Row["admins"]) /\ "admins" \in TableNames BY DEF WellFormed, TableNames
<1>2. PICK u \in Usernames, h \in Hashes : SetPasswordHash(u, h) BY DEF AdminNext
<1>3. PICK i \in Ids(d.admins) :
          d' = [d EXCEPT !.admins = Put(@, i, [@.items[i] EXCEPT !.passwordHash = h])]
  BY <1>2 DEF SetPasswordHash, Matching, Commit
<1> DEFINE put == Put(d.admins, i, [d.admins.items[i] EXCEPT !.passwordHash = h])
<1>4. Grown(d.admins, put) BY <1>1, TablesGrow
<1>5. Ids(put) = Ids(d.admins) BY <1>1, <1>3 DEF IsTable, Put, Ids
<1>6. \A k \in TableNames : d'[k] = IF k = "admins" THEN put ELSE d[k]
  BY <1>1, <1>3 DEF WellFormed
<1>7. \A k \in TableNames : Grown(d[k], d[k]) BY TablesGrow DEF WellFormed
<1> QED BY <1>1, <1>4, <1>5, <1>6, <1>7 DEF Carried, Grows

\* No operation takes a counter back, reuses an id or touches who can log in.
LEMMA StoreCarries ==
    ASSUME WellFormed(d), StoreNext
    PROVE  Carried
  BY CatalogCarries, ContentCarries, CharacteristicsCarry, MediaCarries, AdminCarries
     DEF StoreNext

\* A login is added only where there is none.
LEMMA EnsureAdminCarries ==
    ASSUME NEW x, WellFormed(x), Ids(x.admins) = {} \/ OneAdmin(x), NEW u, NEW h
    PROVE  Grows(x, EnsureAdmin(x, u, h)) /\ OneAdmin(EnsureAdmin(x, u, h))
<1> DEFINE row == [username |-> u, passwordHash |-> h]
           y == EnsureAdmin(x, u, h)
<1>1. \A k \in TableNames : Grown(x[k], x[k]) BY TablesGrow DEF WellFormed
<1>2. CASE NeedsAdmin(x)
  <2>1. "admins" \in TableNames /\ IsTable(x.admins, Row["admins"])
    BY DEF WellFormed, TableNames
  <2>2. \A k \in TableNames : y[k] = IF k = "admins" THEN Insert(x.admins, row) ELSE x[k]
    BY <1>2, <2>1 DEF EnsureAdmin, WellFormed
  <2>3. Grown(x.admins, Insert(x.admins, row)) BY <2>1, TablesGrow
  <2>4. Ids(Insert(x.admins, row)) = {NextID(x.admins)}
    BY <1>2, <2>1 DEF NeedsAdmin, IsTable, Insert, Put, NextID, Ids
  <2>5. Grows(x, y) BY <1>1, <2>2, <2>3 DEF Grows
  <2>6. Ids(y.admins) = {NextID(x.admins)} BY <2>1, <2>2, <2>4
  <2> QED BY <2>5, <2>6 DEF OneAdmin
<1>3. CASE ~NeedsAdmin(x)
  <2>1. y = x BY <1>3 DEF EnsureAdmin
  <2> QED BY <1>1, <1>3, <2>1 DEF Grows, NeedsAdmin
<1> QED BY <1>2, <1>3

\* Later than later is later.
LEMMA GrowsOn ==
    ASSUME NEW x, NEW y, NEW z, WellFormed(x), WellFormed(y), WellFormed(z),
           Grows(x, y), Grows(y, z)
    PROVE  Grows(x, z)
<1> SUFFICES ASSUME NEW n \in TableNames PROVE Grown(x[n], z[n]) BY DEF Grows
<1>1. x[n].seq \in Nat /\ y[n].seq \in Nat /\ z[n].seq \in Nat /\ Ids(z[n]) \subseteq Nat
  BY DEF WellFormed, IsTable
<1>2. Grown(x[n], y[n]) /\ Grown(y[n], z[n]) BY DEF Grows
<1> QED BY <1>1, <1>2 DEF Grown

\* The inductive invariant.  Memory is not behind the file and the copies on
\* their way to it, unless a restore took it back; a save that is alone and
\* read the data since brings the file behind memory again; and no copy has
\* two logins.
Ordered == ~behind => Grows(disk, d) /\ \A x \in copies : Grows(x, d)

WritesOrdered ==
    \A s \in Savers : Writing(s) /\ s \notin stale /\ ~mixed => \A x \in copies : Grows(x, d)

CarryInv ==
    /\ LifeInv
    /\ Ordered
    /\ WritesOrdered
    /\ OneLoginEverywhere
    /\ Ids(disk.admins) = {} \/ OneAdmin(disk)

\* Any well-typed data come after the empty ones.
LEMMA EmptyFirst == ASSUME NEW x, WellFormed(x) PROVE Grows(EmptyData, x)
<1> SUFFICES ASSUME NEW n \in TableNames PROVE Grown(EmptyData[n], x[n]) BY DEF Grows
<1>1. EmptyData[n].seq = 0 BY DEF EmptyData, EmptyTable
<1>2. IsTable(x[n], Row[n]) BY DEF WellFormed
<1> QED BY <1>1, <1>2 DEF Grown, IsTable

\* Data come after themselves.
LEMMA GrowsSelf == ASSUME NEW x, WellFormed(x) PROVE Grows(x, x)
  BY TablesGrow DEF WellFormed, Grows

LEMMA NoLoginYet == Ids(EmptyData.admins) = {} /\ WellFormed(EmptyData)
<1>1. "admins" \in TableNames /\ WellFormed(EmptyData)
  BY EmptyConsistent DEF Consistent, TableNames
<1> QED BY <1>1, EmptyFacts DEF EmptyData

\* A step that leaves the data and their copies alone.
LEMMA CarryKept ==
    ASSUME CarryInv, LifeInv', UNCHANGED <<d, disk, dumps, copies, mixed, stale, behind>>,
           \A s \in Savers : Writing(s)' => Writing(s)
    PROVE  CarryInv'
  BY DEF CarryInv, Ordered, WritesOrdered, OneLoginEverywhere

\* The end of a save: what it may leave in the file comes before memory.
LEMMA CarryReturn ==
    ASSUME CarryInv, LifeInv', NEW s \in Savers, Rename(s) \/ Fail(s)
    PROVE  CarryInv'
<1> USE DEF LifeInv, AllCopiesConsistent, Consistent
<1>1. /\ Return(s) /\ UNCHANGED <<d, dumps>>
      /\ disk' \in {disk, EmptyData} \cup copies
  BY DEF Rename, Fail
<1>2. Writing(s) /\ save \in [Savers -> Steps] BY <1>1 DEF Return, CarryInv, SavesInv
<1>3. \A t \in Savers : Writing(t)' => Writing(t) /\ t # s
  BY <1>1, <1>2 DEF Return, Goto, Writing
<1>4. copies' \subseteq copies /\ stale' = stale \ {s} BY <1>1 DEF Return
<1>5. Grows(EmptyData, d) BY EmptyFirst DEF CarryInv
<1>6. Ids(disk'.admins) = {} \/ OneAdmin(disk')
  BY <1>1, NoLoginYet DEF CarryInv, OneLoginEverywhere
<1>7. OneLoginEverywhere' BY <1>1, <1>4 DEF CarryInv, OneLoginEverywhere
<1>8. Ordered'
  <2>1. CASE ~behind BY <1>1, <1>4, <1>5, <2>1 DEF CarryInv, Ordered
  <2>2. CASE behind /\ ~behind'
    <3>1. ~mixed /\ s \notin stale /\ disk' \in copies BY <2>2 DEF Rename, Fail
    <3>2. \A x \in copies : Grows(x, d) BY <1>2, <3>1 DEF CarryInv, WritesOrdered
    <3> QED BY <1>1, <1>4, <3>1, <3>2 DEF Ordered
  <2>3. CASE behind' BY <2>3 DEF Ordered
  <2> QED BY <2>1, <2>2, <2>3
<1>9. WritesOrdered'
  <2> SUFFICES ASSUME NEW t \in Savers, Writing(t)' PROVE mixed'
    BY DEF WritesOrdered
  <2>1. Writing(t) /\ t # s BY <1>3
  <2>2. mixed BY <1>2, <2>1 DEF CarryInv, SavesInv
  <2>3. mixed' = mixed BY <1>1, <2>1 DEF Return
  <2> QED BY <2>2, <2>3
<1> QED BY <1>6, <1>7, <1>8, <1>9 DEF CarryInv

\* A save reads the data in memory.
LEMMA CarryMarshal ==
    ASSUME CarryInv, LifeInv', NEW s \in Savers, Marshal(s)
    PROVE  CarryInv'
<1> USE DEF LifeInv, AllCopiesConsistent, Consistent
<1>1. UNCHANGED <<d, disk, dumps, behind>> /\ copies' = copies \cup {d} BY DEF Marshal
<1>2. Grows(d, d) BY GrowsSelf DEF CarryInv
<1>3. OneLoginEverywhere' BY <1>1 DEF CarryInv, OneLoginEverywhere
<1>4. Ordered' BY <1>1, <1>2 DEF CarryInv, Ordered
<1>5. ~mixed' => copies' = {d}
  <2> SUFFICES ASSUME ~mixed' PROVE copies = {} BY <1>1
  <2>1. \A t \in Savers : ~Writing(t) BY DEF Marshal
  <2> QED BY <2>1 DEF CarryInv, SavesInv
<1>6. WritesOrdered' BY <1>1, <1>2, <1>5 DEF WritesOrdered
<1> QED BY <1>1, <1>3, <1>4, <1>6 DEF CarryInv

\* Every step carries counters and logins on.
LEMMA CarryInvariant == Spec => []CarryInv
<1> USE DEF LifeInv, AllCopiesConsistent, Consistent
<1>1. ASSUME Init, LifeInv PROVE CarryInv
  <2>1. PICK u \in Usernames, h \in Hashes : d = EnsureAdmin(EmptyData, u, h)
    BY <1>1 DEF Init, StoreInit, Boot
  <2>2. Grows(EmptyData, d) /\ OneAdmin(d) BY <2>1, NoLoginYet, EnsureAdminCarries
  <2> QED BY <1>1, <2>2, NoLoginYet
          DEF Init, CarryInv, OneLoginEverywhere, Ordered, WritesOrdered
<1>2. ASSUME CarryInv, LifeInv', [Next]_lifeVars PROVE CarryInv'
  <2>1. /\ WellFormed(d) /\ WellFormed(disk) /\ WellFormed(d')
        /\ \A x \in copies : WellFormed(x)
        /\ save \in [Savers -> Steps]
    BY <1>2 DEF CarryInv, SavesInv
  <2>2. CASE Operation
    <3>1. Carried BY <2>1, <2>2, StoreCarries DEF Operation
    <3>2. \A x : WellFormed(x) /\ Grows(x, d) => Grows(x, d')
      BY <2>1, <3>1, GrowsOn DEF Carried
    <3>3. OneAdmin(d') BY <1>2, <3>1 DEF Carried, CarryInv, OneLoginEverywhere, OneAdmin
    <3>4. UNCHANGED <<disk, dumps, save, copies, mixed, stale, behind>>
      BY <2>2 DEF Operation, saving
    <3>5. Ordered' BY <1>2, <2>1, <3>2, <3>4 DEF CarryInv, Ordered
    <3>6. WritesOrdered' BY <1>2, <2>1, <3>2, <3>4 DEF CarryInv, WritesOrdered, Writing
    <3> QED BY <1>2, <3>3, <3>4, <3>5, <3>6 DEF CarryInv, OneLoginEverywhere
  <2>3. CASE Autosave
    <3>1. UNCHANGED <<d, disk, dumps, copies, mixed, stale, behind>> /\ Goto("loop", "marshal")
      BY <2>3 DEF Autosave, Begin
    <3>2. \A s \in Savers : Writing(s)' => Writing(s) BY <2>1, <3>1, LastingSavers DEF Goto, Writing
    <3> QED BY <1>2, <3>1, <3>2, CarryKept
  <2>4. ASSUME NEW s \in Lasting, FinalSave(s) PROVE CarryInv'
    <3>1. UNCHANGED <<d, disk, dumps, copies, mixed, stale, behind>> /\ Goto(s, "marshal")
      BY <2>4 DEF FinalSave, Begin
    <3>2. \A t \in Savers : Writing(t)' => Writing(t) BY <2>1, <3>1, LastingSavers DEF Goto, Writing
    <3> QED BY <1>2, <3>1, <3>2, CarryKept
  <2>5. CASE \E s \in Savers : Marshal(s) \/ Rename(s) \/ Fail(s)
    BY <1>2, <2>5, CarryMarshal, CarryReturn
  <2>6. CASE Snapshot
    <3>1. UNCHANGED <<d, disk, save, copies, mixed, stale, behind>> /\ dumps' = dumps \cup {d}
      BY <2>6 DEF Snapshot, saving
    <3> QED BY <1>2, <3>1 DEF CarryInv, Ordered, WritesOrdered, OneLoginEverywhere, Writing
  <2>7. ASSUME NEW r \in Restorers, NEW x \in dumps, RestoreSwap(r, x) PROVE CarryInv'
    <3>1. /\ d' = x /\ behind' = TRUE /\ stale' = {s \in Savers : Writing(s)}
          /\ UNCHANGED <<disk, dumps, copies, mixed>> /\ Goto(r, "mark") /\ r \in Savers
      BY <2>7 DEF RestoreSwap, Begin, Savers
    <3>2. OneAdmin(x) BY <1>2 DEF CarryInv, OneLoginEverywhere
    <3>3. \A s \in Savers : Writing(s)' => Writing(s) BY <2>1, <3>1 DEF Goto, Writing
    <3>4. WritesOrdered' BY <3>1, <3>3 DEF WritesOrdered
    <3> QED BY <1>2, <3>1, <3>2, <3>4 DEF CarryInv, Ordered, OneLoginEverywhere
  <2>8. ASSUME NEW r \in Restorers, RestoreMark(r) PROVE CarryInv'
    <3>1. UNCHANGED <<d, disk, dumps, copies, mixed, stale, behind>>
          /\ Goto(r, IF Persist THEN "marshal" ELSE "idle") /\ r \in Savers
      BY <2>8 DEF RestoreMark, Savers
    <3>2. \A t \in Savers : Writing(t)' => Writing(t) BY <2>1, <3>1 DEF Goto, Writing
    <3> QED BY <1>2, <3>1, <3>2, CarryKept
  <2>9. CASE Restart
    <3>1. (IF Persist THEN disk ELSE EmptyData) = disk BY <1>2 DEF CarryInv, SavesInv
    <3>2. PICK u \in Usernames, h \in Hashes : d' = EnsureAdmin(disk, u, h)
      BY <2>9, <3>1 DEF Restart, Boot
    <3>3. Grows(disk, d') /\ OneAdmin(d')
      BY <1>2, <2>1, <3>2, EnsureAdminCarries DEF CarryInv
    <3>4. disk' = disk /\ dumps' = dumps /\ copies' = {} BY <2>9 DEF Restart, NewProcess
    <3> QED BY <1>2, <3>3, <3>4
            DEF CarryInv, Ordered, WritesOrdered, OneLoginEverywhere
  <2>10. CASE UNCHANGED lifeVars
    BY <1>2, <2>10 DEF lifeVars, saving, CarryInv, Ordered, WritesOrdered, OneLoginEverywhere,
                       Writing
  <2> QED BY <1>2, <2>2, <2>3, <2>4, <2>5, <2>6, <2>7, <2>8, <2>9, <2>10 DEF Next
<1> QED BY <1>1, <1>2, LifeInvariant, PTL DEF Spec

\* However often the program restarts with another configured login, brings
\* back an old dump or fails to save, there is exactly one login (media.go:138).
THEOREM OneLogin == Spec => []OneLoginEverywhere
<1>1. CarryInv => OneLoginEverywhere BY DEF CarryInv
<1> QED BY <1>1, CarryInvariant, PTL

\* The rows in memory under ids the snapshot file has issued are rows of that
\* file: deletions free no id, through failed and overlapping saves, crashes and
\* restarts; after a restore from the first save on that is alone and read the
\* restored data (store_test.go:91-93, backup.go:29).
THEOREM IdsIssuedOnce == Spec => []NoIdReissued
<1>1. ASSUME CarryInv PROVE NoIdReissued
  <2> SUFFICES ASSUME ~behind, NEW n \in TableNames
               PROVE  /\ disk[n].seq <= d[n].seq
                      /\ \A i \in Ids(d[n]) : i <= disk[n].seq => i \in Ids(disk[n])
    BY DEF NoIdReissued
  <2>1. IsTable(d[n], Row[n]) /\ IsTable(disk[n], Row[n])
    BY <1>1 DEF CarryInv, LifeInv, AllCopiesConsistent, Consistent, WellFormed
  <2>2. Grown(disk[n], d[n]) BY <1>1 DEF CarryInv, Ordered, Grows
  <2> QED BY <2>1, <2>2 DEF Grown, IsTable
<1> QED BY <1>1, CarryInvariant, PTL

-----------------------------------------------------------------------------
(* The promise to the handlers of logins *)

\* Only a change of password touches the table of logins.
LEMMA LoginsKept ==
    ASSUME WellFormed(d), StoreNext
    PROVE  d'.admins = d.admins \/ AdminNext
<1>1. /\ DOMAIN d = TableNames /\ "admins" \in TableNames
      /\ "admins" \notin SluggedTables /\ EntryTables \subseteq SluggedTables
  BY DEF WellFormed, TableNames, SluggedTables, EntryTables
<1>2. CatalogNext => d'.admins = d.admins
  BY <1>1 DEF CatalogNext, CreateCategory, UpdateCategory, DeleteCategory,
              CreateSubcategory, UpdateSubcategory, DeleteSubcategory,
              CreateProduct, UpdateProduct, SetProductStatus, DeleteProduct, Commit
<1>3. ASSUME NEW n \in EntryTables, NEW slug, NEW status, NEW id, NEW entityType,
             \/ CreateEntry(n, slug, status) \/ UpdateEntry(n, id, slug, status)
             \/ SetEntryStatus(n, id, status) \/ DeleteEntry(n, entityType, id)
      PROVE  d'.admins = d.admins
  BY <1>1, <1>3 DEF CreateEntry, UpdateEntry, SetEntryStatus, DeleteEntry, Commit
<1>4. {"services", "objectTypes", "advantages"} \subseteq EntryTables BY DEF EntryTables
<1>5. ContentNext => d'.admins = d.admins
  BY <1>3, <1>4
  DEF ContentNext, CreateService, UpdateService, SetServiceStatus, DeleteService,
      CreateObjectType, UpdateObjectType, SetObjectTypeStatus, DeleteObjectType,
      CreateAdvantage, UpdateAdvantage, SetAdvantageStatus, DeleteAdvantage
<1>6. CharacteristicsNext => d'.admins = d.admins
  BY <1>1 DEF CharacteristicsNext, CreateCharacteristic, UpdateCharacteristic,
              DeleteCharacteristic, CreateCharacteristicValue, UpdateCharacteristicValue,
              DeleteCharacteristicValue, SetProductCharacteristic,
              DeleteProductCharacteristic, Commit
<1>7. MediaNext => d'.admins = d.admins
  BY <1>1 DEF MediaNext, AddMedia, DeleteMedia, SetMainMedia, Commit
<1> QED BY <1>2, <1>5, <1>6, <1>7 DEF StoreNext

\* The rows of logins.
LEMMA AdminRows ==
    ASSUME NEW x, WellFormed(x)
    PROVE  \A i \in Ids(x.admins) :
               x.admins.items[i] \in [username : Usernames, passwordHash : Hashes]
<1>1. IsTable(x.admins, Row["admins"]) BY DEF WellFormed, TableNames
<1>2. Row["admins"] = [username : Usernames, passwordHash : Hashes] BY DEF Row, StoredAdmin
<1> QED BY <1>1, <1>2 DEF IsTable

\* The login of data that have one.
LEMMA TheLogin ==
    ASSUME NEW x, WellFormed(x), OneAdmin(x)
    PROVE  /\ Account!Single(LoginsIn(x))
           /\ \A i \in Ids(x.admins) :
                  LoginsIn(x) = {[user |-> x.admins.items[i].username,
                                  hash |-> x.admins.items[i].passwordHash]}
<1>1. \A i \in Ids(x.admins) : x.admins.items[i] \in [username : Usernames, passwordHash : Hashes]
  BY AdminRows
<1>2. PICK i : Ids(x.admins) = {i} BY DEF OneAdmin
<1> DEFINE l == [user |-> x.admins.items[i].username, hash |-> x.admins.items[i].passwordHash]
<1>3. LoginsIn(x) = {l} BY <1>2 DEF LoginsIn
<1>4. l \in Account!Logins BY <1>1, <1>2 DEF Account!Logins
<1>5. Account!Single(LoginsIn(x)) BY <1>3, <1>4 DEF Account!Single
<1> QED BY <1>2, <1>3, <1>5

\* An operation keeps the login or changes its password.
LEMMA OperationAccount ==
    ASSUME CarryInv, CarryInv', Operation
    PROVE  Account!Next \/ UNCHANGED Account!vars
<1>1. /\ WellFormed(d) /\ OneAdmin(d) /\ WellFormed(d') /\ OneAdmin(d')
      /\ UNCHANGED <<disk, copies>>
  BY DEF CarryInv, LifeInv, AllCopiesConsistent, Consistent, OneLoginEverywhere, Operation, saving
<1>2. CASE d'.admins = d.admins BY <1>1, <1>2 DEF LoginsIn, Account!vars
<1>3. CASE AdminNext
  <2>1. PICK u \in Usernames, h \in Hashes : SetPasswordHash(u, h) BY <1>3 DEF AdminNext
  <2>2. PICK i \in Ids(d.admins) :
            d' = [d EXCEPT !.admins = Put(@, i, [@.items[i] EXCEPT !.passwordHash = h])]
    BY <2>1 DEF SetPasswordHash, Matching, Commit
  <2> DEFINE row == [d.admins.items[i] EXCEPT !.passwordHash = h]
  <2>3. d.admins.items[i] \in [username : Usernames, passwordHash : Hashes]
    BY <1>1, AdminRows
  <2>4. row.username = d.admins.items[i].username BY <2>3
  <2>5. IsTable(d.admins, Row["admins"]) /\ DOMAIN d = TableNames /\ "admins" \in TableNames
    BY <1>1 DEF WellFormed, TableNames
  <2> HIDE DEF row
  <2>6. d'.admins = Put(d.admins, i, row) BY <2>2, <2>5 DEF row
  <2>7. i \in Ids(d'.admins) /\ d'.admins.items[i] = row
    BY <2>5, <2>6 DEF IsTable, Put, Ids
  <2>8. Account!Single(LoginsIn(d'))
        /\ LoginsIn(d') = {[user |-> row.username, hash |-> row.passwordHash]}
    BY <1>1, <2>7, TheLogin
  <2>9. LoginsIn(d) = {[user |-> d.admins.items[i].username,
                        hash |-> d.admins.items[i].passwordHash]}
    BY <1>1, TheLogin
  <2>10. Account!ChangePassword BY <1>1, <2>4, <2>8, <2>9 DEF Account!ChangePassword
  <2> QED BY <2>10 DEF Account!Next
<1> QED BY <1>1, <1>2, <1>3, LoginsKept DEF Operation

\* A start takes the saved login if there is one.
LEMMA RestartAccount ==
    ASSUME CarryInv, CarryInv', Restart
    PROVE  Account!Next \/ UNCHANGED Account!vars
<1>1. /\ WellFormed(disk) /\ WellFormed(d') /\ OneAdmin(d') /\ UNCHANGED disk
      /\ (IF Persist THEN disk ELSE EmptyData) = disk
  BY DEF CarryInv, LifeInv, SavesInv, AllCopiesConsistent, Consistent, OneLoginEverywhere, Restart
<1>2. Account!Single(LoginsIn(d')) BY <1>1, TheLogin
<1>3. {LoginsIn(x) : x \in copies'} = {} BY DEF Restart, NewProcess
<1>4. CASE NeedsAdmin(disk)
  <2>1. LoginsIn(disk) = {} BY <1>4 DEF NeedsAdmin, LoginsIn
  <2> QED BY <1>1, <1>2, <1>3, <2>1 DEF Account!Restart, Account!Next
<1>5. CASE ~NeedsAdmin(disk)
  <2>1. d' = disk BY <1>1, <1>5 DEF Restart, Boot, EnsureAdmin
  <2>2. LoginsIn(disk) # {} BY <1>5 DEF NeedsAdmin, LoginsIn
  <2> QED BY <1>1, <1>3, <2>1, <2>2 DEF Account!Restart, Account!Next
<1> QED BY <1>4, <1>5

\* The end of a save: the file has a login some save had read, or none, or the
\* one it had.
LEMMA ReturnAccount ==
    ASSUME CarryInv, NEW s \in Savers, Rename(s) \/ Fail(s)
    PROVE  Account!Next \/ UNCHANGED Account!vars
<1> DEFINE heldBy(S) == {LoginsIn(x) : x \in S}
<1>1. /\ d' = d /\ (copies' = copies \/ copies' = {})
      /\ disk' \in {disk} \cup copies \cup (IF mixed THEN {EmptyData} ELSE {})
  BY DEF Rename, Fail, Return
<1>2. LoginsIn(EmptyData) = {} BY NoLoginYet DEF LoginsIn
<1>3. heldBy(copies') \in {heldBy(copies), {}} BY <1>1
<1>4. CASE disk' = disk
  <2>1. CASE copies' = copies BY <1>1, <1>4, <2>1 DEF Account!vars
  <2>2. CASE copies' = {} BY <1>1, <1>4, <2>2 DEF Account!Drop, Account!Next
  <2> QED BY <1>1, <2>1, <2>2
<1>5. CASE disk' \in copies \cup (IF mixed THEN {EmptyData} ELSE {})
  <2>1. LoginsIn(disk') \in heldBy(copies) \cup (IF mixed THEN {{}} ELSE {})
    BY <1>2, <1>5
  <2> QED BY <1>1, <1>3, <2>1 DEF Account!Write, Account!Next
<1> QED BY <1>1, <1>4, <1>5

\* Whatever else the program does with its data, to the handlers of logins it is
\* module Login: one login, renamed by a restore alone, and never by the
\* configuration once it was saved; and the file may be behind, by failed saves
\* and by copies from before a restore (media.go:138-190, backup.go:19, main.go:52).
THEOREM LoginImplemented == Spec => ImplementsLogin
<1>1. ASSUME Init, CarryInv PROVE Account!Init
  <2>1. WellFormed(d) /\ OneAdmin(d)
    BY <1>1 DEF CarryInv, LifeInv, AllCopiesConsistent, Consistent, OneLoginEverywhere
  <2>2. Ids(disk.admins) = {} BY <1>1, NoLoginYet DEF Init
  <2> QED BY <1>1, <2>1, <2>2, TheLogin DEF Init, Account!Init, LoginsIn
<1>2. ASSUME CarryInv, CarryInv', [Next]_lifeVars
      PROVE  [Account!Next]_(Account!vars)
  <2>1. WellFormed(d') /\ OneAdmin(d')
    BY <1>2 DEF CarryInv, LifeInv, AllCopiesConsistent, Consistent, OneLoginEverywhere
  <2>2. UNCHANGED <<d, disk, copies>> => UNCHANGED Account!vars BY DEF Account!vars
  <2>3. CASE Operation BY <1>2, <2>3, OperationAccount
  <2>4. CASE Autosave \/ \E s \in Lasting : FinalSave(s)
    BY <2>2, <2>4 DEF Autosave, FinalSave
  <2>5. ASSUME NEW s \in Savers, Marshal(s) PROVE Account!Take
    <3>1. {LoginsIn(x) : x \in copies \cup {d}} = {LoginsIn(x) : x \in copies} \cup {LoginsIn(d)}
      OBVIOUS
    <3> QED BY <2>5, <3>1 DEF Marshal, Account!Take
  <2>6. CASE \E s \in Savers : Rename(s) \/ Fail(s) BY <1>2, <2>6, ReturnAccount
  <2>7. CASE Snapshot BY <2>2, <2>7 DEF Snapshot, saving
  <2>8. ASSUME NEW r \in Restorers, NEW x \in dumps, RestoreSwap(r, x) PROVE Account!Restore
    <3>1. Account!Single(LoginsIn(d')) BY <2>1, TheLogin
    <3> QED BY <2>8, <3>1 DEF RestoreSwap, Account!Restore
  <2>9. CASE \E r \in Restorers : RestoreMark(r) BY <2>2, <2>9 DEF RestoreMark
  <2>10. CASE Restart BY <1>2, <2>10, RestartAccount
  <2>11. CASE UNCHANGED lifeVars BY <2>2, <2>11 DEF lifeVars, saving
  <2> QED
    BY <1>2, <2>3, <2>4, <2>5, <2>6, <2>7, <2>8, <2>9, <2>10, <2>11
    DEF Next, Account!Next
<1> QED BY <1>1, <1>2, CarryInvariant, PTL DEF Spec, ImplementsLogin, Account!Spec

=============================================================================
