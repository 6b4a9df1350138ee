------------------------- MODULE PersistenceProofs -------------------------
(***************************************************************************)
(* The snapshot is whole until two saves overlap, for any number of        *)
(* restore requests, versions, blocks and failing calls.  The invariant    *)
(* says why: a saver that runs alone owns the temporary file, which holds  *)
(* exactly the blocks it has written.                                      *)
(***************************************************************************)
EXTENDS Persistence, SequenceTheorems, TLAPS

\* What the steps of Save take for granted, alone or not: it writes a version,
\* through a descriptor of a file that exists.
Descriptors ==
    /\ \A p \in Savers : fd[p] \in DOMAIN file \cup {"gone"}
    /\ \A p \in Savers : pc[p] \in {"open", "write", "rename"} => raw[p] \in Versions

TypeInv == PersistTypeOK /\ Descriptors

\* At most one Save is in progress.
Alone == \A p, q \in Savers : pc[p] \in Saving /\ pc[q] \in Saving => p = q

\* The temporary file holds what p has written so far.
OwnsTmp(p) ==
    /\ pc[p] = "write" => /\ fd[p] = "tmp"
                          /\ "tmp" \in DOMAIN file
                          /\ off[p] < Size[raw[p]]
                          /\ file["tmp"] = [k \in 1..off[p] |-> raw[p]]
    /\ pc[p] = "rename" => "tmp" \in DOMAIN file /\ file["tmp"] = Whole(raw[p])

PathWhole == "path" \in DOMAIN file => \E v \in Versions : file["path"] = Whole(v)

LoneInv == ~overlapped => Alone /\ PathWhole /\ \A p \in Savers : OwnsTmp(p)

Inv == TypeInv /\ LoneInv

-----------------------------------------------------------------------------
(* Files *)

\* A block written into a file gives a file.
LEMMA WriteAtFacts ==
    ASSUME NEW S, NEW f \in Seq(S), NEW k \in Nat \ {0}, NEW v \in S, Hole \in S
    PROVE  WriteAt(f, k, v) \in Seq(S)
<1> DEFINE n == IF k > Len(f) THEN k ELSE Len(f)
<1>1. n \in Nat /\ DOMAIN f = 1..Len(f) /\ Len(f) \in Nat
  OBVIOUS
<1>2. \A j \in 1..Len(f) : f[j] \in S
  OBVIOUS
<1>3. WriteAt(f, k, v) =
        [j \in 1..n |-> IF j = k THEN v ELSE IF j \in DOMAIN f THEN f[j] ELSE Hole]
  BY DEF WriteAt
<1>4. WriteAt(f, k, v) \in [1..n -> S]
  BY <1>1, <1>2, <1>3
<1> QED BY <1>1, <1>4, SeqDef

\* The next block of v makes the prefix of its snapshot longer by one.
LEMMA WriteAtEnd ==
    ASSUME NEW v, NEW n \in Nat
    PROVE  WriteAt([j \in 1..n |-> v], n + 1, v) = [j \in 1..n + 1 |-> v]
<1> DEFINE f == [j \in 1..n |-> v]
<1>1. Len(f) = n /\ DOMAIN f = 1..n
  OBVIOUS
<1>2. \A j \in 1..n : f[j] = v
  OBVIOUS
<1> HIDE DEF f
<1>3. WriteAt(f, n + 1, v) = [j \in 1..n + 1 |-> v]
  BY <1>1, <1>2 DEF WriteAt
<1> QED BY <1>3 DEF f

-----------------------------------------------------------------------------
(* One lemma per action *)

\* Marshal looks at the memory and at no file.
LEMMA MarshalStep ==
    ASSUME Inv, NEW p \in Savers, Marshal(p)
    PROVE  Inv'
<1> USE DEF Inv, TypeInv
<1>1. pc[p] = "marshal" /\ pc' = [pc EXCEPT ![p] = "open"] /\ raw' = [raw EXCEPT ![p] = mem]
  BY DEF Marshal, At
<1>2. TypeInv'
  BY <1>1 DEF Marshal, PersistTypeOK, Descriptors, history, Saving
<1>3. LoneInv'
  BY <1>1 DEF Marshal, PersistTypeOK, LoneInv, Alone, PathWhole, OwnsTmp, history, Saving
<1> QED BY <1>2, <1>3

\* Open empties the temporary file or creates it.
LEMMA OpenStep ==
    ASSUME Inv, NEW p \in Savers, Open(p)
    PROVE  Inv'
<1> USE DEF Inv, TypeInv
<1>1. /\ pc[p] = "open" /\ pc' = [pc EXCEPT ![p] = "write"]
      /\ fd' = [fd EXCEPT ![p] = "tmp"]
      /\ off' = [off EXCEPT ![p] = 0]
      /\ raw' = raw
      /\ DOMAIN file' = DOMAIN file \cup {"tmp"}
      /\ file'["tmp"] = << >>
      /\ \A n \in DOMAIN file \ {"tmp"} : file'[n] = file[n]
  BY DEF Open, At
<1>2. << >> \in Seq({Hole} \cup Versions)
  BY EmptySeq
<1>3. TypeInv'
  BY <1>1, <1>2 DEF Open, PersistTypeOK, Descriptors, history, Saving
<1>4. ASSUME ~overlapped PROVE Alone' /\ PathWhole' /\ \A q \in Savers : OwnsTmp(q)'
  <2>1. Alone' BY <1>1, <1>4 DEF PersistTypeOK, LoneInv, Alone, Saving
  <2>2. PathWhole' BY <1>1, <1>4 DEF LoneInv, PathWhole
  <2>3. OwnsTmp(p)'
    <3>1. raw[p] \in Versions /\ Size[raw[p]] \in Nat \ {0}
      BY <1>1, PersistenceAssumption DEF Descriptors
    <3>2. << >> = [k \in 1..0 |-> raw[p]] OBVIOUS
    <3> QED BY <1>1, <3>1, <3>2 DEF PersistTypeOK, OwnsTmp
  <2>4. \A q \in Savers \ {p} : pc'[q] \notin Saving
    BY <1>1, <2>1 DEF PersistTypeOK, Alone, Saving
  <2>5. \A q \in Savers \ {p} : OwnsTmp(q)' BY <2>4 DEF OwnsTmp, Saving
  <2> QED BY <2>1, <2>2, <2>3, <2>5
<1>5. LoneInv' BY <1>4 DEF LoneInv, Open, history
<1> QED BY <1>3, <1>5

\* Write adds a block to the file behind the descriptor.
LEMMA WriteStep ==
    ASSUME Inv, NEW p \in Savers, Write(p)
    PROVE  Inv'
<1> USE DEF Inv, TypeInv
<1> DEFINE S == {Hole} \cup Versions
           k == off[p] + 1
           done == k = Size[raw[p]]
<1>1. /\ pc[p] = "write" /\ pc' = [pc EXCEPT ![p] = IF done THEN "rename" ELSE "write"]
      /\ off' = [off EXCEPT ![p] = k]
      /\ raw' = raw /\ fd' = fd /\ overlapped' = overlapped
      /\ mem' = mem /\ dirty' = dirty /\ final' = final /\ phase' = phase
      /\ failures' = failures
      /\ file' = IF fd[p] = "gone" THEN file
                 ELSE [file EXCEPT ![fd[p]] = WriteAt(@, k, raw[p])]
  BY DEF Write, At, PersistTypeOK, history
<1>2. /\ raw[p] \in Versions
      /\ k \in Nat \ {0}
      /\ fd[p] \in DOMAIN file \cup {"gone"}
      /\ DOMAIN file' = DOMAIN file
  BY <1>1 DEF PersistTypeOK, Descriptors
<1>3. \A n \in DOMAIN file : file[n] \in Seq(S) BY DEF PersistTypeOK
<1>4. \A n \in DOMAIN file : file'[n] \in Seq(S)
  <2>1. CASE fd[p] = "gone" BY <1>1, <1>3, <2>1
  <2>2. CASE fd[p] # "gone"
    <3>1. WriteAt(file[fd[p]], k, raw[p]) \in Seq(S)
      BY <1>2, <1>3, <2>2, WriteAtFacts
    <3> QED BY <1>1, <1>2, <1>3, <2>2, <3>1
  <2> QED BY <2>1, <2>2
<1>5. TypeInv'
  BY <1>1, <1>2, <1>4 DEF PersistTypeOK, Descriptors, Saving
<1>6. ASSUME ~overlapped PROVE Alone' /\ PathWhole' /\ \A q \in Savers : OwnsTmp(q)'
  <2>1. Alone' BY <1>1, <1>6 DEF PersistTypeOK, LoneInv, Alone, Saving
  <2>2. /\ fd[p] = "tmp"
        /\ "tmp" \in DOMAIN file
        /\ off[p] < Size[raw[p]]
        /\ file["tmp"] = [j \in 1..off[p] |-> raw[p]]
    BY <1>1, <1>6 DEF LoneInv, OwnsTmp
  <2>3. PathWhole' BY <1>1, <1>2, <1>6, <2>2 DEF LoneInv, PathWhole
  <2>4. file'["tmp"] = [j \in 1..k |-> raw[p]]
    <3>1. file'["tmp"] = WriteAt(file["tmp"], k, raw[p]) BY <1>1, <2>2
    <3>2. off[p] \in Nat BY DEF PersistTypeOK
    <3> QED BY <2>2, <3>1, <3>2, WriteAtEnd
  <2>5. OwnsTmp(p)'
    <3>1. Size[raw[p]] \in Nat \ {0} BY <1>2, PersistenceAssumption
    <3>2. CASE done
      BY <1>1, <1>2, <2>2, <2>4, <3>2 DEF OwnsTmp, PersistTypeOK, Whole
    <3>3. CASE ~done
      BY <1>1, <1>2, <2>2, <2>4, <3>1, <3>3 DEF OwnsTmp, PersistTypeOK
    <3> QED BY <3>2, <3>3
  <2>6. \A q \in Savers \ {p} : pc'[q] \notin Saving
    BY <1>1, <2>1 DEF PersistTypeOK, Alone, Saving
  <2>7. \A q \in Savers \ {p} : OwnsTmp(q)' BY <2>6 DEF OwnsTmp, Saving
  <2> QED BY <2>1, <2>3, <2>5, <2>7
<1>7. LoneInv' BY <1>1, <1>6 DEF LoneInv
<1> QED BY <1>5, <1>7

\* A saver that has returned is nowhere in Save.
LEMMA ReturnFacts ==
    ASSUME PersistTypeOK, NEW p \in Savers, Return(p)
    PROVE  /\ pc' \in [Savers -> Saving \cup {"off", "idle", "mark"}]
           /\ pc'[p] \in {"off", "idle"}
           /\ \A q \in Savers \ {p} : pc'[q] = pc[q]
           /\ phase' \in Phases
  BY DEF Return, PersistTypeOK, Phases

\* Rename puts the temporary file in the place of the snapshot.
LEMMA RenameStep ==
    ASSUME Inv, NEW p \in Savers, Rename(p)
    PROVE  Inv'
<1> USE DEF Inv, TypeInv
<1>1. /\ pc[p] = "rename" /\ Return(p)
      /\ raw' = raw /\ off' = off /\ overlapped' = overlapped
      /\ mem' = mem /\ dirty' = dirty /\ final' = final /\ failures' = failures
  BY DEF Rename, At, history
<1>2. /\ pc' \in [Savers -> Saving \cup {"off", "idle", "mark"}]
      /\ pc'[p] \in {"off", "idle"}
      /\ \A q \in Savers \ {p} : pc'[q] = pc[q]
      /\ phase' \in Phases
  BY <1>1, ReturnFacts
<1>3. CASE "tmp" \in DOMAIN file
  <2>1. /\ file' = [n \in {"path"} |-> file["tmp"]]
        /\ fd' = [q \in Savers |-> IF fd[q] = "tmp" THEN "path" ELSE "gone"]
    BY <1>3 DEF Rename
  <2>2. TypeInv'
    BY <1>1, <1>2, <1>3, <2>1 DEF PersistTypeOK, Descriptors
  <2>3. ASSUME ~overlapped PROVE Alone' /\ PathWhole' /\ \A q \in Savers : OwnsTmp(q)'
    <3>1. \A q \in Savers : pc'[q] \notin Saving
      BY <1>1, <1>2, <2>3 DEF LoneInv, Alone, Saving
    <3>2. file["tmp"] = Whole(raw[p]) /\ raw[p] \in Versions
      BY <1>1, <2>3 DEF LoneInv, OwnsTmp, Descriptors
    <3>3. PathWhole' BY <2>1, <3>2 DEF PathWhole
    <3> QED BY <3>1, <3>3 DEF Alone, OwnsTmp, Saving
  <2> QED BY <1>1, <2>2, <2>3 DEF LoneInv
<1>4. CASE "tmp" \notin DOMAIN file
  <2>1. file' = file /\ fd' = fd BY <1>4 DEF Rename
  <2>2. TypeInv'
    BY <1>1, <1>2, <2>1 DEF PersistTypeOK, Descriptors
  <2>3. overlapped BY <1>1, <1>4 DEF LoneInv, OwnsTmp
  <2> QED BY <1>1, <2>2, <2>3 DEF LoneInv
<1> QED BY <1>3, <1>4

\* A Save that fails leaves the snapshot as it is.
LEMMA FailStep ==
    ASSUME Inv, NEW p \in Savers, Fail(p)
    PROVE  Inv'
<1> USE DEF Inv, TypeInv
<1>1. /\ Return(p)
      /\ raw' = raw /\ off' = off /\ overlapped' = overlapped /\ fd' = fd /\ file' = file
      /\ mem' = mem /\ dirty' = dirty /\ final' = final
      /\ failures' = failures + 1 /\ failures < MaxFailures
  BY DEF Fail
<1>2. /\ pc' \in [Savers -> Saving \cup {"off", "idle", "mark"}]
      /\ pc'[p] \in {"off", "idle"}
      /\ \A q \in Savers \ {p} : pc'[q] = pc[q]
      /\ phase' \in Phases
  BY <1>1, ReturnFacts
<1>3. failures' \in 0..MaxFailures
  BY <1>1, PersistenceAssumption DEF PersistTypeOK
<1>4. TypeInv'
  BY <1>1, <1>2, <1>3 DEF PersistTypeOK, Descriptors
<1>5. LoneInv'
  BY <1>1, <1>2 DEF LoneInv, Alone, PathWhole, OwnsTmp, Saving
<1> QED BY <1>4, <1>5

\* Whoever enters Save while another is in it ends the promise.
LEMMA BeginSaveFacts ==
    ASSUME Inv, NEW p \in Savers, pc[p] \notin Saving, BeginSave(p),
           raw' = raw, fd' = fd, off' = off, file' = file
    PROVE  /\ pc' \in [Savers -> Saving \cup {"off", "idle", "mark"}]
           /\ Descriptors'
           /\ LoneInv'
           /\ overlapped' \in BOOLEAN
<1> USE DEF Inv, TypeInv
<1>1. /\ pc' = [pc EXCEPT ![p] = "marshal"]
      /\ overlapped' = (overlapped \/ \E q \in Savers \ {p} : pc[q] \in Saving)
  BY DEF BeginSave
<1>2. pc' \in [Savers -> Saving \cup {"off", "idle", "mark"}]
  BY <1>1 DEF PersistTypeOK, Saving
<1>3. Descriptors'
  BY <1>1 DEF PersistTypeOK, Descriptors
<1>4. ASSUME ~overlapped'
      PROVE  Alone' /\ PathWhole' /\ \A q \in Savers : OwnsTmp(q)'
  <2>1. ~overlapped /\ \A q \in Savers \ {p} : pc[q] \notin Saving BY <1>1, <1>4
  <2>2. Alone' BY <1>1, <2>1 DEF Alone, PersistTypeOK
  <2>3. PathWhole' BY <2>1 DEF LoneInv, PathWhole
  <2>4. \A q \in Savers : OwnsTmp(q)' BY <1>1, <2>1 DEF OwnsTmp, PersistTypeOK, Saving
  <2> QED BY <2>2, <2>3, <2>4
<1>5. LoneInv' BY <1>4 DEF LoneInv
<1>6. overlapped' \in BOOLEAN BY <1>1 DEF PersistTypeOK
<1> QED BY <1>2, <1>3, <1>5, <1>6

\* The steps that enter Save: a tick, the last save of the loop, the one of
\* main, and Restore after its mark.
LEMMA EnterStep ==
    ASSUME Inv, Tick \/ LastSave \/ MainSave \/ \E r \in Restorers : RestoreMark(r)
    PROVE  Inv'
<1> USE DEF Inv, TypeInv
<1>1. PICK p \in Savers :
        /\ pc[p] \notin Saving
        /\ BeginSave(p)
        /\ UNCHANGED <<raw, fd, off, file, mem, phase, failures>>
        /\ dirty' \in BOOLEAN /\ final' \in BOOLEAN
  <2>1. CASE Tick BY <2>1 DEF Tick, At, Savers, Saving, PersistTypeOK
  <2>2. CASE LastSave BY <2>2 DEF LastSave, At, Savers, Saving, PersistTypeOK
  <2>3. CASE MainSave BY <2>3 DEF MainSave, Savers, Saving, PersistTypeOK
  <2>4. CASE \E r \in Restorers : RestoreMark(r)
    BY <2>4 DEF RestoreMark, At, Savers, Saving, PersistTypeOK
  <2> QED BY <2>1, <2>2, <2>3, <2>4
<1>2. /\ pc' \in [Savers -> Saving \cup {"off", "idle", "mark"}]
      /\ Descriptors'
      /\ LoneInv'
      /\ overlapped' \in BOOLEAN
  BY <1>1, BeginSaveFacts
<1>3. PersistTypeOK' BY <1>1, <1>2 DEF PersistTypeOK
<1> QED BY <1>2, <1>3

\* The data change, and no file does.
LEMMA ChangeStep ==
    ASSUME Inv, Change
    PROVE  Inv'
<1>1. mem' \in Versions
  BY PersistenceAssumption DEF Inv, TypeInv, PersistTypeOK, Change, Versions
<1> QED BY <1>1 DEF Inv, TypeInv, PersistTypeOK, Descriptors, LoneInv, Alone, PathWhole,
               OwnsTmp, Change, save, history

\* Restore is not in Save yet when it replaces the data.
LEMMA RestoreSwapStep ==
    ASSUME Inv, NEW r \in Restorers, RestoreSwap(r)
    PROVE  Inv'
<1> USE DEF Inv, TypeInv
<1>1. r \in Savers /\ pc[r] = "idle" /\ pc' = [pc EXCEPT ![r] = "mark"]
  BY DEF RestoreSwap, At, Savers
<1>2. mem' \in Versions
  BY PersistenceAssumption DEF PersistTypeOK, RestoreSwap, Versions
<1>3. TypeInv'
  BY <1>1, <1>2 DEF RestoreSwap, PersistTypeOK, Descriptors, history
<1>4. LoneInv'
  BY <1>1 DEF RestoreSwap, PersistTypeOK, LoneInv, Alone, PathWhole, OwnsTmp, history, Saving
<1> QED BY <1>3, <1>4

\* The steps of main, the signal and a crash touch neither files nor savers.
LEMMA PhaseStep ==
    ASSUME Inv, Signal \/ Drained \/ TimesOut \/ Crash \/ RestartRefused
    PROVE  Inv'
<1>1. phase' \in Phases BY DEF Signal, Drained, TimesOut, Crash, RestartRefused, Phases
<1>2. UNCHANGED <<mem, dirty, file, save, final, history>>
  BY DEF Signal, Drained, TimesOut, Crash, RestartRefused
<1> QED BY <1>1, <1>2 DEF Inv, TypeInv, PersistTypeOK, Descriptors, LoneInv, Alone,
               PathWhole, OwnsTmp, save, history

\* A new process has no saver in Save, and finds the files as they are.
LEMMA RestartStep ==
    ASSUME Inv, Restart
    PROVE  Inv'
<1> USE DEF Inv, TypeInv
<1>1. /\ mem' \in Versions /\ dirty' \in BOOLEAN
      /\ file' = file /\ failures' = failures /\ overlapped' = overlapped
      /\ Started
  BY PersistenceAssumption DEF Restart, Loaded, Versions, history
<1>2. \A p \in Savers : pc'[p] \in {"off", "idle"} /\ fd'[p] = "gone"
  BY <1>1 DEF Started
<1>3. TypeInv'
  BY <1>1, <1>2 DEF Started, PersistTypeOK, Descriptors, Phases
<1>4. LoneInv'
  BY <1>1, <1>2 DEF LoneInv, Alone, PathWhole, OwnsTmp, Saving
<1> QED BY <1>3, <1>4

-----------------------------------------------------------------------------
(* The theorems *)

\* The invariant holds from an empty directory on.
THEOREM PersistInvariant == Spec => []Inv
<1>1. ASSUME Init PROVE Inv
  <2>1. 1 \in Versions BY PersistenceAssumption DEF Versions
  <2>2. /\ DOMAIN file = {}
        /\ pc \in [Savers -> {"off", "idle"}]
        /\ raw \in [Savers -> {0}] /\ off \in [Savers -> {0}] /\ fd \in [Savers -> {"gone"}]
    BY <1>1 DEF Init
  <2>3. mem \in Versions /\ dirty \in BOOLEAN /\ final \in BOOLEAN /\ phase \in Phases
    BY <1>1, <2>1 DEF Init, Phases
  <2>4. failures \in 0..MaxFailures /\ overlapped \in BOOLEAN
    <3>1. failures = 0 /\ overlapped = FALSE BY <1>1 DEF Init
    <3>2. 0 \in 0..MaxFailures BY PersistenceAssumption
    <3> QED BY <3>1, <3>2
  <2>5. pc \in [Savers -> Saving \cup {"off", "idle", "mark"}]
    BY <2>2
  <2>6. /\ raw \in [Savers -> {0} \cup Versions] /\ off \in [Savers -> Nat]
        /\ fd \in [Savers -> {"tmp", "path", "gone"}]
    BY <2>2
  <2>7. PersistTypeOK BY <2>2, <2>3, <2>4, <2>5, <2>6 DEF PersistTypeOK
  <2>8. Descriptors BY <2>2 DEF Descriptors
  <2>9. LoneInv
    BY <1>1 DEF Init, LoneInv, Alone, PathWhole, OwnsTmp, Saving
  <2> QED BY <2>7, <2>8, <2>9 DEF Inv, TypeInv
<1>2. ASSUME Inv, [Next]_vars PROVE Inv'
  <2>1. CASE \E p \in Savers : SaveStep(p)
    BY <1>2, <2>1, MarshalStep, OpenStep, WriteStep, RenameStep DEF SaveStep
  <2>2. CASE \E p \in Savers : Fail(p) BY <1>2, <2>2, FailStep
  <2>3. CASE Change BY <1>2, <2>3, ChangeStep
  <2>4. CASE \E r \in Restorers : RestoreSwap(r) BY <1>2, <2>4, RestoreSwapStep
  <2>5. CASE Tick \/ LastSave \/ MainSave \/ \E r \in Restorers : RestoreMark(r)
    BY <1>2, <2>5, EnterStep
  <2>6. CASE Signal \/ Drained \/ TimesOut \/ Crash \/ RestartRefused
    BY <1>2, <2>6, PhaseStep
  <2>7. CASE Restart BY <1>2, <2>7, RestartStep
  <2>8. CASE UNCHANGED vars
    BY <1>2, <2>8 DEF vars, save, history, Inv, TypeInv, PersistTypeOK, Descriptors,
           LoneInv, Alone, PathWhole, OwnsTmp
  <2> QED BY <1>2, <2>1, <2>2, <2>3, <2>4, <2>5, <2>6, <2>7, <2>8 DEF Next
<1> QED BY <1>1, <1>2, PTL DEF Spec

\* Files are sequences of blocks and descriptors point at files, whatever
\* savers overlap (store.go:225-229).
THEOREM PersistTypes == Spec => []PersistTypeOK
<1>1. Inv => PersistTypeOK BY DEF Inv, TypeInv
<1> QED BY <1>1, PersistInvariant, PTL

\* What the comment of Save promises (store.go:210), as long as no two Saves
\* run at once: whole snapshots through any crash or failure.
THEOREM SnapshotsWhole == Spec => []WholeUnlessOverlap
<1>1. Inv => WholeUnlessOverlap BY DEF Inv, LoneInv, PathWhole, WholeUnlessOverlap
<1> QED BY <1>1, PersistInvariant, PTL

-----------------------------------------------------------------------------
(* Where overlaps come from *)

\* main saves only after the requests are done or given up.
MainLast == pc["main"] \in Saving => phase \notin {"serving", "draining"}

LEMMA MainLastStep ==
    ASSUME Inv, MainLast, [Next]_vars
    PROVE  MainLast'
<1>0. pc \in [Savers -> Saving \cup {"off", "idle", "mark"}] /\ "main" \in Savers
  BY DEF Inv, TypeInv, PersistTypeOK, Savers
<1>1. "main" \notin Restorers BY PersistenceAssumption
<1>2. ASSUME NEW p \in Savers, SaveStep(p) \/ Fail(p) PROVE MainLast'
  <2>1. CASE p = "main"
    <3>1. phase \notin {"serving", "draining"} /\ pc["main"] \in Saving
      BY <1>2, <2>1 DEF MainLast, SaveStep, Marshal, Open, Write, Rename, Fail, At, Saving
    <3>2. phase' \in {phase, "exited", "down"}
      BY <1>2, <2>1 DEF SaveStep, Marshal, Open, Write, Rename, Fail, Return
    <3> QED BY <3>1, <3>2 DEF MainLast
  <2>2. CASE p # "main"
    <3>1. phase' = phase /\ pc'["main"] = pc["main"]
      BY <1>0, <1>2, <2>2 DEF SaveStep, Marshal, Open, Write, Rename, Fail, Return
    <3> QED BY <3>1 DEF MainLast
  <2> QED BY <2>1, <2>2
<1>3. ASSUME NEW r \in Restorers, RestoreSwap(r) \/ RestoreMark(r) PROVE MainLast'
  <2>1. phase' = phase /\ pc'["main"] = pc["main"]
    BY <1>0, <1>1, <1>3 DEF RestoreSwap, RestoreMark, BeginSave
  <2> QED BY <2>1 DEF MainLast
<1>4. CASE Tick \/ LastSave
  <2>1. phase' = phase /\ pc'["main"] = pc["main"] BY <1>0, <1>4 DEF Tick, LastSave, BeginSave
  <2> QED BY <2>1 DEF MainLast
<1>5. CASE MainSave BY <1>5 DEF MainSave, MainLast
<1>6. CASE Signal \/ Drained \/ TimesOut \/ Crash \/ RestartRefused
  <2>1. /\ pc' = pc /\ phase' # "serving"
        /\ phase' = "draining" => phase = "serving"
    BY <1>6 DEF Signal, Drained, TimesOut, Crash, RestartRefused, save
  <2> QED BY <2>1 DEF MainLast
<1>7. CASE Restart
  <2>1. pc'["main"] = "off" BY <1>0, <1>7 DEF Restart, Started
  <2> QED BY <2>1 DEF MainLast, Saving
<1>8. CASE Change \/ UNCHANGED vars BY <1>8 DEF Change, vars, save, MainLast
<1> QED BY <1>2, <1>3, <1>4, <1>5, <1>6, <1>7, <1>8 DEF Next

LEMMA MainLastInvariant == Spec => []MainLast
<1>1. Init => MainLast BY DEF Init, MainLast, Savers, Saving
<1> QED BY <1>1, MainLastStep, PersistInvariant, PTL DEF Spec

\* A step that lets two Saves overlap.
LEMMA OverlapStep ==
    ASSUME Inv, MainLast, [Next]_vars, ~overlapped, overlapped'
    PROVE  \/ \E r \in Restorers : pc'[r] \in Saving
           \/ phase \in {"drained", "timedout"}
<1>0. pc \in [Savers -> Saving \cup {"off", "idle", "mark"}]
  BY DEF Inv, TypeInv, PersistTypeOK
<1>1. \/ Tick \/ LastSave \/ MainSave \/ \E r \in Restorers : RestoreMark(r)
  <2>1. ASSUME NEW p \in Savers, SaveStep(p) \/ Fail(p) PROVE overlapped' = overlapped
    BY <2>1 DEF SaveStep, Marshal, Open, Write, Rename, Fail, history
  <2>2. CASE Change \/ Signal \/ Drained \/ TimesOut \/ Crash \/ Restart \/ RestartRefused
             \/ UNCHANGED vars
    BY <2>2 DEF Change, Signal, Drained, TimesOut, Crash, Restart, RestartRefused, vars, history
  <2>3. ASSUME NEW r \in Restorers, RestoreSwap(r) PROVE overlapped' = overlapped
    BY <2>3 DEF RestoreSwap, history
  <2> QED BY <2>1, <2>2, <2>3 DEF Next
<1>2. CASE MainSave BY <1>2 DEF MainSave
<1>3. ASSUME NEW r \in Restorers, RestoreMark(r) PROVE pc'[r] \in Saving
  BY <1>0, <1>3 DEF RestoreMark, BeginSave, Savers, Saving
<1>4. CASE Tick \/ LastSave
  <2>1. Running /\ BeginSave("autosave") BY <1>4 DEF Tick, LastSave, At
  <2>2. PICK q \in Savers \ {"autosave"} : pc[q] \in Saving BY <2>1 DEF BeginSave
  <2>3. pc'[q] = pc[q] BY <1>0, <2>1, <2>2 DEF BeginSave
  <2>4. CASE q = "main" BY <2>1, <2>2, <2>4 DEF MainLast, Running, HandlersRun
  <2>5. CASE q \in Restorers BY <2>2, <2>3, <2>5
  <2> QED BY <2>2, <2>4, <2>5 DEF Savers
<1> QED BY <1>1, <1>2, <1>3, <1>4

\* The condition of SnapshotsWhole in terms of what the administrators do: two
\* Saves overlap only around a restore or after the server is shut down
\* (main.go:108-115, store.go:242-259, backup.go:31).
THEOREM OverlapsHaveCause == Spec => OverlapsExplained
<1>1. Inv /\ MainLast /\ [Next]_vars =>
          [~overlapped /\ overlapped' => \/ \E r \in Restorers : pc'[r] \in Saving
                                         \/ phase \in {"drained", "timedout"}]_vars
  BY OverlapStep
<1> QED BY <1>1, PersistInvariant, MainLastInvariant, PTL DEF Spec, OverlapsExplained

\* A whole snapshot, or none, is one a start accepts.
LEMMA WholeLoads == PathWhole => SnapshotWhole
<1>1. ASSUME "path" \notin DOMAIN file PROVE Holds(0) BY <1>1 DEF Holds, Blank
<1>2. ASSUME NEW v \in Versions, "path" \in DOMAIN file, file["path"] = Whole(v)
      PROVE  Holds(v)
  <2>1. v # 0 BY DEF Versions
  <2> QED BY <1>2, <2>1 DEF Holds
<1> QED BY <1>1, <1>2 DEF PathWhole, SnapshotWhole, Loadable

\* Where nobody restores a dump and nobody stops the program but by killing it,
\* the loop is the only saver.
LEMMA LoopAlone ==
    ASSUME Restorers = {}, Signalled = FALSE
    PROVE  Spec => []~overlapped
<1> DEFINE Serving == ~overlapped /\ phase \in {"serving", "down", "refused"}
<1>1. Init => Serving BY DEF Init
<1>2. ASSUME Inv, MainLast, Serving, [Next]_vars PROVE Serving'
  <2>1. ~overlapped' BY <1>2, OverlapStep DEF Inv, TypeInv, PersistTypeOK
  <2>2. ASSUME NEW p \in Savers, SaveStep(p) \/ Fail(p) PROVE phase' \in {phase, "down"}
    BY <1>2, <2>2 DEF SaveStep, Marshal, Open, Write, Rename, Fail, Return
  <2>3. CASE Tick \/ LastSave \/ Change \/ UNCHANGED vars
    BY <1>2, <2>1, <2>3 DEF Tick, LastSave, Change, vars
  <2>4. CASE Signal \/ Drained \/ TimesOut \/ MainSave
    BY <1>2, <2>4 DEF Signal, Drained, TimesOut, MainSave
  <2>5. CASE Crash \/ Restart \/ RestartRefused
    BY <1>2, <2>1, <2>5 DEF Crash, Restart, RestartRefused, Started
  <2> QED BY <1>2, <2>1, <2>2, <2>3, <2>4, <2>5 DEF Next
<1>3. Serving => ~overlapped OBVIOUS
<1> HIDE DEF Serving
<1> QED BY <1>1, <1>2, <1>3, PersistInvariant, MainLastInvariant, PTL DEF Spec

\* What the comment of Save says (store.go:210) without the condition of
\* SnapshotsWhole: killed at any point, such a program finds a whole snapshot.
THEOREM LoopAloneIsWhole ==
    ASSUME Restorers = {}, Signalled = FALSE
    PROVE  Spec => []SnapshotWhole
<1>1. Spec => []~overlapped BY LoopAlone
<1>2. Inv /\ ~overlapped => SnapshotWhole BY WholeLoads DEF Inv, LoneInv
<1> QED BY <1>1, <1>2, PersistInvariant, PTL

=============================================================================
