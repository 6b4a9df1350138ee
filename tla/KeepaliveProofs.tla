-------------------------- MODULE KeepaliveProofs --------------------------
(***************************************************************************)
(* The times of the pinger, for any number of manual pings, any interval   *)
(* length of a run and any wait for the lock.  Every argument is about     *)
(* distances between times: time does not pass over a timeout, a timer     *)
(* that is due or the longest wait.                                        *)
(***************************************************************************)
EXTENDS Keepalive, TLAPS

\* A run pings for MaxRun at most, takes its stamp, and waits for MaxWait at most.
RunsTimed ==
    \A p \in Pingers :
        /\ ~At(p, "idle") => run[p].start <= now
        /\ At(p, "ping") => now <= run[p].start + MaxRun
        /\ At(p, "publish") =>
               /\ run[p].start <= run[p].stamp /\ run[p].stamp <= run[p].start + MaxRun
               /\ run[p].stamp <= now /\ now <= run[p].stamp + MaxWait

\* The loop is in a run or in a select.
LoopRuns ==
    /\ loop \in {"first", "run"} => ~At("loop", "idle") /\ run["loop"].start = began
    /\ loop \notin {"first", "run"} => At("loop", "idle")

\* Before the first run there is a timer, and no ticker yet.
TimerSet ==
    /\ loop = "timer" => now <= due /\ due = FirstDelay /\ began = 0
    /\ loop \in {"timer", "first"} => ~slot /\ ticks = 0

\* The ticker fires within an interval.  While the channel is empty the next
\* tick is near the last run, and a tick is received at once.
TickerSet ==
    /\ Ticking => now < due /\ due <= now + Interval
    /\ Ticking /\ ~slot => due <= began + Longest + Interval
    /\ loop = "wait" => now <= began + Longest + Interval

\* The status comes from a run that had just ended when it was published.
StatusTimed ==
    /\ finished <= now /\ status.last <= now
    /\ status.last >= finished - MaxWait
    /\ status.last # Never => status.next = status.last + Interval
    /\ Ticking => status.last # Never
    /\ loop = "wait" /\ ~slot => due <= status.next + MaxWait

KeepaliveInv ==
    /\ KeepaliveTypeOK
    /\ RunsTimed /\ LoopRuns /\ TimerSet /\ TickerSet /\ StatusTimed

USE DEF Times, Never, Longest

-----------------------------------------------------------------------------

LEMMA KeepaliveInit == Init => KeepaliveInv
<1> SUFFICES ASSUME Init PROVE KeepaliveInv OBVIOUS
<1> USE KeepaliveAssumption
<1>1. \A p \in Pingers : run[p] = NoRun BY DEF Init
<1>2. KeepaliveTypeOK BY <1>1 DEF Init, KeepaliveTypeOK, NoRun, At
<1>3. RunsTimed BY <1>1 DEF RunsTimed, NoRun, At
<1>4. LoopRuns BY <1>1 DEF Init, LoopRuns, NoRun, At, Pingers
<1>5. TimerSet /\ TickerSet /\ StatusTimed
  BY DEF Init, TimerSet, TickerSet, StatusTimed, Ticking
<1> QED BY <1>2, <1>3, <1>4, <1>5 DEF KeepaliveInv

LEMMA StampStep ==
    ASSUME KeepaliveInv, NEW p \in Pingers, Stamp(p)
    PROVE  KeepaliveInv'
<1> USE KeepaliveAssumption DEF KeepaliveInv
<1>1. KeepaliveTypeOK' BY DEF KeepaliveTypeOK, Stamp, At, history
<1>2. RunsTimed' BY DEF KeepaliveTypeOK, RunsTimed, Stamp, At, history
<1>3. LoopRuns' /\ TimerSet' /\ TickerSet' /\ StatusTimed'
  BY DEF KeepaliveTypeOK, LoopRuns, TimerSet, TickerSet, StatusTimed, Ticking,
         Stamp, At, history, Pingers
<1> QED BY <1>1, <1>2, <1>3

LEMMA PublishStep ==
    ASSUME KeepaliveInv, NEW p \in Pingers, Publish(p)
    PROVE  KeepaliveInv'
<1> USE KeepaliveAssumption DEF KeepaliveInv
<1>0. /\ run[p].stamp \in Nat /\ run[p].stamp <= now
      /\ now <= run[p].stamp + MaxWait /\ now <= run[p].start + Longest
      /\ run[p].start \in Nat /\ run[p].start <= run[p].stamp
  BY DEF KeepaliveTypeOK, RunsTimed, Publish, At
<1>1. KeepaliveTypeOK'
  BY <1>0 DEF KeepaliveTypeOK, Publish, StatusOf, AfterFirst, NoRun, At
<1>2. RunsTimed' BY DEF KeepaliveTypeOK, RunsTimed, Publish, NoRun, At
<1>3. LoopRuns'
  BY DEF KeepaliveTypeOK, LoopRuns, Publish, NoRun, At, Pingers
<1>4. TimerSet' /\ TickerSet' /\ StatusTimed'
  <2>1. CASE p = "loop" /\ loop = "first"
    BY <1>0, <2>1 DEF KeepaliveTypeOK, LoopRuns, RunsTimed, TimerSet, TickerSet, StatusTimed,
           Ticking, Publish, StatusOf, AfterFirst, At, Pingers
  <2>2. CASE p = "loop" /\ loop # "first"
    BY <1>0, <2>2 DEF KeepaliveTypeOK, LoopRuns, RunsTimed, TimerSet, TickerSet, StatusTimed,
           Ticking, Publish, StatusOf, AfterFirst, At, Pingers
  <2>3. CASE p # "loop"
    BY <1>0, <2>3 DEF KeepaliveTypeOK, TimerSet, TickerSet, StatusTimed,
           Ticking, Publish, StatusOf
  <2> QED BY <2>1, <2>2, <2>3
<1> QED BY <1>1, <1>2, <1>3, <1>4

LEMMA BeginStep ==
    ASSUME KeepaliveInv, FirstRun \/ NextRun \/ \E p \in Manual : ManualPing(p)
    PROVE  KeepaliveInv'
<1> USE KeepaliveAssumption DEF KeepaliveInv
<1>1. PICK p \in Pingers :
          /\ BeginRun(p)
          /\ FirstRun \/ NextRun => p = "loop"
          /\ ~(FirstRun \/ NextRun) => p # "loop" /\ ManualPing(p)
  BY DEF FirstRun, NextRun, ManualPing, Pingers
<1>2. now \in Nat /\ UNCHANGED <<now, cancelled, due, status, base, finished, background>>
  BY DEF KeepaliveTypeOK, FirstRun, NextRun, ManualPing
<1>3. /\ run' \in [Pingers -> [at : {"idle", "ping", "publish"}, start : Nat, stamp : Times]]
      /\ \A q \in Pingers : q # p => run'[q] = run[q]
      /\ run'[p].at = "ping" /\ run'[p].start = now
  BY <1>1, <1>2 DEF KeepaliveTypeOK, BeginRun, NoRun
<1>4. KeepaliveTypeOK'
  <2>1. /\ slot' \in BOOLEAN /\ loop' \in {"timer", "first", "wait", "run", "stopped"}
        /\ began' \in Nat /\ ticks' \in Nat /\ manual' \in Nat
    <3>1. CASE FirstRun
      <4>1. slot' \in BOOLEAN /\ UNCHANGED <<ticks, manual>> BY <3>1 DEF KeepaliveTypeOK, FirstRun
      <4>2. loop' = "first" /\ began' = now BY <3>1 DEF FirstRun
      <4>3. ticks \in Nat /\ manual \in Nat BY DEF KeepaliveTypeOK
      <4> HIDE DEF KeepaliveInv
      <4> QED BY <4>1, <4>2, <4>3, <1>2
    <3>2. CASE NextRun
      <4>1. ~slot' /\ slot' \in BOOLEAN BY <3>2 DEF NextRun
      <4>2. loop' = "run" /\ began' = now /\ ticks' = ticks + 1 /\ manual' = manual
        BY <3>2 DEF NextRun
      <4>3. ticks \in Nat /\ manual \in Nat BY DEF KeepaliveTypeOK
      <4> HIDE DEF KeepaliveInv
      <4> QED BY <4>1, <4>2, <4>3, <1>2
    <3>3. CASE ManualPing(p) BY <3>3, <1>2 DEF KeepaliveTypeOK, ManualPing
    <3> QED BY <1>1, <3>1, <3>2, <3>3
  <2> QED BY <1>2, <1>3, <2>1 DEF KeepaliveTypeOK, At
<1>5. RunsTimed' BY <1>2, <1>3 DEF RunsTimed, At
<1>6. CASE FirstRun
  BY <1>1, <1>2, <1>3, <1>4, <1>5, <1>6
  DEF KeepaliveTypeOK, LoopRuns, TimerSet, TickerSet, StatusTimed, Ticking, FirstRun, At
<1>7. CASE NextRun
  BY <1>1, <1>2, <1>3, <1>4, <1>5, <1>7
  DEF KeepaliveTypeOK, LoopRuns, TimerSet, TickerSet, StatusTimed, Ticking, NextRun, At
<1>8. CASE ~(FirstRun \/ NextRun)
  <2>1. ManualPing(p) /\ UNCHANGED <<loop, slot, began, ticks>> /\ run'["loop"] = run["loop"]
    BY <1>1, <1>3, <1>8 DEF ManualPing, Pingers
  <2>2. LoopRuns' BY <2>1 DEF LoopRuns, At
  <2>3. TimerSet' /\ TickerSet' /\ StatusTimed'
    BY <1>2, <2>1 DEF TimerSet, TickerSet, StatusTimed, Ticking
  <2> QED BY <1>4, <1>5, <2>2, <2>3
<1> QED BY <1>6, <1>7, <1>8

LEMMA SignalStep ==
    ASSUME KeepaliveInv, LoopStop \/ Cancel
    PROVE  KeepaliveInv'
<1> USE DEF KeepaliveInv
<1>1. /\ UNCHANGED <<now, due, slot, run, status, began, base, ticks, finished, background, manual>>
      /\ cancelled' \in BOOLEAN
      /\ loop' = loop \/ (loop \in {"timer", "wait"} /\ loop' = "stopped")
  <2>1. CASE LoopStop BY <2>1 DEF KeepaliveTypeOK, LoopStop, history
  <2>2. CASE Cancel BY <2>2 DEF Cancel, history
  <2> QED BY <2>1, <2>2
<1>2. KeepaliveTypeOK' BY <1>1 DEF KeepaliveTypeOK, At
<1>3. RunsTimed' BY <1>1 DEF RunsTimed, At
<1>4. LoopRuns' BY <1>1 DEF LoopRuns, At
<1>5. TimerSet' /\ TickerSet' /\ StatusTimed'
  BY <1>1 DEF TimerSet, TickerSet, StatusTimed, Ticking
<1> QED BY <1>2, <1>3, <1>4, <1>5

LEMMA TickStep ==
    ASSUME KeepaliveInv, Tick
    PROVE  KeepaliveInv'
<1> USE KeepaliveAssumption DEF KeepaliveInv
<1>1. KeepaliveTypeOK'
  <2>1. UNCHANGED <<cancelled, loop, run, status, history>> BY DEF Tick
  <2>2. now' \in Nat /\ due' \in Nat BY DEF KeepaliveTypeOK, Tick, Fire
  <2>3. slot' \in BOOLEAN BY DEF KeepaliveTypeOK, Tick, Fire
  <2> QED BY <2>1, <2>2, <2>3 DEF KeepaliveTypeOK, At, history
<1>2. RunsTimed'
  BY DEF KeepaliveTypeOK, RunsTimed, Tick, Overdue, Waited, At, history
<1>3. LoopRuns' BY DEF LoopRuns, Tick, At, history
<1>4. TimerSet'
  BY DEF KeepaliveTypeOK, TimerSet, Tick, Fire, Ticking, Receives, history
<1>5. TickerSet'
  BY DEF KeepaliveTypeOK, TickerSet, Tick, Fire, Ticking, Receives, history
<1>6. StatusTimed'
  BY DEF KeepaliveTypeOK, StatusTimed, Tick, Fire, Ticking, Receives, history
<1> QED BY <1>1, <1>2, <1>3, <1>4, <1>5, <1>6

LEMMA KeepaliveStep ==
    ASSUME KeepaliveInv, [Next]_vars
    PROVE  KeepaliveInv'
<1>1. CASE UNCHANGED vars
  BY <1>1 DEF KeepaliveInv, KeepaliveTypeOK, RunsTimed, LoopRuns, TimerSet, TickerSet,
              StatusTimed, Ticking, At, vars, history
<1> QED BY <1>1, StampStep, PublishStep, BeginStep, SignalStep, TickStep DEF Next

\* Runs, ticks and the status keep their distances in time.
THEOREM KeepaliveInvariant == Spec => []KeepaliveInv
  BY KeepaliveInit, KeepaliveStep, PTL DEF Spec

\* Every field has its type.
THEOREM KeepaliveTypes == Spec => []KeepaliveTypeOK
<1>1. KeepaliveInv => KeepaliveTypeOK BY DEF KeepaliveInv
<1> QED BY <1>1, KeepaliveInvariant, PTL

\* Background pings are never further apart than an interval and the length of
\* a run, until the loop is told to stop (keepalive.go:62-101).
THEOREM PingsOften == Spec => []AwakeWithin
<1>1. KeepaliveInv => AwakeWithin
  <2> SUFFICES ASSUME KeepaliveInv PROVE AwakeWithin OBVIOUS
  <2>1. /\ now \in Nat /\ began \in Nat /\ due \in Nat /\ FirstDelay \in Nat
        /\ Interval \in Nat /\ MaxRun \in Nat /\ MaxWait \in Nat
        /\ loop \in {"timer", "first", "wait", "run", "stopped"}
    BY KeepaliveAssumption DEF KeepaliveInv, KeepaliveTypeOK
  <2>2. CASE loop \in {"first", "run"}
    <3>1. run["loop"] \in [at : {"idle", "ping", "publish"}, start : Nat, stamp : Times]
      BY DEF KeepaliveInv, KeepaliveTypeOK, Pingers
    <3>2. now <= began + Longest
      BY <2>1, <2>2, <3>1 DEF KeepaliveInv, RunsTimed, LoopRuns, Pingers, At
    <3> QED BY <2>1, <2>2, <3>2 DEF AwakeWithin
  <2>3. CASE loop \in {"timer", "wait", "stopped"}
    BY <2>1, <2>3 DEF KeepaliveInv, TimerSet, TickerSet, AwakeWithin
  <2> QED BY <2>1, <2>2, <2>3
<1> QED BY <1>1, KeepaliveInvariant, PTL

\* However long the runs ping, the status is never older than the newest of
\* them by more than the wait for the lock (keepalive.go:113-120).
THEOREM StatusIsFresh == Spec => []StatusFresh
<1>1. KeepaliveInv => StatusFresh BY DEF KeepaliveInv, StatusTimed, StatusFresh
<1> QED BY <1>1, KeepaliveInvariant, PTL

-----------------------------------------------------------------------------
(* The schedule of the ticker *)

Sent == ticks + (IF slot THEN 1 ELSE 0)

\* The ticker has fired Sent times since it was made.  A tick is received at
\* once, no other comes in the run it starts, and the run stamps its status
\* before it has pinged for more than MaxRun.
Scheduled ==
    Longest < Interval /\ Ticking =>
        /\ due = base + (Sent + 1) * Interval
        /\ loop = "run" => ~slot /\ due = began + Interval
        /\ loop = "wait" /\ slot => due = now + Interval
        /\ loop = "wait" /\ ~slot => background + Interval <= due + MaxRun

LEMMA Distribute ==
    ASSUME NEW k \in Nat, NEW n \in Nat
    PROVE  (k + 2) * n = (k + 1) * n + n
  OBVIOUS

LEMMA Quotient ==
    ASSUME NEW a \in Nat, NEW k \in Nat, NEW n \in Nat \ {0},
           k * n <= a, a < (k + 1) * n
    PROVE  a \div n = k
  OBVIOUS

LEMMA ScheduledStep ==
    ASSUME KeepaliveInv, Scheduled, [Next]_vars
    PROVE  Scheduled'
<1> USE KeepaliveAssumption
<1>1. CASE UNCHANGED vars
  BY <1>1 DEF Scheduled, Sent, Ticking, vars, history
<1>2. ASSUME NEW p \in Pingers, Stamp(p) PROVE Scheduled'
  BY <1>2 DEF Stamp, Scheduled, Sent, Ticking, history
<1>3. ASSUME NEW p \in Pingers, Publish(p) PROVE Scheduled'
  <2>0. run[p].stamp \in Nat /\ run[p].stamp <= now /\ run[p].stamp <= run[p].start + MaxRun
        /\ run[p].start \in Nat /\ now \in Nat
    BY <1>3 DEF Publish, KeepaliveInv, KeepaliveTypeOK, RunsTimed, At
  <2>1. CASE p = "loop" /\ loop = "first"
    BY <1>3, <2>0, <2>1 DEF Publish, AfterFirst, Scheduled, Sent, Ticking, KeepaliveInv,
                            KeepaliveTypeOK, TimerSet
  <2>2. CASE p = "loop" /\ loop # "first"
    <3>1. loop = "run" /\ run[p].start = began
      BY <1>3, <2>2 DEF Publish, KeepaliveInv, LoopRuns, At
    <3>2. /\ UNCHANGED <<now, due, base, slot, ticks, began>>
          /\ loop' = "wait" /\ background' = run[p].stamp
      BY <1>3, <2>2 DEF Publish, AfterFirst
    <3>3. due \in Nat /\ began \in Nat BY DEF KeepaliveInv, KeepaliveTypeOK
    <3> QED BY <2>0, <3>1, <3>2, <3>3 DEF Scheduled, Sent, Ticking
  <2>3. CASE p # "loop"
    <3>1. UNCHANGED <<now, due, base, slot, ticks, began, loop, background>>
      BY <1>3, <2>3 DEF Publish
    <3> QED BY <3>1 DEF Scheduled, Sent, Ticking
  <2> QED BY <2>1, <2>2, <2>3
<1>4. ASSUME NEW p \in Manual, ManualPing(p) PROVE Scheduled'
  BY <1>4 DEF ManualPing, Scheduled, Sent, Ticking
<1>5. CASE FirstRun BY <1>5 DEF FirstRun, Scheduled, Ticking
<1>6. CASE NextRun
  BY <1>6 DEF NextRun, Scheduled, Sent, Ticking, KeepaliveInv, KeepaliveTypeOK
<1>7. CASE LoopStop \/ Cancel
  BY <1>7 DEF LoopStop, Cancel, Scheduled, Sent, Ticking, history
<1>8. CASE Tick
  <2>0. /\ now \in Nat /\ due \in Nat /\ began \in Nat /\ base \in Nat /\ ticks \in Nat
        /\ now' = now + 1 /\ UNCHANGED <<base, ticks, began, loop, background>>
    BY <1>8 DEF KeepaliveInv, KeepaliveTypeOK, Tick, history
  <2>1. CASE Ticking /\ now' = due
    <3> SUFFICES ASSUME Longest < Interval PROVE Scheduled' BY DEF Scheduled
    <3>1. due' = due + Interval /\ slot' = TRUE BY <1>8, <2>1 DEF Tick, Fire
    <3>2. loop # "run"
      <4> SUFFICES ASSUME loop = "run" PROVE FALSE OBVIOUS
      <4>1. RunsTimed' /\ LoopRuns' BY <1>8, TickStep DEF KeepaliveInv
      <4>2. /\ run["loop"] \in [at : {"idle", "ping", "publish"}, start : Nat, stamp : Times]
            /\ run' = run
        BY <1>8 DEF KeepaliveInv, KeepaliveTypeOK, Pingers, Tick
      <4>3. now' <= began + Longest
        BY <2>0, <4>1, <4>2 DEF RunsTimed, LoopRuns, Pingers, At
      <4> QED BY <2>0, <2>1, <4>3 DEF Scheduled
    <3>3. loop = "wait" /\ ~slot BY <1>8, <2>1, <3>2 DEF Tick, Receives, Ticking
    <3>4. due' = base + (Sent' + 1) * Interval
      <4>1. due = base + (ticks + 1) * Interval BY <2>0, <2>1, <3>3 DEF Scheduled, Sent
      <4>2. Sent' + 1 = ticks + 2 BY <2>0, <3>1 DEF Sent
      <4>3. (ticks + 2) * Interval = (ticks + 1) * Interval + Interval BY <2>0, Distribute
      <4> QED BY <2>0, <3>1, <4>1, <4>2, <4>3
    <3> QED BY <2>0, <2>1, <3>1, <3>3, <3>4 DEF Scheduled
  <2>2. CASE ~(Ticking /\ now' = due)
    <3>1. UNCHANGED <<due, slot>> BY <1>8, <2>2 DEF Tick
    <3>2. ~(loop = "wait" /\ slot) BY <1>8 DEF Tick, Receives
    <3> QED BY <2>0, <3>1, <3>2 DEF Scheduled, Sent, Ticking
  <2> QED BY <2>1, <2>2
<1> QED BY <1>1, <1>2, <1>3, <1>4, <1>5, <1>6, <1>7, <1>8 DEF Next

LEMMA ScheduledInvariant == Spec => []Scheduled
<1>1. Init => Scheduled BY DEF Init, Scheduled, Ticking
<1> QED BY <1>1, KeepaliveInvariant, ScheduledStep, PTL DEF Spec

\* Runs shorter than the interval never lose a tick: the ticker has started, or
\* is about to start, as many as intervals have passed (keepalive.go:63).
THEOREM TicksOnSchedule == Spec => []OnSchedule
<1>1. KeepaliveInv /\ Scheduled => OnSchedule
  <2> SUFFICES ASSUME KeepaliveInv, Scheduled, Longest < Interval, Ticking
               PROVE  Sent = (now - base) \div Interval
    BY DEF OnSchedule, Sent
  <2>1. /\ now \in Nat /\ due \in Nat /\ base \in Nat /\ Sent \in Nat
        /\ Interval \in Nat \ {0}
    BY KeepaliveAssumption DEF KeepaliveInv, KeepaliveTypeOK, Sent
  <2>2. due = base + (Sent + 1) * Interval BY DEF Scheduled
  <2>3. now < due /\ due <= now + Interval BY DEF KeepaliveInv, TickerSet
  <2>4. (Sent + 1) * Interval = Sent * Interval + Interval BY <2>1
  <2>5. Sent * Interval \in Nat BY <2>1
  <2> HIDE DEF Sent
  <2>6. Sent * Interval <= now - base /\ now - base < (Sent + 1) * Interval
    BY <2>1, <2>2, <2>3, <2>4, <2>5
  <2>7. now - base \in Nat BY <2>1, <2>5, <2>6
  <2> QED BY <2>1, <2>6, <2>7, Quotient
<1> QED BY <1>1, KeepaliveInvariant, ScheduledInvariant, PTL

\* The run that is announced begins no later than it was announced for, but for
\* a wait for the lock, and earlier by less than an interval; by the pings of a
\* run at most if the loop announced it and runs are shorter than the interval
\* (keepalive.go:63, 114).
THEOREM NextRunKnown == Spec => []NextRunAbout
<1>1. KeepaliveInv /\ Scheduled => NextRunAbout
  <2> SUFFICES ASSUME KeepaliveInv, Scheduled, loop = "wait", ~slot
               PROVE  /\ due - MaxWait <= status.next /\ status.next < due + Interval
                      /\ status.last = background /\ Longest < Interval =>
                             status.next <= due + MaxRun
    BY DEF NextRunAbout
  <2>1. /\ now \in Nat /\ due \in Nat /\ background \in Times /\ Interval \in Nat
        /\ MaxRun \in Nat /\ MaxWait \in Nat /\ status.next \in Nat /\ status.last \in Times
    BY KeepaliveAssumption DEF KeepaliveInv, KeepaliveTypeOK
  <2>2. /\ status.last <= now /\ status.next = status.last + Interval
        /\ due <= status.next + MaxWait /\ now < due
    BY DEF KeepaliveInv, StatusTimed, TickerSet, Ticking
  <2>3. Longest < Interval => background + Interval <= due + MaxRun
    BY DEF Scheduled, Ticking
  <2> QED BY <2>1, <2>2, <2>3
<1> QED BY <1>1, KeepaliveInvariant, ScheduledInvariant, PTL

=============================================================================
