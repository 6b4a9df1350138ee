----------------------------- MODULE Keepalive -----------------------------
(***************************************************************************)
(* The pinger: a background loop driven by a timer and a ticker, requests  *)
(* that run it by hand, and the status both publish.  Time is an integer;  *)
(* it passes while addresses are pinged, while a run waits for the lock    *)
(* and while the loop waits, and does not pass over a timer that is due, a *)
(* timeout that has come or the longest wait that MaxWait allows.          *)
(***************************************************************************)
EXTENDS Integers

CONSTANTS
    Manual,       \* concurrent POST /api/keepalive/ping requests
    Interval,     \* p.interval
    FirstDelay,   \* the minute before the first ping
    MaxRun,       \* the longest a run pings: 30 seconds for each address
    MaxWait,      \* the longest it then waits for p.mu, an assumption: see Waited
    MaxTime,      \* bound: the time
    MaxManual     \* bound: runs made by hand

Pingers == Manual \cup {"loop"}

ASSUME KeepaliveAssumption ==
    /\ "loop" \notin Manual
    /\ Interval \in Nat \ {0} /\ FirstDelay \in Nat /\ MaxRun \in Nat /\ MaxWait \in Nat
    /\ MaxTime \in Nat /\ MaxManual \in Nat

VARIABLES
    now,         \* time.Now
    cancelled,   \* ctx.Done is closed: the process has got a signal
    loop,        \* what the goroutine of Start waits for or does
    due,         \* when the timer, later the ticker, fires next
    slot,        \* the channel of the ticker holds a tick
    run,         \* what each pinger does in Run: see NoRun
    status,      \* the times p.status publishes
    began,       \* history: when the last background run began
    base,        \* history: when the ticker was made
    ticks,       \* history: background runs the ticker started
    finished,    \* history: the newest stamp of a run that has published
    background,  \* history: the stamp of the last background run published
    manual       \* history: runs made by hand

history == <<began, base, ticks, finished, background, manual>>
vars == <<now, cancelled, loop, due, slot, run, status, history>>

Never == -1

\* A pinger is idle, pings, or has taken its stamp and waits for the lock.
NoRun == [at |-> "idle", start |-> 0, stamp |-> Never]

At(p, step) == run[p].at = step

BeginRun(p) == run' = [run EXCEPT ![p] = [NoRun EXCEPT !.at = "ping", !.start = now]]

-----------------------------------------------------------------------------
(* Run *)

\* Mutant: now is taken before the pings.
StampBefore(p) ==
    /\ At(p, "ping")
    /\ run' = [run EXCEPT ![p].at = "publish", ![p].stamp = run[p].start]
    /\ UNCHANGED <<now, cancelled, loop, due, slot, status, history>>

\* Every address has answered, failed or timed out: now and next.
Stamp(p) ==
    /\ At(p, "ping")
    /\ run' = [run EXCEPT ![p].at = "publish", ![p].stamp = now]
    /\ UNCHANGED <<now, cancelled, loop, due, slot, status, history>>

\* Mutant: the time of the next run is left to the loop.
StatusLastOnly(s) == [last |-> s, next |-> status.next]

\* Mutant: the interval is taken off.
StatusBefore(s) == [last |-> s, next |-> s - Interval]

\* What a run stamped s puts into the status.
StatusOf(s) == [last |-> s, next |-> s + Interval]

\* The ticker is made when the first run is over.
AfterFirst ==
    IF loop = "first" THEN due' = now + Interval /\ base' = now
                      ELSE UNCHANGED <<due, base>>

\* The status is published under the lock.  The loop goes on to its select.
Publish(p) ==
    /\ At(p, "publish")
    /\ status' = StatusOf(run[p].stamp)
    /\ finished' = IF run[p].stamp > finished THEN run[p].stamp ELSE finished
    /\ run' = [run EXCEPT ![p] = NoRun]
    /\ IF p = "loop" THEN /\ background' = run[p].stamp
                          /\ AfterFirst
                          /\ loop' = "wait"
                     ELSE UNCHANGED <<background, due, base, loop>>
    /\ UNCHANGED <<now, cancelled, slot, began, ticks, manual>>

\* POST /api/keepalive/ping.
ManualPing(p) ==
    /\ At(p, "idle")
    /\ manual < MaxManual /\ manual' = manual + 1
    /\ BeginRun(p)
    /\ UNCHANGED <<now, cancelled, loop, due, slot, status,
                   began, base, ticks, finished, background>>

-----------------------------------------------------------------------------
(* Start *)

\* The minute is over.
FirstRun ==
    /\ loop = "timer" /\ now >= due
    /\ loop' = "first"
    /\ BeginRun("loop")
    /\ began' = now
    /\ UNCHANGED <<now, cancelled, due, slot, status,
                   base, ticks, finished, background, manual>>

\* A tick is received.
NextRun ==
    /\ loop = "wait" /\ slot
    /\ slot' = FALSE
    /\ loop' = "run"
    /\ BeginRun("loop")
    /\ began' = now /\ ticks' = ticks + 1
    /\ UNCHANGED <<now, cancelled, due, status, base, finished, background, manual>>

\* Mutant: only the first select looks at ctx.
LoopStopEarly ==
    /\ loop = "timer" /\ cancelled
    /\ loop' = "stopped"
    /\ UNCHANGED <<now, cancelled, due, slot, run, status, history>>

\* ctx.Done is received; if there is a tick too, select takes either.
LoopStop ==
    /\ loop \in {"timer", "wait"} /\ cancelled
    /\ loop' = "stopped"
    /\ UNCHANGED <<now, cancelled, due, slot, run, status, history>>

Cancel ==
    /\ ~cancelled
    /\ cancelled' = TRUE
    /\ UNCHANGED <<now, loop, due, slot, run, status, history>>

-----------------------------------------------------------------------------
(* Time *)

\* Mutant: requests have no timeout.
NeverOverdue(p) == FALSE

\* The pings of the run have all timed out by now.
Overdue(p) == At(p, "ping") /\ now >= run[p].start + MaxRun

\* The run has had to wait for p.mu for as long as it ever has to.  The code
\* sets no timeout here: that there is a longest wait is an assumption on the
\* scheduling of goroutines, none of which holds p.mu over a call.
Waited(p) == At(p, "publish") /\ now >= run[p].stamp + MaxWait

\* The loop has something to receive.
Receives ==
    \/ loop = "timer" /\ (now >= due \/ cancelled)
    \/ loop = "wait" /\ (slot \/ cancelled)

Ticking == loop \in {"wait", "run"}

\* Mutant: the ticker is set again when a tick is sent.
FireLate == IF slot THEN UNCHANGED <<due, slot>>
            ELSE due' = now' + Interval + 1 /\ slot' = TRUE

\* The ticker fires on its own schedule; the channel holds one tick, and one
\* that finds it full is dropped.
Fire == due' = due + Interval /\ slot' = TRUE

\* Time passes, the ticker fires if it is due.
Tick ==
    /\ now < MaxTime
    /\ ~Receives
    /\ \A p \in Pingers : ~Overdue(p) /\ ~Waited(p)
    /\ now' = now + 1
    /\ IF Ticking /\ now' = due THEN Fire ELSE UNCHANGED <<due, slot>>
    /\ UNCHANGED <<cancelled, loop, run, status, history>>

-----------------------------------------------------------------------------

Init ==
    /\ now = 0 /\ cancelled = FALSE
    /\ loop = "timer" /\ due = FirstDelay /\ slot = FALSE
    /\ run = [p \in Pingers |-> NoRun]
    /\ status = [last |-> Never, next |-> FirstDelay]
    /\ began = 0 /\ base = 0 /\ ticks = 0 /\ manual = 0
    /\ finished = Never /\ background = Never

Next ==
    \/ \E p \in Pingers : Stamp(p) \/ Publish(p)
    \/ \E p \in Manual : ManualPing(p)
    \/ FirstRun \/ NextRun \/ LoopStop \/ Cancel
    \/ Tick

Spec == Init /\ [][Next]_vars

\* The goroutine of the loop runs, and select, which chooses among ready cases
\* at random, does not pass ctx.Done over for ever.
Fairness ==
    /\ WF_vars(Stamp("loop")) /\ WF_vars(Publish("loop"))
    /\ WF_vars(FirstRun) /\ WF_vars(NextRun)
    /\ SF_vars(LoopStop)

FairSpec == Spec /\ Fairness

-----------------------------------------------------------------------------
(* Properties *)

Times == Nat \cup {Never}

KeepaliveTypeOK ==
    /\ now \in Nat /\ cancelled \in BOOLEAN /\ slot \in BOOLEAN /\ due \in Nat
    /\ loop \in {"timer", "first", "wait", "run", "stopped"}
    /\ run \in [Pingers -> [at : {"idle", "ping", "publish"}, start : Nat, stamp : Times]]
    /\ \A p \in Pingers : At(p, "publish") => run[p].stamp \in Nat
    /\ status \in [last : Times, next : Nat]
    /\ began \in Nat /\ base \in Nat /\ ticks \in Nat /\ manual \in Nat
    /\ finished \in Times /\ background \in Times

\* The longest a run lasts.
Longest == MaxRun + MaxWait

\* Until the process is told to stop, the host sees a background ping begin at
\* least once in an interval and the length of a run, however slow the pings
\* are and however often somebody pings by hand (keepalive.go:62-101).
AwakeWithin ==
    loop # "stopped" => now - began <= Longest + (IF loop = "timer" THEN FirstDelay ELSE Interval)

\* Runs shorter than the interval: the ticker starts one at every multiple of
\* it, none is dropped and the schedule never drifts (keepalive.go:63).
OnSchedule ==
    Longest < Interval /\ Ticking /\ ~cancelled =>
        ticks + (IF slot THEN 1 ELSE 0) = (now - base) \div Interval

\* A run that publishes late hides a newer one, but however long the runs ping,
\* the status is older than the newest of them by no more than the wait for the
\* lock (keepalive.go:113-120).
StatusFresh == status.last >= finished - MaxWait

\* While the loop waits, the announced time of the next background run is too
\* early by no more than a wait for the lock and too late by less than an
\* interval.  If it comes from the background run and not from a ping by hand,
\* and runs are shorter than the interval, it is too late by no more than the
\* pings of that run took (keepalive.go:63, 114).
NextRunAbout ==
    loop = "wait" /\ ~slot /\ ~cancelled =>
        /\ due - MaxWait <= status.next /\ status.next < due + Interval
        /\ status.last = background /\ Longest < Interval => status.next <= due + MaxRun

\* After the signal the loop ends, a tick or a run in progress or not.
LoopEnds == cancelled ~> loop = "stopped"

-----------------------------------------------------------------------------
(* What the comment on the handler says (system.go:37) *)

\* The status says when the last background ping was and when the next one will
\* be.
BackgroundTold ==
    /\ status.last = background
    /\ loop = "wait" /\ ~slot /\ ~cancelled => status.next = due

=============================================================================
