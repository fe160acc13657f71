---------------------------- MODULE JobScheduler ----------------------------
(***************************************************************************)
(* scheduler.Scheduler and the process around it: the tick loop, panel     *)
(* triggers, the goroutines that execute jobs, and the shutdown sequence   *)
(* of cmd/server (cancel the root context, Scheduler.Stop, exit).  Every   *)
(* section under Scheduler.mu is one action.  A job's body alternates      *)
(* between local work and platform calls ("write": a call in flight).      *)
(***************************************************************************)
EXTENDS Integers, FiniteSets, FiniteSetsExt

CONSTANTS
  Jobs,        \* registered jobs
  Daily,       \* the KindDaily ones
  Every,       \* interval of an interval job
  Jitter,      \* its jitter: initialNext adds less than this
  Day, At,     \* a daily job is due at every instant n with n % Day = At
  Slots,       \* bound: goroutines of one job alive at a time
  MaxTime      \* bound: wall clock

ASSUME ConfigAssumption ==
  /\ IsFiniteSet(Jobs) /\ Daily \subseteq Jobs
  /\ Every \in Nat \ {0} /\ Jitter \in Nat
  /\ Day \in Nat \ {0} /\ At \in 0 .. Day - 1
  /\ Slots \subseteq Nat /\ MaxTime \in Nat

VARIABLES
  now,         \* wall clock
  running,     \* entry.running
  next, last,  \* entry.next, entry.last (0: nil)
  stopClosed,  \* Scheduler.stop is closed
  wg,          \* Scheduler.done counter
  loopPc,      \* Start: "select", "due" (tick received), "returned"
  tick,        \* the tick value runDue works with
  pc,          \* pc[j][k]: the k-th goroutine executing job j
  kind,        \* "tick" (runDue) or "manual" (Trigger)
  tickOf,      \* the tick a scheduled execution was started for
  rootDone,    \* rootCtx is cancelled
  mainPc,      \* run(): "serving", "stopping", "stopped", "exited"
  timedOut,    \* Stop gave up waiting
  finishedAt,  \* history: when the job's last execution was recorded
  cut          \* history: a platform call was cut by the shutdown

entryVars == <<running, next, last, finishedAt>>
execVars  == <<pc, kind, tickOf, wg>>
loopVars  == <<loopPc, tick>>
mainVars  == <<stopClosed, rootDone, mainPc, timedOut>>
vars      == <<now, entryVars, execVars, loopVars, mainVars, cut>>

Steps     == {"free", "start", "body", "write", "record", "done", "clear"}

TypeOK ==
  /\ now \in Nat /\ tick \in Nat /\ wg \in Nat
  /\ running \in [Jobs -> BOOLEAN]
  /\ next \in [Jobs -> Nat] /\ last \in [Jobs -> Nat] /\ finishedAt \in [Jobs -> Nat]
  /\ pc \in [Jobs -> [Slots -> Steps]]
  /\ kind \in [Jobs -> [Slots -> {"tick", "manual"}]]
  /\ tickOf \in [Jobs -> [Slots -> Nat]]
  /\ stopClosed \in BOOLEAN /\ rootDone \in BOOLEAN /\ timedOut \in BOOLEAN /\ cut \in BOOLEAN
  /\ loopPc \in {"select", "due", "returned"}
  /\ mainPc \in {"serving", "stopping", "stopped", "exited"}

\* initialNext: the instants it may return for a job at time t.
InitialNext(j, t) ==
  IF j \in Daily
  THEN {CHOOSE n \in t + 1 .. t + Day : n % Day = At}
  ELSE IF Jitter = 0 THEN {t + Every} ELSE {t + Every + d : d \in 0 .. Jitter - 1}

\* Register has run for every job at time 0.
Init ==
  /\ now = 0 /\ tick = 0 /\ wg = 0
  /\ running = [j \in Jobs |-> FALSE]
  /\ next \in {n \in [Jobs -> UNION {InitialNext(j, 0) : j \in Jobs}] :
                 \A j \in Jobs : n[j] \in InitialNext(j, 0)}
  /\ last = [j \in Jobs |-> 0] /\ finishedAt = [j \in Jobs |-> 0]
  /\ pc = [j \in Jobs |-> [k \in Slots |-> "free"]]
  /\ kind = [j \in Jobs |-> [k \in Slots |-> "tick"]]
  /\ tickOf = [j \in Jobs |-> [k \in Slots |-> 0]]
  /\ loopPc = "select" /\ mainPc = "serving"
  /\ stopClosed = FALSE /\ rootDone = FALSE /\ timedOut = FALSE /\ cut = FALSE

Alive == mainPc # "exited"

Time ==
  /\ Alive /\ now < MaxTime /\ now' = now + 1
  /\ UNCHANGED <<entryVars, execVars, loopVars, mainVars, cut>>

-----------------------------------------------------------------------------
(* Start: the tick loop *)

ReceiveTick ==
  /\ Alive /\ loopPc = "select"
  /\ loopPc' = "due" /\ tick' = now
  /\ UNCHANGED <<now, entryVars, execVars, mainVars, cut>>

LoopReturns ==
  /\ Alive /\ loopPc = "select" /\ (rootDone \/ stopClosed)
  /\ loopPc' = "returned"
  /\ UNCHANGED <<now, entryVars, execVars, tick, mainVars, cut>>

FreeSlots(j) == {k \in Slots : pc[j][k] = "free"}

\* Set running and count the execution in the WaitGroup, under mu.
Admit(js, how) ==
  /\ \A j \in js : FreeSlots(j) # {}
  /\ running' = [j \in Jobs |-> running[j] \/ j \in js]
  /\ wg' = wg + Cardinality(js)
  /\ LET Takes(j, k) == j \in js /\ k = Min(FreeSlots(j)) IN
     /\ pc' = [j \in Jobs |-> [k \in Slots |-> IF Takes(j, k) THEN "start" ELSE pc[j][k]]]
     /\ kind' = [j \in Jobs |-> [k \in Slots |-> IF Takes(j, k) THEN how ELSE kind[j][k]]]
     /\ tickOf' = [j \in Jobs |-> [k \in Slots |-> IF Takes(j, k) THEN tick ELSE tickOf[j][k]]]
  /\ UNCHANGED <<next, last, finishedAt>>

\* Fault: the loop starts nothing while any job is running.
DueWhenQuiet == {j \in Jobs : (\A i \in Jobs : ~running[i]) /\ next[j] <= tick}

Due == {j \in Jobs : ~running[j] /\ next[j] <= tick}

\* runDue
RunDue ==
  /\ Alive /\ loopPc = "due"
  /\ IF stopClosed THEN UNCHANGED <<entryVars, execVars>> ELSE Admit(Due, "tick")
  /\ loopPc' = "select" /\ tick' = 0
  /\ UNCHANGED <<now, mainVars, cut>>

\* Fault: a running job is triggered again.
TriggerUnchecked(j) ==
  /\ Alive /\ ~stopClosed
  /\ Admit({j}, "manual")
  /\ UNCHANGED <<now, loopVars, mainVars, cut>>

\* Fault: a stopped scheduler accepts triggers.
TriggerStopped(j) ==
  /\ Alive /\ ~running[j]
  /\ Admit({j}, "manual")
  /\ UNCHANGED <<now, loopVars, mainVars, cut>>

\* Trigger, up to the call of the job; refused when stopped or running.
Trigger(j) ==
  /\ Alive /\ ~stopClosed /\ ~running[j]
  /\ Admit({j}, "manual")
  /\ UNCHANGED <<now, loopVars, mainVars, cut>>

-----------------------------------------------------------------------------
(* One execution *)

Moves(j, k, from, to) == Alive /\ pc[j][k] \in from /\ pc' = [pc EXCEPT ![j][k] = to]

StillExec == UNCHANGED <<now, entryVars, kind, tickOf, wg, loopVars, mainVars>>

\* guardedJob refuses the job (root cancelled or lock lost) or enters fn.
StartBody(j, k) ==
  /\ \/ ~rootDone /\ Moves(j, k, {"start"}, "body")
     \/ Moves(j, k, {"start"}, "record")
  /\ StillExec /\ UNCHANGED cut

CallPlatform(j, k) == Moves(j, k, {"body"}, "write") /\ StillExec /\ UNCHANGED cut

Answer(j, k) == Moves(j, k, {"write"}, "body") /\ StillExec /\ UNCHANGED cut

\* context.AfterFunc(root, cancel) aborts the call in flight.
CutCall(j, k) ==
  /\ rootDone /\ Moves(j, k, {"write"}, "record")
  /\ cut' = TRUE /\ StillExec

\* safeCall returns: fn returned, panicked or ran out of its 10-minute budget.
EndBody(j, k) == Moves(j, k, {"body", "write"}, "record") /\ StillExec /\ UNCHANGED cut

\* Fault: the next run is counted from the recorded time, not from now.
RecordedFromStart(j, t) ==
  /\ last' = [last EXCEPT ![j] = t]
  /\ next' \in {[next EXCEPT ![j] = n] : n \in InitialNext(j, t)}
  /\ finishedAt' = [finishedAt EXCEPT ![j] = now]

Recorded(j, t) ==
  /\ last' = [last EXCEPT ![j] = t]
  /\ next' \in {[next EXCEPT ![j] = n] : n \in InitialNext(j, now)}
  /\ finishedAt' = [finishedAt EXCEPT ![j] = now]

\* runDue's goroutine: record and clear `running` under mu, then done.Done().
RecordScheduled(j, k) ==
  /\ kind[j][k] = "tick" /\ Moves(j, k, {"record"}, "done")
  /\ Recorded(j, tickOf[j][k])
  /\ running' = [running EXCEPT ![j] = FALSE]
  /\ UNCHANGED <<now, kind, tickOf, wg, loopVars, mainVars, cut>>

\* Trigger: record under mu; done.Done(); then clear `running` under mu.
RecordManual(j, k) ==
  /\ kind[j][k] = "manual" /\ Moves(j, k, {"record"}, "done")
  /\ Recorded(j, now)
  /\ UNCHANGED <<now, running, kind, tickOf, wg, loopVars, mainVars, cut>>

Forget(j, k) == tickOf' = [tickOf EXCEPT ![j][k] = 0] /\ kind' = [kind EXCEPT ![j][k] = "tick"]

WaitGroupDone(j, k) ==
  /\ wg' = wg - 1
  /\ IF kind[j][k] = "tick" THEN Moves(j, k, {"done"}, "free") /\ Forget(j, k)
                            ELSE Moves(j, k, {"done"}, "clear") /\ UNCHANGED <<tickOf, kind>>
  /\ UNCHANGED <<now, entryVars, loopVars, mainVars, cut>>

\* Fault: the execution ends without clearing `running`.
RunningForgotten(j, k) ==
  /\ Moves(j, k, {"clear"}, "free") /\ Forget(j, k)
  /\ UNCHANGED <<now, entryVars, wg, loopVars, mainVars, cut>>

ClearRunning(j, k) ==
  /\ Moves(j, k, {"clear"}, "free") /\ Forget(j, k)
  /\ running' = [running EXCEPT ![j] = FALSE]
  /\ UNCHANGED <<now, next, last, finishedAt, wg, loopVars, mainVars, cut>>

-----------------------------------------------------------------------------
(* Shutdown: run() in cmd/server, and Stop *)

\* stopCtx(): by the lock watcher, or by run() on a signal or a server error.
CancelRoot ==
  /\ mainPc = "serving" /\ ~rootDone
  /\ rootDone' = TRUE
  /\ UNCHANGED <<now, entryVars, execVars, loopVars, stopClosed, mainPc, timedOut, cut>>

\* Stop closes the stop channel under mu; run() has called stopCtx() before.
BeginStop ==
  /\ mainPc = "serving" /\ rootDone
  /\ stopClosed' = TRUE /\ mainPc' = "stopping"
  /\ UNCHANGED <<now, entryVars, execVars, loopVars, rootDone, timedOut, cut>>

StopClean ==
  /\ mainPc = "stopping" /\ wg = 0
  /\ mainPc' = "stopped"
  /\ UNCHANGED <<now, entryVars, execVars, loopVars, stopClosed, rootDone, timedOut, cut>>

\* Fault: Stop looks at its timer only after the executions have ended.
StopTimesOutLate ==
  /\ mainPc = "stopping" /\ wg = 0
  /\ mainPc' = "stopped" /\ timedOut' = TRUE
  /\ UNCHANGED <<now, entryVars, execVars, loopVars, stopClosed, rootDone, cut>>

StopTimesOut ==
  /\ mainPc = "stopping"
  /\ mainPc' = "stopped" /\ timedOut' = TRUE
  /\ UNCHANGED <<now, entryVars, execVars, loopVars, stopClosed, rootDone, cut>>

\* The process ends, and with it every call still in flight.
Exit ==
  /\ mainPc = "stopped" /\ mainPc' = "exited"
  /\ cut' = (cut \/ \E j \in Jobs, k \in Slots : pc[j][k] = "write")
  /\ UNCHANGED <<now, entryVars, execVars, loopVars, stopClosed, rootDone, timedOut>>

-----------------------------------------------------------------------------
Execution(j, k) ==
  \/ StartBody(j, k) \/ CallPlatform(j, k) \/ Answer(j, k) \/ CutCall(j, k) \/ EndBody(j, k)
  \/ RecordScheduled(j, k) \/ RecordManual(j, k) \/ WaitGroupDone(j, k) \/ ClearRunning(j, k)

Next ==
  \/ Time \/ ReceiveTick \/ LoopReturns \/ RunDue
  \/ \E j \in Jobs : Trigger(j) \/ \E k \in Slots : Execution(j, k)
  \/ CancelRoot \/ BeginStop \/ StopClean \/ StopTimesOut \/ Exit

Spec == Init /\ [][Next]_vars

\* The Go runtime runs every goroutine that can proceed: the tick loop, the
\* code around a job's body, run() and the 30-second timer of Stop.  Nothing is
\* assumed of the job bodies, which may hang in a platform call.
Fairness ==
  /\ WF_vars(ReceiveTick \/ RunDue)
  /\ WF_vars(BeginStop \/ StopClean \/ StopTimesOut \/ Exit)
  /\ \A j \in Jobs, k \in Slots :
       WF_vars(\/ StartBody(j, k) \/ RecordScheduled(j, k) \/ RecordManual(j, k)
               \/ WaitGroupDone(j, k) \/ ClearRunning(j, k))

FairSpec == Spec /\ Fairness

-----------------------------------------------------------------------------
(* Properties *)

InBody(j, k) == pc[j][k] \in {"start", "body", "write"}

\* A job is never executed twice at once, by two ticks, two triggers or one of
\* each, although the two kinds of execution clear `running` and leave the
\* WaitGroup in opposite orders.
NoOverlap ==
  \A j \in Jobs, k, m \in Slots : InBody(j, k) /\ InBody(j, m) => k = m

\* When Stop returns without having timed out, no job body is executing and
\* none starts afterwards: every admission is counted before Stop can wait.
CleanStopIsQuiet ==
  mainPc \in {"stopped", "exited"} /\ ~timedOut =>
    \A j \in Jobs, k \in Slots : ~InBody(j, k)

\* A scheduled execution starts no earlier than one interval (or the next
\* daily slot) after the previous execution, scheduled or manual, finished,
\* even when the tick it acts on is old.
Paced ==
  [][\A j \in Jobs, k \in Slots :
       pc[j][k] = "free" /\ pc'[j][k] = "start" /\ kind'[j][k] = "tick" =>
         IF j \in Daily THEN \E n \in finishedAt[j] + 1 .. now : n % Day = At
                        ELSE now >= finishedAt[j] + Every]_vars

\* Shutdown cannot hang: once Stop is called the process ends, whatever the job
\* bodies do.
ShutdownEnds == stopClosed ~> mainPc = "exited"

BodiesEnd == \A j \in Jobs, k \in Slots : WF_vars(EndBody(j, k))

\* If every job body ends (the 10-minute budget), no job is left marked running
\* while the process lives: its schedule is never silently dead.
RunningClears == BodiesEnd => \A j \in Jobs : running[j] ~> (~running[j] \/ ~Alive)

\* A due job is started while the process is up, even if other jobs' bodies hang
\* and panel triggers keep coming.
DueJobsStart == \A j \in Jobs : next[j] <= now ~> (running[j] \/ rootDone)

\* Stop's comment: "a platform write cut mid-shutdown is impossible".
NoWriteCutAtShutdown == ~cut
=============================================================================
