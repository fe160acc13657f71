---------------------------- MODULE InstanceGuard ----------------------------
(***************************************************************************)
(* store.InstanceLock and the life of the server processes that share one  *)
(* database: a process takes a session-level advisory lock at start, every *)
(* job checks it on entry, a watcher checks it every second, and losing it *)
(* cancels the root context and ends the process.  The lock belongs to the *)
(* database session: it is gone when the session dies, whatever the        *)
(* process believes.                                                       *)
(***************************************************************************)
EXTENDS Naturals

CONSTANTS
  Procs,   \* server processes on the same database
  NoProc,  \* nobody holds the lock
  Jobs     \* job executions of one process

ASSUME NoProcAssumption == NoProc \notin Procs

VARIABLES
  holder,  \* whose session holds instanceLockKey
  conn,    \* InstanceLock.conn: "none", "live", "dead" (session gone)
  lost,    \* InstanceLock.lost
  root,    \* rootCtx is cancelled
  main,    \* run(): "down", "up", "stopping", "closing", "closed"
  job,     \* job[p][j]: "idle", "checked" (entry check passed), "body"
  faulty   \* history: processes whose session died or whose Stop timed out

vars == <<holder, conn, lost, root, main, job, faulty>>

TypeOK ==
  /\ holder \in Procs \cup {NoProc}
  /\ conn \in [Procs -> {"none", "live", "dead"}]
  /\ lost \in [Procs -> BOOLEAN] /\ root \in [Procs -> BOOLEAN]
  /\ main \in [Procs -> {"down", "up", "stopping", "closing", "closed"}]
  /\ job \in [Procs -> [Jobs -> {"idle", "checked", "body"}]]
  /\ faulty \subseteq Procs

AllIdle == [j \in Jobs |-> "idle"]

Init ==
  /\ holder = NoProc
  /\ conn = [p \in Procs |-> "none"]
  /\ lost = [p \in Procs |-> FALSE] /\ root = [p \in Procs |-> FALSE]
  /\ main = [p \in Procs |-> "down"]
  /\ job = [p \in Procs |-> AllIdle]
  /\ faulty = {}

Released(p) == IF holder = p THEN NoProc ELSE holder

-----------------------------------------------------------------------------
\* AcquireInstanceLock; a process that does not get the lock exits at once.
Boot(p) ==
  /\ main[p] = "down" /\ conn[p] = "none" /\ holder = NoProc
  /\ holder' = p
  /\ conn' = [conn EXCEPT ![p] = "live"]
  /\ lost' = [lost EXCEPT ![p] = FALSE] /\ root' = [root EXCEPT ![p] = FALSE]
  /\ main' = [main EXCEPT ![p] = "up"]
  /\ UNCHANGED <<job, faulty>>

\* The session ends on the server: failover, partition, killed backend.  The
\* session of a crashed process ends this way too.
SessionDies(p) ==
  /\ conn[p] = "live"
  /\ conn' = [conn EXCEPT ![p] = IF main[p] = "down" THEN "none" ELSE "dead"]
  /\ holder' = Released(p)
  /\ faulty' = IF main[p] = "down" THEN faulty ELSE faulty \cup {p}
  /\ UNCHANGED <<lost, root, main, job>>

\* Fault: the check is content with a lock some session holds.
CheckPassesAnySession(p) == ~lost[p] /\ holder # NoProc

\* InstanceLock.Check asks the session that took the lock.
CheckPasses(p) == ~lost[p] /\ conn[p] = "live"

\* It fails when the lock is gone, and also when the query errs or exceeds its
\* three seconds; either way `lost` is set for good.
CheckFails(p) == lost' = [lost EXCEPT ![p] = TRUE]

\* guardedJob: entry checks, then fn.
EnterJob(p, j) ==
  /\ main[p] = "up" /\ job[p][j] = "idle" /\ ~root[p]
  /\ \/ /\ CheckPasses(p)
        /\ job' = [job EXCEPT ![p][j] = "checked"] /\ UNCHANGED lost
     \/ CheckFails(p) /\ UNCHANGED job
  /\ UNCHANGED <<holder, conn, root, main, faulty>>

RunBody(p, j) ==
  /\ job[p][j] = "checked"
  /\ job' = [job EXCEPT ![p][j] = "body"]
  /\ UNCHANGED <<holder, conn, lost, root, main, faulty>>

EndBody(p, j) ==
  /\ job[p][j] = "body"
  /\ job' = [job EXCEPT ![p][j] = "idle"]
  /\ UNCHANGED <<holder, conn, lost, root, main, faulty>>

\* Fault: the watcher acts only on a loss it is the first to notice.
WatchActsOnFirstLoss(p) ==
  /\ main[p] = "up" /\ ~root[p] /\ ~lost[p]
  /\ CheckFails(p)
  /\ root' = [root EXCEPT ![p] = TRUE]
  /\ UNCHANGED <<holder, conn, main, job, faulty>>

\* Watch: a failed check makes the watcher cancel the root context.
WatchNoticesLoss(p) ==
  /\ main[p] = "up" /\ ~root[p]
  /\ CheckFails(p)
  /\ root' = [root EXCEPT ![p] = TRUE]
  /\ UNCHANGED <<holder, conn, main, job, faulty>>

-----------------------------------------------------------------------------
\* Fault: the lock is given back before the jobs are waited for.
ShutdownUnlocksFirst(p) ==
  /\ main[p] = "up"
  /\ root' = [root EXCEPT ![p] = TRUE]
  /\ main' = [main EXCEPT ![p] = "stopping"]
  /\ holder' = Released(p) /\ conn' = [conn EXCEPT ![p] = "none"]
  /\ UNCHANGED <<lost, job, faulty>>

\* run(): a signal, a server error or the watcher's error ends serving.
Shutdown(p) ==
  /\ main[p] = "up"
  /\ root' = [root EXCEPT ![p] = TRUE]
  /\ main' = [main EXCEPT ![p] = "stopping"]
  /\ UNCHANGED <<holder, conn, lost, job, faulty>>

\* Scheduler.Stop: every execution has ended, or 30 seconds have passed.
StopReturns(p) ==
  /\ main[p] = "stopping"
  /\ main' = [main EXCEPT ![p] = "closing"]
  /\ faulty' = IF job[p] = AllIdle THEN faulty ELSE faulty \cup {p}
  /\ UNCHANGED <<holder, conn, lost, root, job>>

\* InstanceLock.Close, deferred in run(): unlock and give the connection back.
Close(p) ==
  /\ main[p] = "closing"
  /\ main' = [main EXCEPT ![p] = "closed"]
  /\ holder' = Released(p)
  /\ conn' = [conn EXCEPT ![p] = "none"]
  /\ lost' = [lost EXCEPT ![p] = TRUE]
  /\ UNCHANGED <<root, job, faulty>>

\* The process ends: its goroutines are gone.
Exit(p) ==
  /\ main[p] = "closed"
  /\ main' = [main EXCEPT ![p] = "down"]
  /\ job' = [job EXCEPT ![p] = AllIdle]
  /\ UNCHANGED <<holder, conn, lost, root, faulty>>

\* Killed without unlocking: a live session lingers until the server ends it.
Crash(p) ==
  /\ main[p] # "down"
  /\ main' = [main EXCEPT ![p] = "down"]
  /\ job' = [job EXCEPT ![p] = AllIdle]
  /\ conn' = [conn EXCEPT ![p] = IF @ = "live" THEN "live" ELSE "none"]
  /\ UNCHANGED <<holder, lost, root, faulty>>

-----------------------------------------------------------------------------
Next ==
  \E p \in Procs :
    \/ Boot(p) \/ SessionDies(p) \/ WatchNoticesLoss(p)
    \/ Shutdown(p) \/ StopReturns(p) \/ Close(p) \/ Exit(p) \/ Crash(p)
    \/ \E j \in Jobs : EnterJob(p, j) \/ RunBody(p, j) \/ EndBody(p, j)

Spec == Init /\ [][Next]_vars

\* The watcher ticks every second, and a dead session, or a loss some job has
\* noticed, cannot pass its check;
\* run() reacts to the cancelled context; Stop is bounded; a job body ends.
Fairness ==
  \A p \in Procs :
    /\ WF_vars(~CheckPasses(p) /\ WatchNoticesLoss(p))
    /\ WF_vars((root[p] /\ Shutdown(p)) \/ StopReturns(p) \/ Close(p) \/ Exit(p))
    /\ \A j \in Jobs : WF_vars(RunBody(p, j) \/ EndBody(p, j))

-----------------------------------------------------------------------------
(* Properties *)

InBody(p) == \E j \in Jobs : job[p][j] = "body"
Overlap   == \E p, q \in Procs : p # q /\ InBody(p) /\ InBody(q)

\* As long as no session died under a running process and no Stop timed out,
\* jobs of two processes never run at once, through any number of starts,
\* shutdowns and crashes: the lock outlives every job it was taken for.
ExclusiveWithoutFaults == faulty = {} => ~Overlap

\* A job gets past its entry check only if, at that instant, the process's own
\* session holds the lock; a process that has noticed a loss lets no job in
\* again before it restarts.
EntryHoldsLock ==
  [][\A p \in Procs, j \in Jobs :
       job[p][j] = "idle" /\ job'[p][j] = "checked" => holder = p /\ ~lost[p]]_vars

\* Two processes working at once is a transient: the stale one ends its jobs.
OverlapEnds == Overlap ~> ~Overlap

\* A process that has noticed a loss, real or spurious (a slow check), in the
\* watcher or in a job's entry check, gives the lock back, so that a successor
\* can start.
NoticedLossFreesLock ==
  \A p \in Procs : (lost[p] /\ main[p] = "up") ~> (holder # p \/ main[p] = "down")
=============================================================================
