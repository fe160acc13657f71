------------------------ MODULE InstanceGuardProofs ------------------------
(***************************************************************************)
(* For every number of processes and jobs: jobs of two processes never run *)
(* at once unless a session died under a running process or a Stop timed   *)
(* out, and a job passes its entry check only while its own process holds  *)
(* the lock.                                                               *)
(***************************************************************************)
EXTENDS InstanceGuard, TLAPS

-----------------------------------------------------------------------------
(* The inductive invariant *)

\* The lock belongs to a live session, and a live session has the lock.
LiveSessionHolds == \A p \in Procs : conn[p] = "live" <=> holder = p

\* A process that met no fault keeps its session until Close.
SessionKept ==
  \A p \in Procs : p \notin faulty /\ main[p] \in {"up", "stopping"} => conn[p] = "live"

\* Such a process has no job left when Stop has returned; one that is down has
\* none at all.
JobsEnded ==
  \A p \in Procs :
    \/ job[p] = AllIdle
    \/ main[p] \in {"up", "stopping"}
    \/ p \in faulty /\ main[p] # "down"

GInv == TypeOK /\ LiveSessionHolds /\ SessionKept /\ JobsEnded

-----------------------------------------------------------------------------
\* The initial state satisfies the invariant.
LEMMA GInvInit == Init => GInv
BY NoProcAssumption
   DEF Init, GInv, TypeOK, LiveSessionHolds, SessionKept, JobsEnded, AllIdle

\* Every step keeps the invariant.
LEMMA GInvStep == GInv /\ [Next]_vars => GInv'
<1> SUFFICES ASSUME GInv, [Next]_vars PROVE GInv'
  OBVIOUS
<1> USE NoProcAssumption DEF GInv
<1>1. ASSUME NEW p \in Procs, Boot(p) PROVE GInv'
  <2>1. TypeOK'
    BY <1>1 DEF Boot, TypeOK
  <2>2. LiveSessionHolds'
    BY <1>1 DEF Boot, TypeOK, LiveSessionHolds
  <2>3. SessionKept' /\ JobsEnded'
    BY <1>1 DEF Boot, TypeOK, SessionKept, JobsEnded, AllIdle
  <2> QED
    BY <2>1, <2>2, <2>3
<1>2. ASSUME NEW p \in Procs, SessionDies(p) PROVE GInv'
  <2>1. TypeOK'
    BY <1>2 DEF SessionDies, Released, TypeOK
  <2>2. LiveSessionHolds'
    BY <1>2 DEF SessionDies, Released, TypeOK, LiveSessionHolds
  <2>3. SessionKept'
    BY <1>2 DEF SessionDies, TypeOK, SessionKept
  <2>4. JobsEnded'
    BY <1>2 DEF SessionDies, TypeOK, JobsEnded, AllIdle
  <2> QED
    BY <2>1, <2>2, <2>3, <2>4
<1>3. ASSUME NEW p \in Procs, WatchNoticesLoss(p) PROVE GInv'
  BY <1>3 DEF WatchNoticesLoss, CheckFails, TypeOK, LiveSessionHolds, SessionKept, JobsEnded, AllIdle
<1>4. ASSUME NEW p \in Procs, Shutdown(p) PROVE GInv'
  BY <1>4 DEF Shutdown, TypeOK, LiveSessionHolds, SessionKept, JobsEnded, AllIdle
<1>5. ASSUME NEW p \in Procs, StopReturns(p) PROVE GInv'
  <2>1. TypeOK' /\ LiveSessionHolds' /\ SessionKept'
    BY <1>5 DEF StopReturns, TypeOK, LiveSessionHolds, SessionKept
  <2>2. JobsEnded'
    BY <1>5 DEF StopReturns, TypeOK, JobsEnded, AllIdle
  <2> QED
    BY <2>1, <2>2
<1>6. ASSUME NEW p \in Procs, Close(p) PROVE GInv'
  <2>1. TypeOK'
    BY <1>6 DEF Close, Released, TypeOK
  <2>2. LiveSessionHolds'
    BY <1>6 DEF Close, Released, TypeOK, LiveSessionHolds
  <2>3. SessionKept' /\ JobsEnded'
    BY <1>6 DEF Close, TypeOK, SessionKept, JobsEnded, AllIdle
  <2> QED
    BY <2>1, <2>2, <2>3
<1>7. ASSUME NEW p \in Procs, Exit(p) PROVE GInv'
  BY <1>7 DEF Exit, TypeOK, LiveSessionHolds, SessionKept, JobsEnded, AllIdle
<1>8. ASSUME NEW p \in Procs, Crash(p) PROVE GInv'
  <2>1. TypeOK' /\ LiveSessionHolds' /\ SessionKept'
    BY <1>8 DEF Crash, TypeOK, LiveSessionHolds, SessionKept, AllIdle
  <2>2. JobsEnded'
    BY <1>8 DEF Crash, TypeOK, JobsEnded, AllIdle
  <2> QED
    BY <2>1, <2>2
<1>9. ASSUME NEW p \in Procs, NEW j \in Jobs, EnterJob(p, j) PROVE GInv'
  <2>1. lost' \in [Procs -> BOOLEAN]
    <3>1. lost \in [Procs -> BOOLEAN]
      BY DEF TypeOK
    <3>2. lost' = lost \/ lost' = [lost EXCEPT ![p] = TRUE]
      BY <1>9 DEF EnterJob, CheckFails
    <3> QED
      BY <3>1, <3>2, Zenon
  <2>2. job' \in [Procs -> [Jobs -> {"idle", "checked", "body"}]]
    <3>1. job' = job \/ job' = [job EXCEPT ![p][j] = "checked"]
      BY <1>9 DEF EnterJob
    <3> QED
      BY <3>1 DEF TypeOK
  <2>3. TypeOK'
    BY <1>9, <2>1, <2>2 DEF EnterJob, TypeOK
  <2>4. LiveSessionHolds' /\ SessionKept'
    BY <1>9 DEF EnterJob, LiveSessionHolds, SessionKept
  <2>5. JobsEnded'
    <3>1. \A q \in Procs : q = p \/ job'[q] = job[q]
      BY <1>9 DEF EnterJob, TypeOK
    <3> QED
      BY <1>9, <3>1 DEF EnterJob, JobsEnded, AllIdle
  <2> QED
    BY <2>3, <2>4, <2>5
<1>10. ASSUME NEW p \in Procs, NEW j \in Jobs, RunBody(p, j) PROVE GInv'
  BY <1>10 DEF RunBody, TypeOK, LiveSessionHolds, SessionKept, JobsEnded, AllIdle
<1>11. ASSUME NEW p \in Procs, NEW j \in Jobs, EndBody(p, j) PROVE GInv'
  BY <1>11 DEF EndBody, TypeOK, LiveSessionHolds, SessionKept, JobsEnded, AllIdle
<1>12. CASE UNCHANGED vars
  BY <1>12 DEF vars, TypeOK, LiveSessionHolds, SessionKept, JobsEnded, AllIdle
<1> QED
  BY <1>1, <1>2, <1>3, <1>4, <1>5, <1>6, <1>7, <1>8, <1>9, <1>10, <1>11, <1>12 DEF Next

\* The inductive invariant holds throughout.
THEOREM GInvAlways == Spec => []GInv
BY GInvInit, GInvStep, PTL DEF Spec

\* Locks, contexts and jobs keep their types.
THEOREM GuardTypeCorrect == Spec => []TypeOK
<1>1. GInv => TypeOK
  BY DEF GInv
<1> QED
  BY <1>1, GInvAlways, PTL

-----------------------------------------------------------------------------
\* AcquireInstanceLock and InstanceLock.Close around Scheduler.Stop: without a
\* session that dies under a running process and without a Stop that times out,
\* jobs of two processes never run at once.
THEOREM OneProcessWorks == Spec => []ExclusiveWithoutFaults
<1>1. GInv => ExclusiveWithoutFaults
  <2> SUFFICES ASSUME GInv, faulty = {}, NEW p \in Procs, NEW q \in Procs, InBody(p), InBody(q)
               PROVE  p = q
    BY DEF ExclusiveWithoutFaults, Overlap
  <2>1. job[p] # AllIdle /\ job[q] # AllIdle
    BY DEF InBody, AllIdle
  <2>2. conn[p] = "live" /\ conn[q] = "live"
    BY <2>1 DEF GInv, JobsEnded, SessionKept
  <2> QED
    BY <2>2 DEF GInv, LiveSessionHolds
<1> QED
  BY <1>1, GInvAlways, PTL

\* guardedJob with InstanceLock.Check: a job gets past its entry check only in a
\* step at which its own process holds the lock and has noticed no loss.
THEOREM ChecksAreTruthful == Spec => EntryHoldsLock
<1>1. GInv /\ [Next]_vars =>
        [\A p \in Procs, j \in Jobs :
           job[p][j] = "idle" /\ job'[p][j] = "checked" => holder = p /\ ~lost[p]]_vars
  <2> SUFFICES ASSUME GInv, Next, NEW p \in Procs, NEW j \in Jobs,
                      job[p][j] = "idle", job'[p][j] = "checked"
               PROVE  holder = p /\ ~lost[p]
    OBVIOUS
  <2>1. ASSUME NEW q \in Procs, NEW i \in Jobs, EnterJob(q, i)
        PROVE  CheckPasses(p)
    <3>1. CASE UNCHANGED job
      BY <3>1
    <3>2. CASE CheckPasses(q) /\ job' = [job EXCEPT ![q][i] = "checked"]
      BY <3>2 DEF GInv, TypeOK
    <3> QED
      BY <2>1, <3>1, <3>2 DEF EnterJob
  <2>2. ASSUME NEW q \in Procs, NEW i \in Jobs, RunBody(q, i) \/ EndBody(q, i)
        PROVE  FALSE
    BY <2>2 DEF RunBody, EndBody, GInv, TypeOK
  <2>3. ASSUME NEW q \in Procs, Exit(q) \/ Crash(q)
        PROVE  FALSE
    BY <2>3 DEF Exit, Crash, AllIdle, GInv, TypeOK
  <2>4. ASSUME NEW q \in Procs,
               Boot(q) \/ SessionDies(q) \/ WatchNoticesLoss(q) \/ Shutdown(q)
               \/ StopReturns(q) \/ Close(q)
        PROVE  FALSE
    BY <2>4 DEF Boot, SessionDies, WatchNoticesLoss, Shutdown, StopReturns, Close
  <2>5. CheckPasses(p)
    BY <2>1, <2>2, <2>3, <2>4 DEF Next
  <2> QED
    BY <2>5 DEF CheckPasses, GInv, LiveSessionHolds
<1> QED
  BY <1>1, GInvAlways, PTL DEF Spec, EntryHoldsLock
=============================================================================
