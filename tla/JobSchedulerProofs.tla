------------------------- MODULE JobSchedulerProofs -------------------------
(***************************************************************************)
(* For every set of jobs, intervals, daily slots, jitter and number of     *)
(* goroutines: a job is never executed twice at once, never earlier than   *)
(* its interval or slot allows, and not at all after a clean Stop.         *)
(***************************************************************************)
EXTENDS JobScheduler, FiniteSetTheorems, TLAPS

-----------------------------------------------------------------------------
(* The inductive invariant *)

\* The part of the type invariant the argument needs.
ExecType ==
  /\ running \in [Jobs -> BOOLEAN]
  /\ pc \in [Jobs -> [Slots -> Steps]]
  /\ kind \in [Jobs -> [Slots -> {"tick", "manual"}]]

\* Executions that have not cleared `running` yet: a manual one clears it only
\* after it has left the WaitGroup.
Holding(j, k) ==
  \/ pc[j][k] \in {"start", "body", "write", "record", "clear"}
  \/ kind[j][k] = "manual" /\ pc[j][k] = "done"

\* `running` stays set as long as an execution has it to clear.
HoldersMarked == \A j \in Jobs, k \in Slots : Holding(j, k) => running[j]

\* No execution clears the mark of another one.
OneHolder == \A j \in Jobs, k, m \in Slots : Holding(j, k) /\ Holding(j, m) => k = m

NInv == ExecType /\ HoldersMarked /\ OneHolder

-----------------------------------------------------------------------------
\* The initial state satisfies the invariant.
LEMMA NInvInit == Init => NInv
BY DEF Init, NInv, ExecType, HoldersMarked, OneHolder, Holding, Steps

\* Admitting jobs that are not marked running, each in one free goroutine.
LEMMA AdmitStep ==
  ASSUME NInv, NEW js \in SUBSET Jobs, \A j \in js : ~running[j],
         NEW how \in {"tick", "manual"}, Admit(js, how)
  PROVE  NInv'
<1> DEFINE Takes(j, k) == j \in js /\ k = Min(FreeSlots(j))
<1>1. /\ running' = [j \in Jobs |-> running[j] \/ j \in js]
      /\ pc' = [j \in Jobs |-> [k \in Slots |-> IF Takes(j, k) THEN "start" ELSE pc[j][k]]]
      /\ kind' = [j \in Jobs |-> [k \in Slots |-> IF Takes(j, k) THEN how ELSE kind[j][k]]]
  BY DEF Admit
<1> HIDE DEF Takes
<1>2. ExecType'
  BY <1>1 DEF NInv, ExecType, Steps
<1>3. \A j \in Jobs, k \in Slots : Holding(j, k)' => Takes(j, k) \/ (~Takes(j, k) /\ Holding(j, k))
  BY <1>1 DEF Holding
<1>4. \A j \in Jobs, k \in Slots : Takes(j, k) => j \in js
  BY DEF Takes
<1>5. HoldersMarked'
  BY <1>1, <1>3, <1>4 DEF NInv, HoldersMarked
<1>6. OneHolder'
  <2> SUFFICES ASSUME NEW j \in Jobs, NEW k \in Slots, NEW m \in Slots,
                      Holding(j, k)', Holding(j, m)'
               PROVE  k = m
    BY DEF OneHolder
  <2>1. CASE j \in js
    <3>1. ~Holding(j, k) /\ ~Holding(j, m)
      BY <2>1 DEF NInv, HoldersMarked
    <3>2. Takes(j, k) /\ Takes(j, m)
      BY <1>3, <3>1
    <3> QED
      BY <3>2 DEF Takes
  <2>2. CASE j \notin js
    BY <1>3, <1>4, <2>2 DEF NInv, OneHolder
  <2> QED
    BY <2>1, <2>2
<1> QED
  BY <1>2, <1>5, <1>6 DEF NInv

\* An execution that moves on without leaving `running` behind: the mark and
\* the kinds are as they were and nobody new holds the mark.
LEMMA MoveStep ==
  ASSUME NInv, NEW j \in Jobs, NEW k \in Slots, NEW from, NEW to \in Steps,
         Moves(j, k, from, to), UNCHANGED <<running, kind>>,
         \A s \in from : \/ s \in {"start", "body", "write", "record", "clear"}
                         \/ kind[j][k] = "manual" /\ s = "done"
  PROVE  NInv'
<1>1. pc' = [pc EXCEPT ![j][k] = to] /\ Holding(j, k)
  BY DEF Moves, Holding
<1>2. ExecType'
  BY <1>1 DEF NInv, ExecType
<1>3. \A i \in Jobs, m \in Slots : Holding(i, m)' => Holding(i, m)
  BY <1>1 DEF Holding, NInv, ExecType
<1> QED
  BY <1>2, <1>3 DEF NInv, HoldersMarked, OneHolder

\* An execution that leaves the mark, and clears it or had cleared it before.
LEMMA LeaveStep ==
  ASSUME NInv, NEW j \in Jobs, NEW k \in Slots, NEW to \in Steps,
         pc' = [pc EXCEPT ![j][k] = to], ExecType',
         \A i \in Jobs, m \in Slots : (i # j \/ m # k) => kind'[i][m] = kind[i][m],
         ~Holding(j, k)',
         \/ running' = running
         \/ Holding(j, k) /\ running' = [running EXCEPT ![j] = FALSE]
  PROVE  NInv'
<1>1. \A i \in Jobs, m \in Slots : (i # j \/ m # k) => (Holding(i, m)' <=> Holding(i, m))
  BY DEF Holding, NInv, ExecType
<1>2. \A i \in Jobs, m \in Slots : Holding(i, m)' => Holding(i, m)
  BY <1>1
<1>3. OneHolder'
  BY <1>2 DEF NInv, OneHolder
<1>4. HoldersMarked'
  <2>1. CASE running' = running
    BY <1>2, <2>1 DEF NInv, HoldersMarked
  <2>2. CASE Holding(j, k) /\ running' = [running EXCEPT ![j] = FALSE]
    <3>1. \A m \in Slots : ~Holding(j, m)'
      BY <1>2, <2>2 DEF NInv, OneHolder
    <3>2. \A i \in Jobs : i # j => running'[i] = running[i]
      BY <2>2 DEF NInv, ExecType
    <3> QED
      BY <1>2, <3>1, <3>2 DEF NInv, HoldersMarked
  <2> QED
    BY <2>1, <2>2
<1> QED
  BY <1>3, <1>4 DEF NInv

\* Every step keeps the invariant.
LEMMA NInvStep == NInv /\ [Next]_vars => NInv'
<1> SUFFICES ASSUME NInv, [Next]_vars PROVE NInv'
  OBVIOUS
<1>1. CASE UNCHANGED <<running, pc, kind>>
  BY <1>1 DEF NInv, ExecType, HoldersMarked, OneHolder, Holding
<1>2. CASE Time \/ ReceiveTick \/ LoopReturns \/ CancelRoot \/ BeginStop \/ StopClean \/ StopTimesOut \/ Exit
  BY <1>1, <1>2 DEF Time, ReceiveTick, LoopReturns, CancelRoot, BeginStop, StopClean, StopTimesOut,
                    Exit, entryVars, execVars
<1>3. CASE RunDue
  <2>1. CASE Admit(Due, "tick")
    BY <2>1, AdmitStep DEF Due
  <2>2. CASE UNCHANGED <<entryVars, execVars>>
    BY <1>1, <2>2 DEF entryVars, execVars
  <2> QED
    BY <1>3, <2>1, <2>2 DEF RunDue
<1>4. ASSUME NEW j \in Jobs, Trigger(j) PROVE NInv'
  <2>1. Admit({j}, "manual") /\ \A i \in {j} : ~running[i]
    BY <1>4 DEF Trigger
  <2> QED
    BY <2>1, AdmitStep
<1>5. ASSUME NEW j \in Jobs, NEW k \in Slots, Execution(j, k) PROVE NInv'
  <2>1. CASE StartBody(j, k) \/ CallPlatform(j, k) \/ Answer(j, k) \/ CutCall(j, k) \/ EndBody(j, k)
    <3>1. UNCHANGED <<running, kind>>
      BY <2>1 DEF StartBody, CallPlatform, Answer, CutCall, EndBody, StillExec, entryVars
    <3>2. \/ Moves(j, k, {"start"}, "body") \/ Moves(j, k, {"start"}, "record")
          \/ Moves(j, k, {"body"}, "write") \/ Moves(j, k, {"write"}, "body")
          \/ Moves(j, k, {"write"}, "record") \/ Moves(j, k, {"body", "write"}, "record")
      BY <2>1 DEF StartBody, CallPlatform, Answer, CutCall, EndBody
    <3>3. PICK from \in SUBSET {"start", "body", "write"}, to \in Steps : Moves(j, k, from, to)
      BY <3>2 DEF Steps
    <3>4. \A s \in from : s \in {"start", "body", "write", "record", "clear"}
      BY <3>3
    <3> QED
      BY <3>1, <3>3, <3>4, MoveStep
  <2>2. CASE RecordManual(j, k)
    <3>1. Moves(j, k, {"record"}, "done") /\ UNCHANGED <<running, kind>>
      BY <2>2 DEF RecordManual
    <3>2. "done" \in Steps
      BY DEF Steps
    <3> QED
      BY <3>1, <3>2, MoveStep
  <2>3. CASE RecordScheduled(j, k)
    <3>1. /\ pc' = [pc EXCEPT ![j][k] = "done"] /\ kind' = kind /\ kind[j][k] = "tick"
          /\ pc[j][k] = "record" /\ running' = [running EXCEPT ![j] = FALSE]
      BY <2>3 DEF RecordScheduled, Moves
    <3>2. pc' \in [Jobs -> [Slots -> Steps]] /\ kind' \in [Jobs -> [Slots -> {"tick", "manual"}]]
      BY <3>1 DEF NInv, ExecType, Steps
    <3>3. running' \in [Jobs -> BOOLEAN]
      BY <3>1, Zenon DEF NInv, ExecType
    <3>4. Holding(j, k) /\ ~Holding(j, k)'
      BY <3>1 DEF Holding, NInv, ExecType
    <3> QED
      BY <3>1, <3>2, <3>3, <3>4, LeaveStep DEF ExecType, Steps
  <2>4. CASE WaitGroupDone(j, k) /\ kind[j][k] = "tick"
    <3>1. /\ pc' = [pc EXCEPT ![j][k] = "free"] /\ kind' = [kind EXCEPT ![j][k] = "tick"]
          /\ running' = running
      BY <2>4 DEF WaitGroupDone, Moves, Forget, entryVars
    <3>2. ExecType' /\ ~Holding(j, k)'
      BY <3>1 DEF NInv, ExecType, Steps, Holding
    <3>3. \A i \in Jobs, m \in Slots : (i # j \/ m # k) => kind'[i][m] = kind[i][m]
      BY <3>1 DEF NInv, ExecType
    <3> QED
      BY <3>1, <3>2, <3>3, LeaveStep DEF Steps
  <2>5. CASE WaitGroupDone(j, k) /\ kind[j][k] # "tick"
    <3>1. kind[j][k] = "manual"
      BY <2>5 DEF NInv, ExecType
    <3>2. Moves(j, k, {"done"}, "clear") /\ UNCHANGED <<running, kind>>
      BY <2>5 DEF WaitGroupDone, entryVars
    <3> QED
      BY <3>1, <3>2, MoveStep DEF Steps
  <2>6. CASE ClearRunning(j, k)
    <3>1. /\ pc' = [pc EXCEPT ![j][k] = "free"] /\ kind' = [kind EXCEPT ![j][k] = "tick"]
          /\ pc[j][k] = "clear" /\ running' = [running EXCEPT ![j] = FALSE]
      BY <2>6 DEF ClearRunning, Moves, Forget
    <3>2. pc' \in [Jobs -> [Slots -> Steps]] /\ kind' \in [Jobs -> [Slots -> {"tick", "manual"}]]
      BY <3>1 DEF NInv, ExecType, Steps
    <3>3. running' \in [Jobs -> BOOLEAN]
      BY <3>1, Zenon DEF NInv, ExecType
    <3>4. Holding(j, k) /\ ~Holding(j, k)'
      BY <3>1 DEF Holding, NInv, ExecType
    <3>5. \A i \in Jobs, m \in Slots : (i # j \/ m # k) => kind'[i][m] = kind[i][m]
      BY <3>1 DEF NInv, ExecType
    <3>6. ExecType' /\ "free" \in Steps
      BY <3>2, <3>3 DEF ExecType, Steps
    <3> QED
      BY <3>1, <3>4, <3>5, <3>6, LeaveStep
  <2> QED
    BY <1>5, <2>1, <2>2, <2>3, <2>4, <2>5, <2>6 DEF Execution
<1> QED
  BY <1>1, <1>2, <1>3, <1>4, <1>5 DEF Next, vars, entryVars, execVars

\* The inductive invariant holds throughout.
THEOREM NInvAlways == Spec => []NInv
BY NInvInit, NInvStep, PTL DEF Spec

\* runDue and Trigger: a job is never executed twice at once.
THEOREM OneExecutionPerJob == Spec => []NoOverlap
<1>1. NInv => NoOverlap
  BY DEF NInv, OneHolder, Holding, NoOverlap, InBody
<1> QED
  BY <1>1, NInvAlways, PTL

-----------------------------------------------------------------------------
(* initialNext: the next instant of a daily job exists *)

\* The remainder of a sum of a multiple and a small number.
LEMMA ModOfSum ==
  ASSUME NEW d \in Nat \ {0}, NEW a \in 0 .. d - 1, NEW q \in Int
  PROVE  (d * q + a) % d = a
OBVIOUS

\* Division with remainder.
LEMMA DivisionOf ==
  ASSUME NEW d \in Nat \ {0}, NEW u \in Int
  PROVE  \E q \in Int, r \in 0 .. d - 1 : u = d * q + r
<1>1. u = d * (u \div d) + (u % d) /\ u % d \in 0 .. d - 1 /\ u \div d \in Int
  OBVIOUS
<1> QED
  BY <1>1

\* Among Day instants in a row one is the daily slot.
LEMMA SlotWithinDay == \A t \in Nat : \E n \in t + 1 .. t + Day : n % Day = At
<1> SUFFICES ASSUME NEW t \in Nat PROVE \E n \in t + 1 .. t + Day : n % Day = At
  OBVIOUS
<1>0. Day \in Nat \ {0} /\ At \in 0 .. Day - 1
  BY ConfigAssumption
<1>1. t - At \in Int
  BY <1>0
<1>2. PICK q \in Int, r \in 0 .. Day - 1 : t - At = Day * q + r
  BY <1>0, <1>1, DivisionOf
<1>3. q + 1 \in Int
  OBVIOUS
<1>4. (Day * (q + 1) + At) % Day = At
  BY <1>0, <1>3, ModOfSum
<1>5. Day * (q + 1) = Day * q + Day /\ Day * q \in Int
  BY <1>0
<1>6. Day * (q + 1) + At \in t + 1 .. t + Day
  BY <1>0, <1>2, <1>5
<1> QED
  BY <1>4, <1>6

\* initialNext: at least one interval, or the next daily slot.
LEMMA InitialNextIsLater ==
  ASSUME NEW j \in Jobs, NEW t \in Nat, NEW n \in InitialNext(j, t)
  PROVE  n \in Nat /\ IF j \in Daily THEN n > t /\ n % Day = At ELSE n >= t + Every
<1>1. CASE j \in Daily
  <2>1. n = CHOOSE m \in t + 1 .. t + Day : m % Day = At
    BY <1>1 DEF InitialNext
  <2>2. n \in t + 1 .. t + Day /\ n % Day = At
    BY <2>1, SlotWithinDay
  <2>3. n \in Nat /\ n > t
    BY <2>2, ConfigAssumption
  <2> QED
    BY <1>1, <2>2, <2>3
<1>2. CASE j \notin Daily
  <2>1. n = t + Every \/ \E d \in 0 .. Jitter - 1 : n = t + Every + d
    BY <1>2 DEF InitialNext
  <2> QED
    BY <1>2, <2>1, ConfigAssumption
<1> QED
  BY <1>1, <1>2

-----------------------------------------------------------------------------
(* The schedule *)

ScheduleType ==
  /\ now \in Nat /\ tick \in Nat
  /\ next \in [Jobs -> Nat] /\ last \in [Jobs -> Nat] /\ finishedAt \in [Jobs -> Nat]
  /\ tickOf \in [Jobs -> [Slots -> Nat]]

\* The tick in hand may be old, never early.
TickIsPast == tick <= now

\* entry.next is computed from the end of the last execution.
NextIsPaced ==
  \A j \in Jobs : IF j \in Daily THEN next[j] > finishedAt[j] /\ next[j] % Day = At
                  ELSE next[j] >= finishedAt[j] + Every

ScheduleInv == ScheduleType /\ TickIsPast /\ NextIsPaced

\* The initial state: every job has just been registered.
LEMMA ScheduleInit == Init => ScheduleInv
<1> SUFFICES ASSUME Init PROVE ScheduleInv
  OBVIOUS
<1>1. \A j \in Jobs : next[j] \in InitialNext(j, 0)
  BY DEF Init
<1>2. /\ now = 0 /\ tick = 0 /\ last = [j \in Jobs |-> 0] /\ finishedAt = [j \in Jobs |-> 0]
      /\ tickOf = [j \in Jobs |-> [k \in Slots |-> 0]]
  BY DEF Init
<1>3. \A j \in Jobs : next[j] \in Nat /\ IF j \in Daily THEN next[j] > 0 /\ next[j] % Day = At ELSE next[j] >= 0 + Every
  BY <1>1, InitialNextIsLater
<1>4. next \in [Jobs -> Nat]
  <2>1. next \in [Jobs -> UNION {InitialNext(j, 0) : j \in Jobs}]
    BY DEF Init
  <2> QED
    BY <1>3, <2>1
<1>5. NextIsPaced
  BY <1>2, <1>3 DEF NextIsPaced
<1> QED
  BY <1>2, <1>4, <1>5 DEF ScheduleInv, ScheduleType, TickIsPast

\* An execution is recorded and the next one put off.
LEMMA RecordedStep ==
  ASSUME ScheduleInv, NEW j \in Jobs, NEW t \in Nat, Recorded(j, t), UNCHANGED <<now, tick, tickOf>>
  PROVE  ScheduleInv'
<1>1. PICK n \in InitialNext(j, now) : next' = [next EXCEPT ![j] = n]
  BY DEF Recorded
<1>2. now \in Nat
  BY DEF ScheduleInv, ScheduleType
<1>3. n \in Nat /\ IF j \in Daily THEN n > now /\ n % Day = At ELSE n >= now + Every
  BY <1>2, InitialNextIsLater
<1>4. last' = [last EXCEPT ![j] = t] /\ finishedAt' = [finishedAt EXCEPT ![j] = now]
  BY DEF Recorded
<1>5. ScheduleType' /\ TickIsPast'
  BY <1>1, <1>2, <1>3, <1>4 DEF ScheduleInv, ScheduleType, TickIsPast
<1>6. NextIsPaced'
  <2> SUFFICES ASSUME NEW i \in Jobs
               PROVE  IF i \in Daily THEN next'[i] > finishedAt'[i] /\ next'[i] % Day = At
                      ELSE next'[i] >= finishedAt'[i] + Every
    BY DEF NextIsPaced
  <2>1. CASE i = j
    <3>1. next'[i] = n /\ finishedAt'[i] = now
      BY <1>1, <1>4, <2>1 DEF ScheduleInv, ScheduleType
    <3> QED
      BY <1>3, <2>1, <3>1
  <2>2. CASE i # j
    <3>1. next'[i] = next[i] /\ finishedAt'[i] = finishedAt[i]
      BY <1>1, <1>4, <2>2 DEF ScheduleInv, ScheduleType
    <3> QED
      BY <3>1 DEF ScheduleInv, NextIsPaced
  <2> QED
    BY <2>1, <2>2
<1> QED
  BY <1>5, <1>6 DEF ScheduleInv

\* An execution is admitted for the tick in hand.
LEMMA AdmitTypes ==
  ASSUME ScheduleInv, NEW js, NEW how, Admit(js, how)
  PROVE  tickOf' \in [Jobs -> [Slots -> Nat]] /\ UNCHANGED <<next, last, finishedAt>>
<1> DEFINE Takes(j, k) == j \in js /\ k = Min(FreeSlots(j))
<1>1. tickOf' = [j \in Jobs |-> [k \in Slots |-> IF Takes(j, k) THEN tick ELSE tickOf[j][k]]]
  BY DEF Admit
<1> HIDE DEF Takes
<1>2. tickOf' \in [Jobs -> [Slots -> Nat]]
  BY <1>1 DEF ScheduleInv, ScheduleType
<1> QED
  BY <1>2 DEF Admit

\* Every step keeps the schedule.
LEMMA ScheduleStep == ScheduleInv /\ [Next]_vars => ScheduleInv'
<1> SUFFICES ASSUME ScheduleInv, [Next]_vars PROVE ScheduleInv'
  OBVIOUS
<1>1. CASE UNCHANGED <<now, tick, next, last, finishedAt, tickOf>>
  BY <1>1 DEF ScheduleInv, ScheduleType, TickIsPast, NextIsPaced
<1>2. CASE Time
  BY <1>2 DEF Time, entryVars, execVars, loopVars, ScheduleInv, ScheduleType, TickIsPast, NextIsPaced
<1>3. CASE ReceiveTick
  BY <1>3 DEF ReceiveTick, entryVars, execVars, ScheduleInv, ScheduleType, TickIsPast, NextIsPaced
<1>4. CASE LoopReturns \/ CancelRoot \/ BeginStop \/ StopClean \/ StopTimesOut \/ Exit
  BY <1>1, <1>4 DEF LoopReturns, CancelRoot, BeginStop, StopClean, StopTimesOut, Exit, entryVars, execVars, loopVars
<1>5. CASE RunDue
  <2>1. now' = now /\ tick' = 0
    BY <1>5 DEF RunDue
  <2>2. tickOf' \in [Jobs -> [Slots -> Nat]] /\ UNCHANGED <<next, last, finishedAt>>
    BY <1>5, AdmitTypes DEF RunDue, entryVars, execVars, ScheduleInv, ScheduleType
  <2> QED
    BY <2>1, <2>2 DEF ScheduleInv, ScheduleType, TickIsPast, NextIsPaced
<1>6. ASSUME NEW j \in Jobs, Trigger(j) PROVE ScheduleInv'
  <2>1. tickOf' \in [Jobs -> [Slots -> Nat]] /\ UNCHANGED <<now, tick, next, last, finishedAt>>
    BY <1>6, AdmitTypes DEF Trigger, loopVars
  <2> QED
    BY <2>1 DEF ScheduleInv, ScheduleType, TickIsPast, NextIsPaced
<1>7. ASSUME NEW j \in Jobs, NEW k \in Slots, Execution(j, k) PROVE ScheduleInv'
  <2>1. CASE StartBody(j, k) \/ CallPlatform(j, k) \/ Answer(j, k) \/ CutCall(j, k) \/ EndBody(j, k)
    BY <1>1, <2>1 DEF StartBody, CallPlatform, Answer, CutCall, EndBody, StillExec, entryVars, loopVars
  <2>2. CASE RecordScheduled(j, k)
    <3>1. tickOf[j][k] \in Nat
      BY DEF ScheduleInv, ScheduleType
    <3> QED
      BY <2>2, <3>1, RecordedStep DEF RecordScheduled, loopVars
  <2>3. CASE RecordManual(j, k)
    <3>1. now \in Nat
      BY DEF ScheduleInv, ScheduleType
    <3> QED
      BY <2>3, <3>1, RecordedStep DEF RecordManual, loopVars
  <2>4. CASE WaitGroupDone(j, k) \/ ClearRunning(j, k)
    <3>1. UNCHANGED <<now, tick, next, last, finishedAt>>
      BY <2>4 DEF WaitGroupDone, ClearRunning, entryVars, loopVars
    <3>2. tickOf' \in [Jobs -> [Slots -> Nat]]
      BY <2>4 DEF WaitGroupDone, ClearRunning, Forget, ScheduleInv, ScheduleType
    <3> QED
      BY <3>1, <3>2 DEF ScheduleInv, ScheduleType, TickIsPast, NextIsPaced
  <2> QED
    BY <1>7, <2>1, <2>2, <2>3, <2>4 DEF Execution
<1> QED
  BY <1>1, <1>2, <1>3, <1>4, <1>5, <1>6, <1>7 DEF Next, vars, entryVars, execVars, loopVars

\* runDue, initialNext: a scheduled execution starts no earlier than its interval
\* or daily slot after the last execution of the job ended, however old the tick.
THEOREM ExecutionsArePaced == Spec => Paced
<1> DEFINE A == \A j \in Jobs, k \in Slots :
                  pc[j][k] = "free" /\ pc'[j][k] = "start" /\ kind'[j][k] = "tick" =>
                    IF j \in Daily THEN \E n \in finishedAt[j] + 1 .. now : n % Day = At
                                   ELSE now >= finishedAt[j] + Every
<1>1. NInv /\ ScheduleInv /\ [Next]_vars => [A]_vars
  <2> SUFFICES ASSUME NInv, ScheduleInv, Next, NEW j \in Jobs, NEW k \in Slots,
                      pc[j][k] = "free", pc'[j][k] = "start", kind'[j][k] = "tick"
               PROVE  IF j \in Daily THEN \E n \in finishedAt[j] + 1 .. now : n % Day = At
                      ELSE now >= finishedAt[j] + Every
    OBVIOUS
  <2>1. CASE next[j] <= tick
    <3>1. /\ next[j] \in Nat /\ tick \in Nat /\ now \in Nat /\ finishedAt[j] \in Nat /\ tick <= now
          /\ IF j \in Daily THEN next[j] > finishedAt[j] /\ next[j] % Day = At ELSE next[j] >= finishedAt[j] + Every
      BY DEF ScheduleInv, ScheduleType, TickIsPast, NextIsPaced
    <3>2. CASE j \in Daily
      <4>1. next[j] \in finishedAt[j] + 1 .. now /\ next[j] % Day = At
        BY <2>1, <3>1, <3>2
      <4> QED
        BY <3>2, <4>1
    <3>3. CASE j \notin Daily
      BY <2>1, <3>1, <3>3, ConfigAssumption
    <3> QED
      BY <3>2, <3>3
  <2>2. CASE pc' = pc
    BY <2>2
  <2>3. ASSUME NEW js, NEW how, Admit(js, how) PROVE j \in js /\ how = "tick"
    <3> DEFINE Takes(i, m) == i \in js /\ m = Min(FreeSlots(i))
    <3>1. /\ pc' = [i \in Jobs |-> [m \in Slots |-> IF Takes(i, m) THEN "start" ELSE pc[i][m]]]
          /\ kind' = [i \in Jobs |-> [m \in Slots |-> IF Takes(i, m) THEN how ELSE kind[i][m]]]
      BY <2>3 DEF Admit
    <3>2. Takes(j, k) => j \in js
      OBVIOUS
    <3> HIDE DEF Takes
    <3>3. Takes(j, k)
      BY <3>1
    <3> QED
      BY <3>1, <3>2, <3>3
  <2>4. CASE RunDue
    BY <2>1, <2>2, <2>3, <2>4 DEF RunDue, Due, execVars
  <2>5. ASSUME NEW i \in Jobs, Trigger(i) PROVE FALSE
    BY <2>3, <2>5 DEF Trigger
  <2>6. ASSUME NEW i \in Jobs, NEW m \in Slots, Execution(i, m) PROVE FALSE
    <3>1. PICK from \in SUBSET (Steps \ {"free"}), to \in Steps \ {"start"} : Moves(i, m, from, to)
      <4>1. \/ Moves(i, m, {"start"}, "body") \/ Moves(i, m, {"start"}, "record")
            \/ Moves(i, m, {"body"}, "write") \/ Moves(i, m, {"write"}, "body")
            \/ Moves(i, m, {"write"}, "record") \/ Moves(i, m, {"body", "write"}, "record")
            \/ Moves(i, m, {"record"}, "done") \/ Moves(i, m, {"done"}, "free")
            \/ Moves(i, m, {"done"}, "clear") \/ Moves(i, m, {"clear"}, "free")
        BY <2>6 DEF Execution, StartBody, CallPlatform, Answer, CutCall, EndBody, RecordScheduled, RecordManual,
                    WaitGroupDone, ClearRunning
      <4> QED
        BY <4>1 DEF Steps
    <3>2. pc' = [pc EXCEPT ![i][m] = to]
      BY <3>1 DEF Moves
    <3> QED
      BY <3>1, <3>2 DEF NInv, ExecType
  <2>7. CASE Time \/ ReceiveTick \/ LoopReturns \/ CancelRoot \/ BeginStop \/ StopClean \/ StopTimesOut \/ Exit
    BY <2>2, <2>7 DEF Time, ReceiveTick, LoopReturns, CancelRoot, BeginStop, StopClean, StopTimesOut, Exit, execVars
  <2> QED
    BY <2>4, <2>5, <2>6, <2>7 DEF Next
<1> QED
  BY <1>1, NInvInit, NInvStep, ScheduleInit, ScheduleStep, PTL DEF Spec, Paced

-----------------------------------------------------------------------------
(* The WaitGroup and Stop *)

\* The executions that have still to leave the WaitGroup.
CountedSteps == {"start", "body", "write", "record", "done"}
Counted == {e \in Jobs \X Slots : pc[e[1]][e[2]] \in CountedSteps}

\* done.Add comes before the goroutine and done.Done last: the counter never
\* falls behind the executions.
WaitGroupCovers == wg \in Nat /\ IsFiniteSet(Counted) /\ Cardinality(Counted) <= wg

MainType ==
  /\ stopClosed \in BOOLEAN /\ rootDone \in BOOLEAN /\ timedOut \in BOOLEAN /\ cut \in BOOLEAN
  /\ loopPc \in {"select", "due", "returned"}
  /\ mainPc \in {"serving", "stopping", "stopped", "exited"}

\* After the stop channel is closed nothing is admitted, so a wait that has
\* ended has ended for good.
StopIsFinal ==
  /\ mainPc # "serving" => stopClosed
  /\ mainPc \in {"stopped", "exited"} /\ ~timedOut => wg = 0

StopInv == WaitGroupCovers /\ MainType /\ StopIsFinal

\* Nothing runs initially.
LEMMA StopInvInit == Init => StopInv
<1> SUFFICES ASSUME Init PROVE StopInv
  OBVIOUS
<1>1. Counted = {}
  BY DEF Init, Counted, CountedSteps
<1>2. WaitGroupCovers
  BY <1>1, FS_EmptySet DEF Init, WaitGroupCovers
<1> QED
  BY <1>2 DEF Init, StopInv, MainType, StopIsFinal

\* Admit: as many goroutines as the counter is raised by.
LEMMA AdmitCounts ==
  ASSUME WaitGroupCovers, NEW js \in SUBSET Jobs, NEW how, Admit(js, how)
  PROVE  WaitGroupCovers'
<1> DEFINE Takes(j, k) == j \in js /\ k = Min(FreeSlots(j))
           fresh == {e \in Jobs \X Slots : Takes(e[1], e[2])}
           job == [e \in fresh |-> e[1]]
<1>1. wg' = wg + Cardinality(js) /\ pc' = [j \in Jobs |-> [k \in Slots |-> IF Takes(j, k) THEN "start" ELSE pc[j][k]]]
  BY DEF Admit
<1>2. IsFiniteSet(js) /\ Cardinality(js) \in Nat
  BY ConfigAssumption, FS_Subset, FS_CardinalityType
<1>3. job \in Injection(fresh, js)
  <2>1. job \in [fresh -> js]
    OBVIOUS
  <2>2. \A a, b \in fresh : job[a] = job[b] => a = b
    <3> SUFFICES ASSUME NEW a \in fresh, NEW b \in fresh, a[1] = b[1] PROVE a = b
      OBVIOUS
    <3>1. a[2] = b[2]
      OBVIOUS
    <3>2. a \in Jobs \X Slots /\ b \in Jobs \X Slots
      OBVIOUS
    <3> QED
      BY <3>1, <3>2
  <2> QED
    BY <2>1, <2>2 DEF Injection, IsInjective
<1>4. IsFiniteSet(fresh) /\ Cardinality(fresh) <= Cardinality(js)
  BY <1>2, <1>3, FS_Injection
<1>5. Cardinality(fresh) \in Nat
  BY <1>4, FS_CardinalityType
<1>6. Counted' \in SUBSET (Counted \cup fresh)
  <2> HIDE DEF Takes
  <2> QED
    BY <1>1 DEF Counted
<1> HIDE DEF fresh
<1>7. /\ IsFiniteSet(Counted \cup fresh)
      /\ Cardinality(Counted \cup fresh) = Cardinality(Counted) + Cardinality(fresh) - Cardinality(Counted \cap fresh)
  BY <1>4, FS_Union DEF WaitGroupCovers
<1>8. Cardinality(Counted) \in Nat /\ Cardinality(Counted \cap fresh) \in Nat
  BY FS_Intersection, FS_CardinalityType DEF WaitGroupCovers
<1>9. IsFiniteSet(Counted') /\ Cardinality(Counted') <= Cardinality(Counted \cup fresh)
  BY <1>6, <1>7, FS_Subset
<1>10. Cardinality(Counted') \in Nat
  BY <1>9, FS_CardinalityType
<1> QED
  BY <1>1, <1>2, <1>4, <1>5, <1>7, <1>8, <1>9, <1>10 DEF WaitGroupCovers

\* A step of an execution that is counted before and after, or neither.
LEMMA MoveCounts ==
  ASSUME NInv, WaitGroupCovers, NEW j \in Jobs, NEW k \in Slots, NEW from, NEW to, Moves(j, k, from, to),
         UNCHANGED wg, \A s \in from : s \in CountedSteps <=> to \in CountedSteps
  PROVE  WaitGroupCovers'
<1>1. pc' = [pc EXCEPT ![j][k] = to] /\ (pc[j][k] \in CountedSteps <=> to \in CountedSteps)
  BY DEF Moves
<1>2. Counted' = Counted
  <2>1. \A e \in Jobs \X Slots : pc'[e[1]][e[2]] = IF e[1] = j /\ e[2] = k THEN to ELSE pc[e[1]][e[2]]
    BY <1>1 DEF NInv, ExecType
  <2> QED
    BY <1>1, <2>1 DEF Counted
<1> QED
  BY <1>2 DEF WaitGroupCovers

\* done.Done(): the execution was counted.
LEMMA DoneCounts ==
  ASSUME NInv, WaitGroupCovers, NEW j \in Jobs, NEW k \in Slots, NEW to, to \notin CountedSteps,
         Moves(j, k, {"done"}, to), wg' = wg - 1
  PROVE  WaitGroupCovers' /\ wg # 0
<1>1. pc' = [pc EXCEPT ![j][k] = to] /\ pc[j][k] = "done"
  BY DEF Moves
<1>2. <<j, k>> \in Counted
  BY <1>1 DEF Counted, CountedSteps
<1>3. Counted' \in SUBSET (Counted \ {<<j, k>>})
  <2>1. \A e \in Jobs \X Slots : pc'[e[1]][e[2]] = IF e[1] = j /\ e[2] = k THEN to ELSE pc[e[1]][e[2]]
    BY <1>1 DEF NInv, ExecType
  <2> QED
    BY <2>1 DEF Counted
<1>4. /\ IsFiniteSet(Counted \ {<<j, k>>})
      /\ Cardinality(Counted \ {<<j, k>>}) = Cardinality(Counted) - 1
  BY <1>2, FS_RemoveElement DEF WaitGroupCovers
<1>5. IsFiniteSet(Counted') /\ Cardinality(Counted') <= Cardinality(Counted \ {<<j, k>>})
  BY <1>3, <1>4, FS_Subset
<1>6. Cardinality(Counted') \in Nat /\ Cardinality(Counted) \in Nat /\ Cardinality(Counted \ {<<j, k>>}) \in Nat
  BY <1>4, <1>5, FS_CardinalityType DEF WaitGroupCovers
<1> QED
  BY <1>4, <1>5, <1>6 DEF WaitGroupCovers

\* Every step keeps the counter ahead of the executions.
LEMMA StopInvStep == NInv /\ StopInv /\ [Next]_vars => StopInv'
<1> SUFFICES ASSUME NInv, StopInv, [Next]_vars PROVE StopInv'
  OBVIOUS
<1>0. WaitGroupCovers /\ MainType /\ StopIsFinal
  BY DEF StopInv
<1>a. ASSUME UNCHANGED <<pc, wg>> PROVE WaitGroupCovers'
  BY <1>0, <1>a DEF WaitGroupCovers, Counted
<1>b. ASSUME UNCHANGED <<stopClosed, rootDone, timedOut, mainPc>>, cut' \in BOOLEAN, loopPc' \in {"select", "due", "returned"}
      PROVE  MainType'
  BY <1>0, <1>b DEF MainType
<1>1. CASE UNCHANGED vars
  <2>1. UNCHANGED <<pc, wg, stopClosed, rootDone, timedOut, mainPc, cut, loopPc>>
    BY <1>1 DEF vars, execVars, mainVars, loopVars
  <2> QED
    BY <1>0, <2>1, <1>a DEF StopInv, MainType, StopIsFinal
<1>2. CASE Time \/ ReceiveTick \/ LoopReturns
  <2>1. UNCHANGED <<pc, wg, stopClosed, rootDone, timedOut, mainPc, cut>> /\ loopPc' \in {"select", "due", "returned"}
    BY <1>0, <1>2 DEF Time, ReceiveTick, LoopReturns, execVars, mainVars, loopVars, MainType
  <2> QED
    BY <1>0, <1>a, <1>b, <2>1 DEF StopInv, StopIsFinal, MainType
<1>3. CASE RunDue
  <2>1. UNCHANGED <<stopClosed, rootDone, timedOut, mainPc, cut>> /\ loopPc' = "select"
    BY <1>3 DEF RunDue, mainVars
  <2>2. MainType'
    BY <1>0, <1>b, <2>1 DEF MainType
  <2>3. CASE stopClosed
    BY <1>0, <1>3, <1>a, <2>1, <2>2, <2>3 DEF RunDue, execVars, StopInv, StopIsFinal
  <2>4. CASE ~stopClosed
    <3>1. Admit(Due, "tick") /\ Due \in SUBSET Jobs
      BY <1>3, <2>4 DEF RunDue, Due
    <3>2. WaitGroupCovers'
      BY <1>0, <3>1, AdmitCounts
    <3> QED
      BY <1>0, <2>1, <2>2, <2>4, <3>2 DEF StopInv, StopIsFinal
  <2> QED
    BY <2>3, <2>4
<1>4. ASSUME NEW j \in Jobs, Trigger(j) PROVE StopInv'
  <2>1. UNCHANGED <<stopClosed, rootDone, timedOut, mainPc, cut, loopPc>> /\ ~stopClosed
    BY <1>4 DEF Trigger, mainVars, loopVars
  <2>2. MainType'
    BY <1>0, <1>b, <2>1 DEF MainType
  <2>3. WaitGroupCovers'
    BY <1>0, <1>4, AdmitCounts DEF Trigger
  <2> QED
    BY <1>0, <2>1, <2>2, <2>3 DEF StopInv, StopIsFinal
<1>5. ASSUME NEW j \in Jobs, NEW k \in Slots, Execution(j, k) PROVE StopInv'
  <2>0. UNCHANGED <<stopClosed, rootDone, timedOut, mainPc, loopPc>> /\ cut' \in BOOLEAN
    BY <1>0, <1>5 DEF Execution, StartBody, CallPlatform, Answer, CutCall, EndBody, StillExec, RecordScheduled,
                      RecordManual, WaitGroupDone, ClearRunning, mainVars, loopVars, MainType
  <2>1. MainType'
    BY <1>0, <1>b, <2>0 DEF MainType
  <2>2. CASE WaitGroupDone(j, k)
    <3>1. wg' = wg - 1 /\ (Moves(j, k, {"done"}, "free") \/ Moves(j, k, {"done"}, "clear"))
      BY <2>2 DEF WaitGroupDone
    <3>2. WaitGroupCovers' /\ wg # 0
      BY <1>0, <3>1, DoneCounts DEF CountedSteps
    <3> QED
      BY <1>0, <2>0, <2>1, <3>2 DEF StopInv, StopIsFinal
  <2>3. CASE ~WaitGroupDone(j, k)
    <3>1. /\ UNCHANGED wg
          /\ \/ Moves(j, k, {"start"}, "body") \/ Moves(j, k, {"start"}, "record")
             \/ Moves(j, k, {"body"}, "write") \/ Moves(j, k, {"write"}, "body")
             \/ Moves(j, k, {"write"}, "record") \/ Moves(j, k, {"body", "write"}, "record")
             \/ Moves(j, k, {"record"}, "done") \/ Moves(j, k, {"clear"}, "free")
      BY <1>5, <2>3 DEF Execution, StartBody, CallPlatform, Answer, CutCall, EndBody, StillExec, RecordScheduled,
                        RecordManual, ClearRunning
    <3>2. WaitGroupCovers'
      BY <1>0, <3>1, MoveCounts DEF CountedSteps
    <3> QED
      BY <1>0, <2>0, <2>1, <3>1, <3>2 DEF StopInv, StopIsFinal
  <2> QED
    BY <2>2, <2>3
<1>6. CASE CancelRoot \/ BeginStop \/ StopClean \/ StopTimesOut
  <2>1. UNCHANGED <<pc, wg, cut, loopPc>>
    BY <1>6 DEF CancelRoot, BeginStop, StopClean, StopTimesOut, execVars, loopVars
  <2>2. MainType'
    BY <1>0, <1>6, <2>1 DEF CancelRoot, BeginStop, StopClean, StopTimesOut, MainType
  <2>3. StopIsFinal'
    BY <1>0, <1>6, <2>1 DEF CancelRoot, BeginStop, StopClean, StopTimesOut, StopIsFinal
  <2> QED
    BY <1>a, <2>1, <2>2, <2>3 DEF StopInv
<1>7. CASE Exit
  <2>1. UNCHANGED <<pc, wg, loopPc, stopClosed, rootDone, timedOut>> /\ mainPc = "stopped" /\ mainPc' = "exited"
    BY <1>7 DEF Exit, execVars, loopVars
  <2>2. cut' \in BOOLEAN
    BY <1>0, <1>7, Zenon DEF Exit, MainType
  <2>3. MainType' /\ StopIsFinal'
    BY <1>0, <2>1, <2>2 DEF MainType, StopIsFinal
  <2> QED
    BY <1>a, <2>1, <2>3 DEF StopInv
<1> QED
  BY <1>1, <1>2, <1>3, <1>4, <1>5, <1>6, <1>7 DEF Next

\* Stop: when it returns without having timed out, no job body is executing and
\* none starts afterwards.
THEOREM CleanStopQuiesces == Spec => []CleanStopIsQuiet
<1>1. StopInv => CleanStopIsQuiet
  <2> SUFFICES ASSUME StopInv, mainPc \in {"stopped", "exited"}, ~timedOut, NEW j \in Jobs, NEW k \in Slots
               PROVE  ~InBody(j, k)
    BY DEF CleanStopIsQuiet
  <2>1. wg = 0 /\ IsFiniteSet(Counted) /\ Cardinality(Counted) <= wg
    BY DEF StopInv, WaitGroupCovers, StopIsFinal
  <2>2. Cardinality(Counted) \in Nat
    BY <2>1, FS_CardinalityType
  <2>3. Counted = {}
    <3>1. Cardinality(Counted) = 0
      BY <2>1, <2>2
    <3> QED
      BY <2>1, <3>1, FS_EmptySet
  <2>4. <<j, k>> \notin Counted /\ <<j, k>> \in Jobs \X Slots
    BY <2>3
  <2> QED
    BY <2>4 DEF Counted, CountedSteps, InBody
<1> QED
  BY <1>1, NInvInit, NInvStep, StopInvInit, StopInvStep, PTL DEF Spec

\* The scheduler's entries, executions and counters keep their types; the
\* WaitGroup counter never becomes negative, which would panic.
THEOREM SchedulerTypeCorrect == Spec => []TypeOK
<1>1. NInv /\ ScheduleInv /\ StopInv => TypeOK
  BY DEF NInv, ExecType, ScheduleInv, ScheduleType, StopInv, WaitGroupCovers, MainType, TypeOK
<1> QED
  BY <1>1, NInvInit, NInvStep, ScheduleInit, ScheduleStep, StopInvInit, StopInvStep, PTL DEF Spec
=============================================================================
