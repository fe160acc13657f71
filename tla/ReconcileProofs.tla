-------------------------- MODULE ReconcileProofs ---------------------------
(***************************************************************************)
(* Reconcile for every set of copies, grace period and number of changes:  *)
(* an observation is continuous, a plan publishes only what was free, and  *)
(* a cycle that succeeded leaves the next one nothing to do at once.       *)
(***************************************************************************)
EXTENDS Reconcile, FiniteSetTheorems, TLAPS

WorldTypeOK ==
  /\ stock \subseteq Assets /\ route \in Routes /\ uuOk \in BOOLEAN /\ real \in BOOLEAN
  /\ changes \in 0 .. MaxChanges /\ tainted \in BOOLEAN /\ settled \in BOOLEAN

RowsTypeOK ==
  /\ row \in [Listings -> RowStates]
  /\ why \in [Listings -> GraceReasons \cup {""}] /\ age \in [Listings -> 0 .. Grace]
  /\ run \in [Listings -> Runs]

CycleTypeOK ==
  /\ pc \in {"idle", "begun", "items", "planning", "executing"} /\ elapsed \in 0 .. Grace
  /\ items \in [assets : SUBSET Assets, route : Routes]
  /\ snap \in [row : [Listings -> RowStates], why : [Listings -> GraceReasons \cup {""}],
               age : [Listings -> 0 .. Grace], uuOk : BOOLEAN]
  /\ plan \in [publish : SUBSET Listings, delist : SUBSET (Listings \X Reasons)]

\* The recorded observation is the unbroken run, of no verdict too; its stamp is
\* the start of the planning that wrote it first.
RunIsRecorded ==
  \A l \in Listings :
    /\ run[l].reason = why[l] /\ age[l] = Smaller(run[l].age + run[l].lag, Grace)
    /\ why[l] = "" => run[l] = NoRun

ReconcileInv == WorldTypeOK /\ RowsTypeOK /\ CycleTypeOK /\ RunIsRecorded /\ PublishesAreFree

-----------------------------------------------------------------------------
(* Finite sets of listings *)

\* One commodity has finitely many listings.
LEMMA ListingsFinite == IsFiniteSet(Listings)
<1>1. IsFiniteSet({"uu"} \cup {"eco"})
  BY FS_Singleton, FS_AddElement
<1>2. Channels = {"uu"} \cup {"eco"}
  BY DEF Channels
<1>3. IsFiniteSet(Channels)
  BY <1>1, <1>2
<1> QED
  BY <1>3, ConfigAssumption, FS_Product DEF Listings

\* The verdict of the delist pass is one of the reasons.
LEMMA VerdictIsReason == \A l, kept : Verdict(l, kept) \in Reasons
BY DEF Verdict, Reasons, GraceReasons

\* The publish pass picks rows that are free in the snapshot.
LEMMA ChoiceIsFree ==
  ASSUME NEW priced, NEW pub \in PublishChoices(priced), NEW l \in pub
  PROVE  /\ l[1] \in Desired /\ l[2] \in FreeAssets /\ l \in Desired \X FreeAssets
         /\ snap.row[l] = "none"
BY DEF PublishChoices

\* desiredChannels names channels.
LEMMA DesiredAreChannels == Desired \subseteq Channels
BY DEF Desired, DesiredChannels, Channels

\* A channel of the plan stays within the copies the inventory query returned.
LEMMA BudgetHolds ==
  ASSUME CycleTypeOK, NEW priced, NEW pub \in PublishChoices(priced), NEW l \in pub
  PROVE  Cardinality(Live(l[1])) + Cardinality(On(pub, l[1])) <= Cardinality(items.assets)
<1> DEFINE ch == l[1]
           free == {m \in {ch} \X FreeAssets : snap.row[m] = "none"}
           left == IF WantCopies > Cardinality(Live(ch)) THEN WantCopies - Cardinality(Live(ch)) ELSE 0
<1>1. FreeAssets \in SUBSET items.assets /\ items.assets \in SUBSET Assets
  BY DEF FreeAssets, CycleTypeOK
<1>2. /\ IsFiniteSet(items.assets) /\ WantCopies \in Nat /\ Cardinality(items.assets) \in Nat
      /\ WantCopies <= Cardinality(items.assets)
  BY <1>1, ConfigAssumption, FS_Subset, FS_CardinalityType DEF WantCopies
<1>3. ch \in Desired /\ l \in Desired \X FreeAssets
  BY ChoiceIsFree
<1>4. pub \in SUBSET Listings
  <2>1. FreeAssets \subseteq Assets
    BY <1>1
  <2>2. \A m \in pub : m \in Desired \X FreeAssets
    BY ChoiceIsFree
  <2> QED
    BY <2>1, <2>2, DesiredAreChannels DEF Listings
<1>5. On(pub, ch) \in SUBSET Listings /\ Live(ch) \in SUBSET Listings /\ l \in On(pub, ch)
  BY <1>4 DEF On, Live
<1>6. /\ IsFiniteSet(On(pub, ch)) /\ Cardinality(On(pub, ch)) \in Nat /\ Cardinality(Live(ch)) \in Nat
      /\ Cardinality(On(pub, ch)) # 0
  BY <1>5, ListingsFinite, FS_Subset, FS_CardinalityType, FS_EmptySet
<1>7. free \in SUBSET Listings
  BY <1>1, <1>3, DesiredAreChannels DEF Listings
<1>8. Cardinality(free) \in Nat
  BY <1>7, ListingsFinite, FS_Subset, FS_CardinalityType
<1>9. Cardinality(On(pub, ch)) = IF ch \in priced THEN Smaller(Cardinality(free), left) ELSE 0
  BY <1>3 DEF PublishChoices
<1> HIDE DEF ch, free
<1> QED
  BY <1>2, <1>6, <1>8, <1>9 DEF Smaller, ch

\* Taking actions off the plan keeps what is left free and within the budget.
LEMMA ShrinkingPlan ==
  ASSUME CycleTypeOK, PublishesAreFree, pc = "executing", NEW P, P \subseteq plan.publish,
         UNCHANGED <<pc, items, snap>>, plan'.publish = P
  PROVE  PublishesAreFree'
<1> SUFFICES ASSUME NEW l \in P
             PROVE  /\ \A ch \in Channels : snap.row[<<ch, l[2]>>] # "leased"
                    /\ snap.row[l] = "none"
                    /\ Cardinality(Live(l[1])) + Cardinality(On(P, l[1])) <= Cardinality(items.assets)
  BY DEF PublishesAreFree, Live
<1>1. /\ \A ch \in Channels : snap.row[<<ch, l[2]>>] # "leased"
      /\ snap.row[l] = "none"
      /\ Cardinality(Live(l[1])) + Cardinality(On(plan.publish, l[1])) <= Cardinality(items.assets)
  BY DEF PublishesAreFree
<1>2. On(P, l[1]) \in SUBSET On(plan.publish, l[1])
  BY DEF On
<1>3. On(plan.publish, l[1]) \in SUBSET Listings /\ Live(l[1]) \in SUBSET Listings /\ items.assets \in SUBSET Assets
  BY DEF On, Live, CycleTypeOK
<1>4. IsFiniteSet(On(plan.publish, l[1])) /\ IsFiniteSet(Live(l[1])) /\ IsFiniteSet(items.assets)
  BY <1>3, ListingsFinite, ConfigAssumption, FS_Subset
<1>5. IsFiniteSet(On(P, l[1])) /\ Cardinality(On(P, l[1])) <= Cardinality(On(plan.publish, l[1]))
  BY <1>2, <1>4, FS_Subset
<1>6. /\ Cardinality(On(plan.publish, l[1])) \in Nat /\ Cardinality(Live(l[1])) \in Nat
      /\ Cardinality(items.assets) \in Nat /\ Cardinality(On(P, l[1])) \in Nat
  BY <1>4, <1>5, FS_CardinalityType
<1> QED
  BY <1>1, <1>5, <1>6

-----------------------------------------------------------------------------
(* The rows and the observations *)

\* The age of an observation stays within the grace period.
LEMMA OlderBounded == \A n \in 0 .. Grace : Older(n) \in 0 .. Grace
BY ConfigAssumption DEF Older

\* An older run has an older stamp, until both are as old as the grace period.
LEMMA OlderStamp ==
  \A m, n \in 0 .. Grace : Older(Smaller(m + n, Grace)) = Smaller(Older(m) + n, Grace)
BY ConfigAssumption DEF Older, Smaller

\* No observation is one that has just begun.
LEMMA NoRunIsRun == NoRun \in Runs /\ 0 \in 0 .. Grace
<1>1. 0 \in 0 .. Grace
  BY ConfigAssumption
<1> QED
  BY <1>1 DEF NoRun, Runs

\* A stamp is as old as the planning that wrote it.
LEMMA NewStamp ==
  /\ NoRun.reason = "" /\ 0 = Smaller(NoRun.age + NoRun.lag, Grace)
  /\ \A n \in 0 .. Grace : n = Smaller(0 + n, Grace)
BY ConfigAssumption DEF NoRun, Smaller

\* A row that is written anew has no observation.
LEMMA RowCleared ==
  ASSUME RowsTypeOK, RunIsRecorded, NEW l \in Listings, NEW s \in RowStates,
         row' = [row EXCEPT ![l] = s], why' = [why EXCEPT ![l] = ""], age' = [age EXCEPT ![l] = 0],
         run' = [run EXCEPT ![l] = NoRun]
  PROVE  RowsTypeOK' /\ RunIsRecorded'
<1>1. NoRun \in Runs /\ 0 \in 0 .. Grace
  BY NoRunIsRun
<1>2. RowsTypeOK'
  BY <1>1 DEF RowsTypeOK
<1>3. RunIsRecorded'
  BY NewStamp DEF RunIsRecorded, RowsTypeOK
<1> QED
  BY <1>2, <1>3

\* Time passes for the row and for the run alike.
LEMMA TickStep ==
  ASSUME RowsTypeOK, RunIsRecorded, Tick
  PROVE  RowsTypeOK' /\ RunIsRecorded'
<1>1. NoRun \in Runs /\ 0 \in 0 .. Grace
  BY NoRunIsRun
<1>2. /\ age' = [l \in Listings |-> IF why[l] = "" THEN 0 ELSE Older(age[l])] /\ UNCHANGED <<row, why>>
      /\ run' = [l \in Listings |-> IF why[l] = "" THEN NoRun ELSE [run[l] EXCEPT !.age = Older(@)]]
  BY DEF Tick, RunIsRecorded
<1>3. age' \in [Listings -> 0 .. Grace]
  BY <1>1, <1>2, OlderBounded DEF RowsTypeOK
<1>4. ASSUME NEW l \in Listings
      PROVE  /\ run'[l] \in Runs /\ run'[l].reason = why'[l]
             /\ age'[l] = Smaller(run'[l].age + run'[l].lag, Grace) /\ (why'[l] = "" => run'[l] = NoRun)
  <2>1. run[l] \in Runs /\ run[l].reason = why[l] /\ age[l] = Smaller(run[l].age + run[l].lag, Grace)
    BY DEF RowsTypeOK, RunIsRecorded
  <2>2. run[l].age \in 0 .. Grace /\ run[l].lag \in 0 .. Grace
    BY <2>1 DEF Runs
  <2>3. CASE why[l] = ""
    <3>1. run'[l] = NoRun /\ age'[l] = 0 /\ why'[l] = ""
      BY <1>2, <2>3
    <3> QED
      BY <1>1, <3>1, NewStamp
  <2>4. CASE why[l] # ""
    <3>1. /\ run'[l] = [run[l] EXCEPT !.age = Older(run[l].age)] /\ age'[l] = Older(age[l])
          /\ why'[l] = why[l]
      BY <1>2, <2>4
    <3>2. /\ run'[l].reason = run[l].reason /\ run'[l].age = Older(run[l].age)
          /\ run'[l].lag = run[l].lag /\ run'[l] \in Runs
      BY <2>1, <2>2, <3>1, OlderBounded DEF Runs
    <3>3. age'[l] = Smaller(run'[l].age + run'[l].lag, Grace)
      BY <2>1, <2>2, <3>1, <3>2, OlderStamp
    <3> QED
      BY <2>1, <2>4, <3>1, <3>2, <3>3
  <2> QED
    BY <2>3, <2>4
<1>5. run' \in [Listings -> Runs]
  BY <1>2, <1>4
<1> QED
  BY <1>2, <1>3, <1>4, <1>5 DEF RowsTypeOK, RunIsRecorded

\* ObserveReconMismatches: a repeated reason goes on, any other starts anew.
LEMMA ObserveStep ==
  ASSUME RowsTypeOK, RunIsRecorded, elapsed \in 0 .. Grace, NEW verdict, Observe(verdict), UNCHANGED row
  PROVE  RowsTypeOK' /\ RunIsRecorded'
<1> DEFINE seen(l) == snap.row[l] # "none"
           reason(l) == IF verdict[l] \in GraceReasons /\ row[l] = "active" THEN verdict[l] ELSE ""
           begun(l) == [reason |-> reason(l), age |-> 0, lag |-> elapsed]
<1>1. /\ why' = [l \in Listings |-> IF seen(l) THEN reason(l) ELSE why[l]]
      /\ age' = [l \in Listings |-> IF ~seen(l) \/ reason(l) = why[l] THEN age[l]
                                    ELSE IF reason(l) = "" THEN 0 ELSE elapsed]
      /\ run' = [l \in Listings |-> IF ~seen(l) \/ reason(l) = run[l].reason THEN run[l]
                                    ELSE IF reason(l) = "" THEN NoRun ELSE begun(l)]
  BY DEF Observe
<1>2. \A l : reason(l) \in GraceReasons \cup {""}
  OBVIOUS
<1>3. NoRun \in Runs /\ 0 \in 0 .. Grace
  BY NoRunIsRun
<1>4. \A l : begun(l) \in Runs /\ begun(l).reason = reason(l) /\ begun(l).age = 0 /\ begun(l).lag = elapsed
  BY <1>2, <1>3 DEF Runs
<1> HIDE DEF seen, reason, begun
<1>5. why' \in [Listings -> GraceReasons \cup {""}] /\ age' \in [Listings -> 0 .. Grace]
  BY <1>1, <1>2, <1>3 DEF RowsTypeOK
<1>6. run' \in [Listings -> Runs]
  BY <1>1, <1>3, <1>4 DEF RowsTypeOK
<1>7. RunIsRecorded'
  <2> SUFFICES ASSUME NEW l \in Listings
               PROVE  /\ run'[l].reason = why'[l] /\ age'[l] = Smaller(run'[l].age + run'[l].lag, Grace)
                      /\ why'[l] = "" => run'[l] = NoRun
    BY DEF RunIsRecorded
  <2>1. /\ run[l].reason = why[l] /\ age[l] = Smaller(run[l].age + run[l].lag, Grace)
        /\ why[l] = "" => run[l] = NoRun
    BY DEF RunIsRecorded
  <2>2. CASE ~seen(l) \/ reason(l) = why[l]
    <3>1. run'[l] = run[l] /\ age'[l] = age[l] /\ why'[l] = why[l]
      BY <1>1, <2>1, <2>2
    <3> QED
      BY <2>1, <3>1
  <2>3. CASE seen(l) /\ reason(l) # why[l] /\ reason(l) = ""
    <3>1. run'[l] = NoRun /\ age'[l] = 0 /\ why'[l] = ""
      BY <1>1, <2>1, <2>3
    <3> QED
      BY <3>1, NewStamp
  <2>4. CASE seen(l) /\ reason(l) # why[l] /\ reason(l) # ""
    <3>1. run'[l] = begun(l) /\ age'[l] = elapsed /\ why'[l] = reason(l)
      BY <1>1, <2>1, <2>4
    <3>2. elapsed = Smaller(0 + elapsed, Grace)
      BY NewStamp
    <3>3. run'[l].reason = reason(l) /\ run'[l].age = 0 /\ run'[l].lag = elapsed
      BY <1>4, <3>1
    <3> QED
      BY <2>4, <3>1, <3>2, <3>3
  <2> QED
    BY <2>2, <2>3, <2>4
<1> QED
  BY <1>5, <1>6, <1>7 DEF RowsTypeOK

-----------------------------------------------------------------------------
(* The cycle *)

\* The empty reads and the empty plan have their types.
LEMMA NothingPlanned ==
  /\ NoItems \in [assets : SUBSET Assets, route : Routes]
  /\ NoSnap \in [row : [Listings -> RowStates], why : [Listings -> GraceReasons \cup {""}],
                 age : [Listings -> 0 .. Grace], uuOk : BOOLEAN]
  /\ NoPlan \in [publish : SUBSET Listings, delist : SUBSET (Listings \X Reasons)]
<1>1. NoItems \in [assets : SUBSET Assets, route : Routes]
  BY DEF NoItems, Routes
<1>2. NoSnap \in [row : [Listings -> RowStates], why : [Listings -> GraceReasons \cup {""}],
                  age : [Listings -> 0 .. Grace], uuOk : BOOLEAN]
  BY NoRunIsRun DEF NoSnap, RowStates
<1>3. NoPlan \in [publish : SUBSET Listings, delist : SUBSET (Listings \X Reasons)]
  BY DEF NoPlan
<1> QED
  BY <1>1, <1>2, <1>3

\* The initial states satisfy the invariant.
LEMMA ReconcileInvInit == Init => ReconcileInv
<1> SUFFICES ASSUME Init PROVE ReconcileInv
  OBVIOUS
<1>1. WorldTypeOK
  <2>1. changes \in 0 .. MaxChanges
    BY ConfigAssumption DEF Init
  <2> QED
    BY <2>1 DEF Init, WorldTypeOK
<1>2. CycleTypeOK
  BY NothingPlanned, NoRunIsRun DEF Init, CycleTypeOK
<1>3. /\ row = [l \in Listings |-> "none"] /\ why = [l \in Listings |-> ""]
      /\ age = [l \in Listings |-> 0] /\ run = [l \in Listings |-> NoRun]
  BY DEF Init, NoSnap
<1>4. RowsTypeOK
  BY <1>3, NoRunIsRun DEF RowsTypeOK, RowStates
<1>5. RunIsRecorded
  BY <1>3, NewStamp DEF RunIsRecorded
<1>6. PublishesAreFree
  BY DEF Init, PublishesAreFree
<1> QED
  BY <1>1, <1>2, <1>4, <1>5, <1>6 DEF ReconcileInv

\* A plan is made: a record of actions, each publish free and within the budget.
LEMMA MakePlanStep ==
  ASSUME ReconcileInv, NEW priced \in SUBSET Channels, MakePlan(priced)
  PROVE  ReconcileInv'
<1>0. WorldTypeOK /\ RowsTypeOK /\ CycleTypeOK /\ RunIsRecorded
  BY DEF ReconcileInv
<1>1. PICK kept \in KeepChoices, pub \in PublishChoices(priced) :
         LET verdict == [l \in Listings |-> Verdict(l, kept)] IN
         /\ Observe(verdict)
         /\ plan' = IF ~real THEN NoPlan
                    ELSE [publish |-> pub,
                          delist |-> {<<l, verdict[l]>> : l \in {m \in Listings : Acts(m, verdict[m])}}]
  BY DEF MakePlan
<1> DEFINE verdict == [l \in Listings |-> Verdict(l, kept)]
           del == {<<l, verdict[l]>> : l \in {m \in Listings : Acts(m, verdict[m])}}
<1>2. /\ Observe(verdict) /\ plan' = IF ~real THEN NoPlan ELSE [publish |-> pub, delist |-> del]
      /\ UNCHANGED <<stock, route, uuOk, real, row, changes, items, snap, settled>> /\ pc' = "executing"
      /\ elapsed' = 0
  BY <1>1 DEF MakePlan, worldVars
<1>3. RowsTypeOK' /\ RunIsRecorded'
  BY <1>0, <1>2, ObserveStep DEF CycleTypeOK
<1>4. WorldTypeOK'
  <2>1. tainted' \in BOOLEAN
    BY <1>0, Zenon DEF MakePlan, WorldTypeOK
  <2> QED
    BY <1>0, <1>2, <2>1 DEF WorldTypeOK
<1>5. pub \in SUBSET Listings
  <2>1. FreeAssets \subseteq Assets
    BY <1>0 DEF FreeAssets, CycleTypeOK
  <2>2. \A m \in pub : m \in Desired \X FreeAssets
    BY ChoiceIsFree
  <2> QED
    BY <2>1, <2>2, DesiredAreChannels DEF Listings
<1>6. del \in SUBSET (Listings \X Reasons)
  <2>1. \A l \in Listings : verdict[l] \in Reasons
    BY VerdictIsReason
  <2> HIDE DEF verdict
  <2> QED
    BY <2>1
<1> HIDE DEF verdict, del
<1>7. CycleTypeOK'
  <2>1. plan' \in [publish : SUBSET Listings, delist : SUBSET (Listings \X Reasons)]
    BY <1>2, <1>5, <1>6, NothingPlanned
  <2> QED
    BY <1>0, <1>2, <2>1, NoRunIsRun DEF CycleTypeOK
<1>8. PublishesAreFree'
  <2> SUFFICES ASSUME NEW l \in plan'.publish
               PROVE  /\ \A ch \in Channels : snap.row[<<ch, l[2]>>] # "leased"
                      /\ snap.row[l] = "none"
                      /\ Cardinality(Live(l[1])) + Cardinality(On(plan'.publish, l[1])) <= Cardinality(items.assets)
    BY <1>2 DEF PublishesAreFree, Live
  <2>1. real /\ plan'.publish = pub
    BY <1>2 DEF NoPlan
  <2>2. l[2] \in FreeAssets /\ snap.row[l] = "none"
    BY <2>1, ChoiceIsFree
  <2>3. Cardinality(Live(l[1])) + Cardinality(On(pub, l[1])) <= Cardinality(items.assets)
    BY <1>0, <2>1, BudgetHolds
  <2> QED
    BY <2>1, <2>2, <2>3 DEF FreeAssets
<1> QED
  BY <1>3, <1>4, <1>7, <1>8 DEF ReconcileInv

\* Every step keeps the invariant.
LEMMA ReconcileInvStep == ReconcileInv /\ [Next]_vars => ReconcileInv'
<1> SUFFICES ASSUME ReconcileInv, [Next]_vars PROVE ReconcileInv'
  OBVIOUS
<1>0. WorldTypeOK /\ RowsTypeOK /\ CycleTypeOK /\ RunIsRecorded /\ PublishesAreFree
  BY DEF ReconcileInv
<1>a. ASSUME UNCHANGED <<row, why, age, run>> PROVE RowsTypeOK' /\ RunIsRecorded'
  BY <1>0, <1>a DEF RowsTypeOK, RunIsRecorded
<1>b. ASSUME UNCHANGED <<pc, items, snap, plan>>, elapsed' \in 0 .. Grace
      PROVE  CycleTypeOK' /\ PublishesAreFree'
  BY <1>0, <1>b DEF CycleTypeOK, PublishesAreFree, Live
<1>c. ASSUME UNCHANGED <<stock, route, uuOk, real, changes>>, tainted' \in BOOLEAN, settled' \in BOOLEAN PROVE WorldTypeOK'
  BY <1>0, <1>c DEF WorldTypeOK
<1>d. ASSUME Disturb PROVE changes' \in 0 .. MaxChanges /\ tainted' \in BOOLEAN /\ settled' \in BOOLEAN
  <2>1. changes' \in 0 .. MaxChanges
    BY <1>0, <1>d, ConfigAssumption DEF Disturb, WorldTypeOK
  <2> QED
    BY <1>d, <2>1 DEF Disturb
<1>1. CASE WorldChanges
  <2>1. WorldTypeOK'
    <3>1. uuOk' \in BOOLEAN /\ real' \in BOOLEAN
      BY <1>0, <1>1, Zenon DEF WorldChanges, WorldTypeOK
    <3>2. stock' \subseteq Assets /\ route' \in Routes
      BY <1>0, <1>1 DEF WorldChanges, WorldTypeOK
    <3> QED
      BY <1>1, <1>d, <3>1, <3>2 DEF WorldChanges, WorldTypeOK
  <2> QED
    BY <1>0, <1>1, <1>a, <1>b, <2>1 DEF WorldChanges, rowVars, cycleVars, CycleTypeOK, ReconcileInv
<1>2. CASE Tick
  <2>1. RowsTypeOK' /\ RunIsRecorded'
    BY <1>0, <1>2, TickStep
  <2>2. elapsed' \in 0 .. Grace /\ UNCHANGED <<pc, items, snap, plan>>
    BY <1>0, <1>2, OlderBounded, NoRunIsRun DEF Tick, CycleTypeOK
  <2>3. CycleTypeOK' /\ PublishesAreFree'
    BY <1>0, <1>b, <2>2 DEF CycleTypeOK
  <2> QED
    BY <1>0, <1>2, <1>c, <2>1, <2>3 DEF Tick, worldVars, ReconcileInv, WorldTypeOK
<1>3. ASSUME NEW l \in Listings, NEW s \in RowStates, SyncRow(l, s) PROVE ReconcileInv'
  <2>1. RowsTypeOK' /\ RunIsRecorded'
    <3>1. /\ row' = [row EXCEPT ![l] = s] /\ why' = [why EXCEPT ![l] = ""]
          /\ age' = [age EXCEPT ![l] = 0] /\ run' = [run EXCEPT ![l] = NoRun]
      BY <1>3 DEF SyncRow, Cleared
    <3> QED
      BY <1>0, <3>1, RowCleared
  <2>2. WorldTypeOK'
    BY <1>0, <1>3, <1>d DEF SyncRow, worldVars, WorldTypeOK
  <2>3. CycleTypeOK' /\ PublishesAreFree'
    BY <1>0, <1>3, <1>b DEF SyncRow, cycleVars, CycleTypeOK
  <2> QED
    BY <2>1, <2>2, <2>3 DEF ReconcileInv
<1>g. CASE BeginPlan
  <2>1. CycleTypeOK' /\ PublishesAreFree'
    BY <1>0, <1>g DEF BeginPlan, historyVars, CycleTypeOK, PublishesAreFree
  <2>2. WorldTypeOK'
    BY <1>0, <1>g DEF BeginPlan, worldVars, historyVars, WorldTypeOK
  <2> QED
    BY <1>g, <1>a, <2>1, <2>2 DEF BeginPlan, rowVars, historyVars, ReconcileInv
<1>4. CASE ReadItems
  <2>1. items' \in [assets : SUBSET Assets, route : Routes]
    BY <1>0, <1>4 DEF ReadItems, RoutableInventory, WorldTypeOK
  <2>2. CycleTypeOK' /\ PublishesAreFree'
    BY <1>0, <1>4, <2>1 DEF ReadItems, CycleTypeOK, PublishesAreFree
  <2>3. WorldTypeOK'
    BY <1>0, <1>4 DEF ReadItems, worldVars, WorldTypeOK
  <2> QED
    BY <1>4, <1>a, <2>2, <2>3 DEF ReadItems, rowVars, ReconcileInv
<1>5. CASE ReadListings
  <2>1. snap' \in [row : [Listings -> RowStates], why : [Listings -> GraceReasons \cup {""}],
                   age : [Listings -> 0 .. Grace], uuOk : BOOLEAN]
    BY <1>0, <1>5 DEF ReadListings, RowsTypeOK, WorldTypeOK
  <2>2. CycleTypeOK' /\ PublishesAreFree'
    BY <1>0, <1>5, <2>1 DEF ReadListings, historyVars, CycleTypeOK, PublishesAreFree
  <2>3. WorldTypeOK'
    BY <1>0, <1>5 DEF ReadListings, worldVars, historyVars, WorldTypeOK
  <2> QED
    BY <1>5, <1>a, <2>2, <2>3 DEF ReadListings, rowVars, historyVars, ReconcileInv
<1>6. ASSUME NEW priced \in SUBSET Channels, MakePlan(priced) PROVE ReconcileInv'
  BY <1>6, MakePlanStep
<1>e. \A P : P \subseteq plan.publish => [plan EXCEPT !.publish = P] \in [publish : SUBSET Listings, delist : SUBSET (Listings \X Reasons)]
                                         /\ [plan EXCEPT !.publish = P].publish = P
  BY <1>0 DEF CycleTypeOK
<1>f. \A D : D \subseteq plan.delist => [plan EXCEPT !.delist = D] \in [publish : SUBSET Listings, delist : SUBSET (Listings \X Reasons)]
                                        /\ [plan EXCEPT !.delist = D].publish = plan.publish
  BY <1>0 DEF CycleTypeOK
<1>7. ASSUME NEW l \in Listings, Publish(l) PROVE ReconcileInv'
  <2>1. plan' = [plan EXCEPT !.publish = plan.publish \ {l}] /\ pc = "executing" /\ UNCHANGED <<pc, elapsed, items, snap>>
    BY <1>7 DEF Publish
  <2>2. plan' \in [publish : SUBSET Listings, delist : SUBSET (Listings \X Reasons)] /\ plan'.publish = plan.publish \ {l}
    BY <1>e, <2>1
  <2>3. CycleTypeOK' /\ PublishesAreFree'
    BY <1>0, <2>1, <2>2, ShrinkingPlan DEF CycleTypeOK
  <2>4. RowsTypeOK' /\ RunIsRecorded'
    BY <1>0, <1>7, RowCleared DEF Publish, RowStates
  <2>5. WorldTypeOK'
    BY <1>0, <1>7 DEF Publish, worldVars, WorldTypeOK
  <2> QED
    BY <2>3, <2>4, <2>5 DEF ReconcileInv
<1>8. ASSUME NEW l \in Listings, NEW r \in Reasons, Delist(<<l, r>>) PROVE ReconcileInv'
  <2>1. plan' = [plan EXCEPT !.delist = plan.delist \ {<<l, r>>}] /\ pc = "executing" /\ UNCHANGED <<pc, elapsed, items, snap>>
    BY <1>8 DEF Delist
  <2>2. plan' \in [publish : SUBSET Listings, delist : SUBSET (Listings \X Reasons)] /\ plan'.publish = plan.publish
    BY <1>f, <2>1
  <2>3. CycleTypeOK' /\ PublishesAreFree'
    BY <1>0, <2>1, <2>2, ShrinkingPlan DEF CycleTypeOK
  <2>4. RowsTypeOK' /\ RunIsRecorded'
    BY <1>0, <1>8, RowCleared DEF Delist, RowStates
  <2>5. WorldTypeOK'
    BY <1>0, <1>8 DEF Delist, worldVars, WorldTypeOK
  <2> QED
    BY <2>3, <2>4, <2>5 DEF ReconcileInv
<1>9. CASE SkipAction
  <2>1. pc = "executing" /\ UNCHANGED <<pc, elapsed, items, snap>>
    BY <1>9 DEF SkipAction
  <2>2. plan' \in [publish : SUBSET Listings, delist : SUBSET (Listings \X Reasons)] /\ plan'.publish \subseteq plan.publish
    <3>1. CASE \E l \in plan.publish : plan' = [plan EXCEPT !.publish = @ \ {l}]
      BY <3>1, <1>f
    <3>2. CASE \E d \in plan.delist : plan' = [plan EXCEPT !.delist = @ \ {d}]
      BY <3>2, <1>f
    <3> QED
      BY <1>9, <3>1, <3>2 DEF SkipAction
  <2>3. CycleTypeOK' /\ PublishesAreFree'
    BY <1>0, <2>1, <2>2, ShrinkingPlan DEF CycleTypeOK
  <2>4. WorldTypeOK'
    BY <1>0, <1>9 DEF SkipAction, worldVars, WorldTypeOK
  <2> QED
    BY <1>9, <1>a, <2>3, <2>4 DEF SkipAction, rowVars, ReconcileInv
<1>10. CASE Finish \/ Abort
  <2>1. EndCycle /\ settled' \in BOOLEAN
    BY <1>0, <1>10, Zenon DEF Finish, Abort, WorldTypeOK
  <2>2. CycleTypeOK' /\ PublishesAreFree'
    BY <2>1, NothingPlanned, NoRunIsRun DEF EndCycle, CycleTypeOK, PublishesAreFree
  <2>3. WorldTypeOK'
    BY <1>0, <2>1 DEF EndCycle, worldVars, WorldTypeOK
  <2> QED
    BY <1>a, <2>1, <2>2, <2>3 DEF EndCycle, rowVars, ReconcileInv
<1>11. CASE UNCHANGED vars
  BY <1>0, <1>11, <1>a, <1>b DEF vars, worldVars, rowVars, cycleVars, historyVars, ReconcileInv, WorldTypeOK,
     CycleTypeOK
<1> QED
  BY <1>1, <1>2, <1>3, <1>4, <1>5, <1>6, <1>7, <1>8, <1>9, <1>10, <1>11, <1>g DEF Next

-----------------------------------------------------------------------------
(* Idempotence across cycles *)

\* What a listings table r would make routable, wanted, free and live.
RoutableIn(r) == {a \in stock : \A ch \in Channels : r[<<ch, a>>] # "leased"}
WantedIn(r)   == IF RoutableIn(r) = {} THEN {} ELSE DesiredChannels(route, uuOk)
FreeIn(r, ch) == {l \in {ch} \X RoutableIn(r) : r[l] = "none"}
LiveIn(r, ch) == {l \in Listings : l[1] = ch /\ r[l] = "active"}

\* Nothing is left to publish and nothing to take off at once.
Calm(r) ==
  /\ \A ch \in WantedIn(r) : FreeIn(r, ch) = {} \/ Cardinality(LiveIn(r, ch)) >= Cardinality(RoutableIn(r))
  /\ WantedIn(r) # {} => \A l \in Listings : r[l] = "active" => l[1] \in WantedIn(r)

\* The table when every action still planned has succeeded.
AfterPlan ==
  [l \in Listings |-> IF \E d \in plan.delist : d[1] = l THEN "none"
                      ELSE IF l \in plan.publish THEN "active" ELSE row[l]]

\* As long as nothing disturbs the cycle, what it has read is still true, what it
\* has planned will calm the table, and a settled table is calm.
ReadsHold ==
  /\ ~tainted /\ pc \in {"items", "planning"} => items.assets = RoutableIn(row) /\ items.route = route
  /\ ~tainted /\ pc = "planning" => snap.row = row /\ snap.uuOk = uuOk
PlanCalms  == ~tainted /\ pc = "executing" => Calm(AfterPlan)
SettledIsCalm == settled /\ pc # "executing" => ~tainted /\ Calm(row)

SettledInv == ReadsHold /\ PlanCalms /\ SettledIsCalm

\* The planner of an undisturbed cycle sees the table as it is.
LEMMA PlannerSeesTable ==
  ASSUME ReconcileInv, ReadsHold, ~tainted, pc = "planning"
  PROVE  /\ FreeAssets = RoutableIn(row) /\ Desired = WantedIn(row)
         /\ \A ch : Live(ch) = LiveIn(row, ch)
         /\ snap.row = row /\ FreeAssets \in SUBSET Assets
<1>1. items.assets = RoutableIn(row) /\ items.route = route /\ snap.row = row /\ snap.uuOk = uuOk
  BY Zenon DEF ReadsHold
<1>2. FreeAssets = RoutableIn(row)
  BY <1>1 DEF FreeAssets, RoutableIn
<1>3. Desired = WantedIn(row)
  BY <1>1, <1>2, Zenon DEF Desired, WantedIn
<1>4. \A ch : Live(ch) = LiveIn(row, ch)
  BY <1>1 DEF Live, LiveIn
<1>5. items.assets \in SUBSET Assets
  BY DEF ReconcileInv, CycleTypeOK
<1> QED
  BY <1>1, <1>2, <1>3, <1>4, <1>5

\* The numbers of rows and copies are numbers.
LEMMA CopiesAreNumbers ==
  ASSUME NEW S \in SUBSET Listings
  PROVE  IsFiniteSet(S) /\ Cardinality(S) \in Nat
BY ListingsFinite, FS_Subset, FS_CardinalityType

\* On a wanted channel, the rows that are kept and the copies that are published
\* fill the budget or use every free copy.
LEMMA ChannelCalms ==
  ASSUME ReconcileInv, ReadsHold, ~tainted, pc = "planning",
         NEW kept \in KeepChoices, NEW pub \in PublishChoices(Channels), NEW ch \in Desired, NEW r,
         \A l \in Listings : r[l] = IF Acts(l, Verdict(l, kept)) THEN "none"
                                    ELSE IF l \in pub THEN "active" ELSE row[l]
  PROVE  \/ \A l \in {ch} \X FreeAssets : r[l] # "none"
         \/ Cardinality(LiveIn(r, ch)) >= Cardinality(FreeAssets)
<1> DEFINE K == On(kept, ch)
           P == On(pub, ch)
           L == Live(ch)
           free == {l \in {ch} \X FreeAssets : snap.row[l] = "none"}
           left == IF WantCopies > Cardinality(L) THEN WantCopies - Cardinality(L) ELSE 0
<1>1. /\ snap.row = row /\ FreeAssets \in SUBSET Assets /\ ch \in Channels
      /\ {ch} \X FreeAssets \in SUBSET Listings
  BY PlannerSeesTable, DesiredAreChannels DEF Listings
<1>2. K \in SUBSET L /\ L \in SUBSET Listings /\ free \in SUBSET Listings
  <2>1. K \in SUBSET L
    BY DEF On, KeepChoices, Live
  <2> QED
    BY <1>1, <2>1 DEF Live
<1>3. P \in SUBSET free
  <2>1. \A l \in pub : l \in Desired \X FreeAssets /\ snap.row[l] = "none"
    BY ChoiceIsFree
  <2> QED
    BY <2>1 DEF On
<1>4. Cardinality(K) = Smaller(Cardinality(L), WantCopies)
  BY DEF KeepChoices
<1>5. Cardinality(P) = Smaller(Cardinality(free), left)
  BY <1>1 DEF PublishChoices
<1>6. \A l \in L : l \in kept => ~Acts(l, Verdict(l, kept))
  BY DEF Live, Verdict, Acts, GraceReasons
<1>7. \A l \in free : ~Acts(l, Verdict(l, kept))
  BY DEF Verdict, Acts, GraceReasons
<1>8. \A l \in K : r[l] = "active" /\ l \in LiveIn(r, ch)
  <2> SUFFICES ASSUME NEW l \in K PROVE r[l] = "active" /\ l \in LiveIn(r, ch)
    OBVIOUS
  <2>1. l \in Listings /\ l \in L /\ l \in kept /\ l[1] = ch /\ row[l] = "active"
    BY <1>1, <1>2 DEF On, Live
  <2>2. r[l] = "active"
    BY <1>6, <2>1
  <2> QED
    BY <2>1, <2>2 DEF LiveIn
<1>9. \A l \in P : r[l] = "active" /\ l \in LiveIn(r, ch)
  <2> SUFFICES ASSUME NEW l \in P PROVE r[l] = "active" /\ l \in LiveIn(r, ch)
    OBVIOUS
  <2>1. l \in Listings /\ l \in free /\ l \in pub /\ l[1] = ch
    BY <1>2, <1>3 DEF On
  <2>2. r[l] = "active"
    BY <1>7, <2>1
  <2> QED
    BY <2>1, <2>2 DEF LiveIn
<1>10. LiveIn(r, ch) \in SUBSET Listings
  BY DEF LiveIn
<1>11. K \cap P = {}
  BY <1>2, <1>3 DEF Live
<1>12. WantCopies = Cardinality(FreeAssets) /\ WantCopies \in Nat
  BY <1>1, ConfigAssumption, FS_Subset, FS_CardinalityType DEF WantCopies
<1>13. \A l \in {ch} \X FreeAssets : l \in free \/ (row[l] # "none" /\ l \in Listings)
  BY <1>1
<1>14. \A l \in Listings : l[1] = ch /\ row[l] = "active" => l \in L
  BY <1>1 DEF Live
<1>15. \A l \in Listings : l \notin L /\ l[1] = ch => ~Acts(l, Verdict(l, kept))
  BY <1>1, <1>14 DEF Verdict, Acts, GraceReasons
<1>16. \A l \in {ch} \X FreeAssets : l[1] = ch
  OBVIOUS
<1> HIDE DEF K, P, L, free
<1>17. /\ IsFiniteSet(K) /\ IsFiniteSet(P) /\ IsFiniteSet(L) /\ IsFiniteSet(free) /\ IsFiniteSet(LiveIn(r, ch))
       /\ Cardinality(K) \in Nat /\ Cardinality(P) \in Nat /\ Cardinality(L) \in Nat
       /\ Cardinality(free) \in Nat /\ Cardinality(LiveIn(r, ch)) \in Nat
  <2>1. K \in SUBSET Listings /\ P \in SUBSET Listings
    BY <1>2, <1>3
  <2> QED
    BY <1>2, <1>10, <2>1, CopiesAreNumbers
<1>18. Cardinality(K) + Cardinality(P) <= Cardinality(LiveIn(r, ch))
  <2>1. K \cup P \in SUBSET LiveIn(r, ch)
    BY <1>8, <1>9
  <2>2. Cardinality(K \cup P) = Cardinality(K) + Cardinality(P) - Cardinality({})
    BY <1>11, <1>17, FS_Union
  <2>3. Cardinality(K \cup P) <= Cardinality(LiveIn(r, ch))
    BY <1>17, <2>1, FS_Subset
  <2> QED
    BY <1>17, <2>2, <2>3, FS_EmptySet
<1>19. CASE Cardinality(L) >= WantCopies
  BY <1>4, <1>12, <1>17, <1>18, <1>19 DEF Smaller
<1>20. CASE Cardinality(L) < WantCopies /\ Cardinality(free) > WantCopies - Cardinality(L)
  BY <1>4, <1>5, <1>12, <1>17, <1>18, <1>20 DEF Smaller
<1>21. CASE Cardinality(L) < WantCopies /\ Cardinality(free) <= WantCopies - Cardinality(L)
  <2>1. Cardinality(K) = Cardinality(L) /\ Cardinality(P) = Cardinality(free)
    BY <1>4, <1>5, <1>12, <1>17, <1>21 DEF Smaller
  <2>2. K = L /\ P = free
    BY <1>2, <1>3, <1>17, <2>1, FS_Subset
  <2> SUFFICES ASSUME NEW l \in {ch} \X FreeAssets PROVE r[l] # "none"
    OBVIOUS
  <2>3. CASE l \in free
    BY <1>9, <2>2, <2>3
  <2>4. CASE l \in L
    BY <1>8, <2>2, <2>4
  <2>5. CASE l \notin free /\ l \notin L
    <3>1. l \in Listings /\ row[l] # "none" /\ ~Acts(l, Verdict(l, kept))
      BY <1>13, <1>15, <1>16, <2>5
    <3> QED
      BY <3>1
  <2> QED
    BY <2>3, <2>4, <2>5
<1> QED
  BY <1>12, <1>17, <1>19, <1>20, <1>21

\* planFrom: a plan made in an undisturbed cycle, with every channel priced, calms
\* the table when it is carried out.
LEMMA PlanIsCalm ==
  ASSUME ReconcileInv, ReadsHold, ~tainted, pc = "planning",
         NEW kept \in KeepChoices, NEW pub \in PublishChoices(Channels), NEW r,
         \A l \in Listings : r[l] = IF Acts(l, Verdict(l, kept)) THEN "none"
                                    ELSE IF l \in pub THEN "active" ELSE row[l]
  PROVE  Calm(r)
<1>1. /\ FreeAssets = RoutableIn(row) /\ Desired = WantedIn(row)
      /\ snap.row = row /\ FreeAssets \in SUBSET Assets
  BY PlannerSeesTable
<1>2. \A l \in Listings : row[l] # "active" => ~Acts(l, Verdict(l, kept))
  BY <1>1 DEF Verdict, Acts, GraceReasons
<1>3. \A l \in Listings : l \in pub => row[l] = "none" /\ l[1] \in Desired
  BY <1>1, ChoiceIsFree
<1>4. \A l \in Listings : r[l] = "leased" <=> row[l] = "leased"
  BY <1>2, <1>3
<1>5. RoutableIn(r) = FreeAssets
  <2>1. stock \subseteq Assets
    BY DEF ReconcileInv, WorldTypeOK
  <2>2. \A a \in stock, ch \in Channels : <<ch, a>> \in Listings
    BY <2>1 DEF Listings
  <2>3. RoutableIn(r) = RoutableIn(row)
    BY <1>4, <2>2 DEF RoutableIn
  <2> QED
    BY <1>1, <2>3
<1>6. WantedIn(r) = Desired
  BY <1>1, <1>5, Zenon DEF WantedIn
<1>7. ASSUME NEW ch \in WantedIn(r)
      PROVE  FreeIn(r, ch) = {} \/ Cardinality(LiveIn(r, ch)) >= Cardinality(RoutableIn(r))
  <2>1. \/ \A l \in {ch} \X FreeAssets : r[l] # "none"
        \/ Cardinality(LiveIn(r, ch)) >= Cardinality(FreeAssets)
    BY <1>6, ChannelCalms
  <2>2. FreeIn(r, ch) = {l \in {ch} \X FreeAssets : r[l] = "none"}
    BY <1>5 DEF FreeIn
  <2> QED
    BY <1>5, <2>1, <2>2
<1>8. ASSUME WantedIn(r) # {}, NEW l \in Listings, r[l] = "active"
      PROVE  l[1] \in WantedIn(r)
  <2>1. CASE l \in pub
    BY <1>3, <1>6, <2>1
  <2>2. CASE l \notin pub
    <3>1. row[l] = "active" /\ ~Acts(l, Verdict(l, kept))
      BY <1>8, <2>2
    <3>2. l[1] \notin Desired => Verdict(l, kept) = "not_routed"
      BY <1>1, <1>6, <1>8, <3>1 DEF Verdict
    <3> QED
      BY <1>6, <3>1, <3>2 DEF Acts
  <2> QED
    BY <2>1, <2>2
<1> QED
  BY <1>7, <1>8 DEF Calm

\* What the properties of the cycle are about stays as it is.
LEMMA UndisturbedStep ==
  ASSUME SettledInv, UNCHANGED <<stock, route, uuOk, row, pc, items, snap, plan, tainted, settled>>
  PROVE  SettledInv'
<1>1. AfterPlan' = AfterPlan
  BY DEF AfterPlan
<1>2. /\ Calm(AfterPlan)' <=> Calm(AfterPlan)
      /\ Calm(row)' <=> Calm(row)
  BY <1>1 DEF Calm, WantedIn, RoutableIn, FreeIn, LiveIn
<1>3. RoutableIn(row)' = RoutableIn(row)
  BY DEF RoutableIn
<1>4. ReadsHold'
  BY <1>3 DEF SettledInv, ReadsHold
<1> QED
  BY <1>2, <1>4, Zenon DEF SettledInv, PlanCalms, SettledIsCalm

\* A disturbed cycle promises nothing.
LEMMA DisturbedStep == ASSUME tainted', ~settled' PROVE SettledInv'
BY DEF SettledInv, ReadsHold, PlanCalms, SettledIsCalm

\* Carrying out an action brings the table closer to what was planned.
LEMMA ActionStep ==
  ASSUME SettledInv, pc = "executing", UNCHANGED <<stock, route, uuOk, pc, tainted>>, AfterPlan' = AfterPlan
  PROVE  SettledInv'
<1>1. Calm(AfterPlan)' <=> Calm(AfterPlan)
  BY DEF Calm, WantedIn, RoutableIn, FreeIn, LiveIn
<1> QED
  BY <1>1, Zenon DEF SettledInv, ReadsHold, PlanCalms, SettledIsCalm

\* Every step keeps what settling needs.
LEMMA SettledInvStep ==
  ASSUME ReconcileInv, SettledInv, [Next]_vars
  PROVE  SettledInv'
<1>0. /\ pc \in {"idle", "begun", "items", "planning", "executing"} /\ row \in [Listings -> RowStates]
      /\ plan \in [publish : SUBSET Listings, delist : SUBSET (Listings \X Reasons)]
  BY DEF ReconcileInv, CycleTypeOK, RowsTypeOK
<1>1. ASSUME Disturb PROVE SettledInv'
  BY <1>1, DisturbedStep DEF Disturb
<1>2. CASE Tick
  BY <1>2, UndisturbedStep DEF Tick, worldVars, cycleVars
<1>b. CASE BeginPlan
  <2>1. pc = "idle" /\ pc' = "begun" /\ UNCHANGED <<stock, route, uuOk, row, tainted, settled>>
    BY <1>b DEF BeginPlan, worldVars, rowVars, historyVars
  <2>2. Calm(row)' <=> Calm(row)
    BY <2>1 DEF Calm, WantedIn, RoutableIn, FreeIn, LiveIn
  <2> QED
    BY <2>1, <2>2 DEF SettledInv, ReadsHold, PlanCalms, SettledIsCalm
<1>3. CASE ReadItems
  <2>1. /\ pc = "begun" /\ pc' = "items" /\ items'.assets = RoutableInventory /\ items'.route = route
        /\ ~tainted' /\ UNCHANGED <<stock, route, uuOk, row, settled>>
    BY <1>3 DEF ReadItems, worldVars, rowVars
  <2>2. RoutableInventory = RoutableIn(row) /\ RoutableIn(row)' = RoutableIn(row)
    BY <2>1 DEF RoutableInventory, RoutableIn
  <2>3. Calm(row)' <=> Calm(row)
    BY <2>1 DEF Calm, WantedIn, RoutableIn, FreeIn, LiveIn
  <2>4. ReadsHold' /\ PlanCalms'
    BY <2>1, <2>2 DEF ReadsHold, PlanCalms
  <2>5. SettledIsCalm'
    BY <2>1, <2>3 DEF SettledInv, SettledIsCalm
  <2> QED
    BY <2>4, <2>5 DEF SettledInv
<1>4. CASE ReadListings
  <2>1. /\ pc = "items" /\ pc' = "planning" /\ snap'.row = row /\ snap'.uuOk = uuOk
        /\ UNCHANGED <<stock, route, uuOk, row, items, tainted, settled>>
    BY <1>4 DEF ReadListings, worldVars, rowVars, historyVars
  <2>2. RoutableIn(row)' = RoutableIn(row)
    BY <2>1 DEF RoutableIn
  <2>3. Calm(row)' <=> Calm(row)
    BY <2>1 DEF Calm, WantedIn, RoutableIn, FreeIn, LiveIn
  <2>4. ReadsHold' /\ PlanCalms'
    BY <2>1, <2>2 DEF SettledInv, ReadsHold, PlanCalms
  <2>5. SettledIsCalm'
    BY <2>1, <2>3 DEF SettledInv, SettledIsCalm
  <2> QED
    BY <2>4, <2>5 DEF SettledInv
<1>5. ASSUME NEW priced \in SUBSET Channels, MakePlan(priced) PROVE SettledInv'
  <2>1. PICK kept \in KeepChoices, pub \in PublishChoices(priced) :
          LET verdict == [l \in Listings |-> Verdict(l, kept)] IN
          plan' = IF ~real THEN NoPlan
                  ELSE [publish |-> pub,
                        delist |-> {<<l, verdict[l]>> : l \in {m \in Listings : Acts(m, verdict[m])}}]
    BY <1>5 DEF MakePlan
  <2>2. /\ pc = "planning" /\ pc' = "executing" /\ UNCHANGED <<stock, route, uuOk, row>>
        /\ ~tainted' => ~tainted /\ priced = Channels /\ real
    BY <1>5, Zenon DEF MakePlan, worldVars
  <2>3. ASSUME ~tainted' PROVE Calm(AfterPlan)'
    <3> DEFINE gone(l) == \E d \in plan'.delist : d[1] = l
               r == [l \in Listings |-> IF gone(l) THEN "none" ELSE IF l \in plan'.publish THEN "active" ELSE row[l]]
    <3>1. ~tainted /\ priced = Channels /\ real
      BY <2>2, <2>3
    <3>2. /\ plan'.publish = pub
          /\ plan'.delist = {<<l, Verdict(l, kept)>> : l \in {m \in Listings : Acts(m, Verdict(m, kept))}}
      BY <2>1, <3>1
    <3>3. \A l \in Listings : gone(l) <=> Acts(l, Verdict(l, kept))
      <4>1. ASSUME NEW l \in Listings, Acts(l, Verdict(l, kept)) PROVE gone(l)
        <5>1. <<l, Verdict(l, kept)>> \in plan'.delist /\ <<l, Verdict(l, kept)>>[1] = l
          BY <3>2, <4>1
        <5> QED
          BY <5>1
      <4>2. ASSUME NEW l \in Listings, gone(l) PROVE Acts(l, Verdict(l, kept))
        BY <3>2, <4>2
      <4> QED
        BY <4>1, <4>2
    <3>4. \A l \in Listings : r[l] = IF Acts(l, Verdict(l, kept)) THEN "none"
                                     ELSE IF l \in pub THEN "active" ELSE row[l]
      BY <3>2, <3>3
    <3>5. AfterPlan' = r
      BY <2>2 DEF AfterPlan
    <3> HIDE DEF r
    <3>6. Calm(r)
      BY <2>2, <3>1, <3>4, PlanIsCalm DEF SettledInv
    <3> QED
      BY <2>2, <3>5, <3>6 DEF Calm, WantedIn, RoutableIn, FreeIn, LiveIn
  <2> QED
    BY <2>2, <2>3 DEF SettledInv, ReadsHold, PlanCalms, SettledIsCalm
<1>6. ASSUME NEW l \in Listings, Publish(l) PROVE SettledInv'
  <2>1. /\ pc = "executing" /\ l \in plan.publish /\ UNCHANGED <<stock, route, uuOk, pc, tainted>>
        /\ plan' = [plan EXCEPT !.publish = @ \ {l}] /\ row' = [row EXCEPT ![l] = "active"]
    BY <1>6 DEF Publish, worldVars
  <2>2. plan'.publish = plan.publish \ {l} /\ plan'.delist = plan.delist
    BY <1>0, <2>1
  <2>3. \A m \in Listings : row'[m] = IF m = l THEN "active" ELSE row[m]
    BY <1>0, <2>1
  <2>4. AfterPlan' = AfterPlan
    BY <2>1, <2>2, <2>3 DEF AfterPlan
  <2> QED
    BY <2>1, <2>4, ActionStep
<1>7. ASSUME NEW l \in Listings, NEW reason \in Reasons, Delist(<<l, reason>>) PROVE SettledInv'
  <2>1. /\ pc = "executing" /\ plan.publish = {} /\ <<l, reason>> \in plan.delist
        /\ UNCHANGED <<stock, route, uuOk, pc, tainted>>
        /\ plan' = [plan EXCEPT !.delist = @ \ {<<l, reason>>}] /\ row' = [row EXCEPT ![l] = "none"]
    BY <1>7 DEF Delist, worldVars
  <2>2. plan'.publish = {} /\ plan'.delist = plan.delist \ {<<l, reason>>}
    BY <1>0, <2>1
  <2>3. \A m \in Listings : row'[m] = IF m = l THEN "none" ELSE row[m]
    BY <1>0, <2>1
  <2>4. \A m \in Listings : m # l => ((\E d \in plan'.delist : d[1] = m) <=> \E d \in plan.delist : d[1] = m)
    BY <2>2
  <2>5. \E d \in plan.delist : d[1] = l
    BY <2>1
  <2>6. AfterPlan' = AfterPlan
    BY <2>1, <2>2, <2>3, <2>4, <2>5 DEF AfterPlan
  <2> QED
    BY <2>1, <2>6, ActionStep
<1>8. CASE SkipAction
  BY <1>8 DEF SkipAction, SettledInv, ReadsHold, PlanCalms, SettledIsCalm
<1>9. CASE Finish
  <2>1. /\ pc = "executing" /\ pc' = "idle" /\ plan = NoPlan /\ UNCHANGED <<stock, route, uuOk, row, tainted>>
        /\ settled' = ~tainted
    BY <1>9 DEF Finish, EndCycle, worldVars, rowVars
  <2>2. AfterPlan = row
    BY <1>0, <2>1 DEF AfterPlan, NoPlan
  <2>3. ~tainted => Calm(row)
    BY <2>1, <2>2 DEF SettledInv, PlanCalms
  <2>4. Calm(row)' <=> Calm(row)
    BY <2>1 DEF Calm, WantedIn, RoutableIn, FreeIn, LiveIn
  <2>5. settled' => ~tainted' /\ Calm(row)'
    BY <2>1, <2>3, <2>4, Zenon
  <2> QED
    BY <2>1, <2>5 DEF SettledInv, ReadsHold, PlanCalms, SettledIsCalm
<1>10. CASE Abort
  BY <1>10 DEF Abort, EndCycle, SettledInv, ReadsHold, PlanCalms, SettledIsCalm
<1>11. CASE UNCHANGED vars
  BY <1>11, UndisturbedStep DEF vars, worldVars, rowVars, cycleVars, historyVars
<1>12. ASSUME NEW l, NEW s, SyncRow(l, s) PROVE SettledInv'
  BY <1>1, <1>12 DEF SyncRow
<1>13. CASE WorldChanges
  BY <1>1, <1>13 DEF WorldChanges
<1> QED
  BY <1>2, <1>3, <1>4, <1>5, <1>6, <1>7, <1>8, <1>9, <1>10, <1>11, <1>12, <1>13, <1>b, Zenon DEF Next

\* A calm table gives an empty plan, but for rows whose grace period is over.
LEMMA CalmPlanIsEmpty ==
  ASSUME ReconcileInv, SettledInv, settled, NEW priced \in SUBSET Channels, MakePlan(priced)
  PROVE  plan'.publish = {} /\ \A d \in plan'.delist : d[2] \in GraceReasons
<1>1. PICK kept \in KeepChoices, pub \in PublishChoices(priced) :
        LET verdict == [l \in Listings |-> Verdict(l, kept)] IN
        plan' = IF ~real THEN NoPlan
                ELSE [publish |-> pub,
                      delist |-> {<<l, verdict[l]>> : l \in {m \in Listings : Acts(m, verdict[m])}}]
  BY DEF MakePlan
<1>2. pc = "planning"
  BY DEF MakePlan
<1>3. ~tainted /\ Calm(row) /\ ReadsHold
  BY <1>2 DEF SettledInv, SettledIsCalm
<1>4. /\ FreeAssets = RoutableIn(row) /\ Desired = WantedIn(row)
      /\ \A ch : Live(ch) = LiveIn(row, ch)
      /\ snap.row = row /\ FreeAssets \in SUBSET Assets
  BY <1>2, <1>3, PlannerSeesTable
<1>5. pub = {}
  <2> SUFFICES ASSUME NEW l \in pub PROVE FALSE
    OBVIOUS
  <2> DEFINE ch == l[1]
             free == {m \in {ch} \X FreeAssets : snap.row[m] = "none"}
             left == IF WantCopies > Cardinality(Live(ch)) THEN WantCopies - Cardinality(Live(ch)) ELSE 0
  <2>1. ch \in Desired /\ l \in Desired \X FreeAssets /\ snap.row[l] = "none"
    BY ChoiceIsFree
  <2>2. Cardinality(On(pub, ch)) = IF ch \in priced THEN Smaller(Cardinality(free), left) ELSE 0
    BY <2>1 DEF PublishChoices
  <2>3. l \in free
    BY <2>1
  <2>4. free = FreeIn(row, ch)
    BY <1>4 DEF FreeIn
  <2>5. Cardinality(Live(ch)) >= WantCopies
    BY <1>3, <1>4, <2>1, <2>3, <2>4 DEF Calm, WantCopies
  <2>6. free \in SUBSET Listings /\ On(pub, ch) \in SUBSET Listings /\ l \in On(pub, ch)
    <3>1. \A m \in pub : m \in Desired \X FreeAssets
      BY ChoiceIsFree
    <3> QED
      BY <1>4, <2>1, <3>1, DesiredAreChannels DEF Listings, On
  <2>7. Cardinality(free) \in Nat /\ IsFiniteSet(On(pub, ch)) /\ Live(ch) \in SUBSET Listings
    BY <2>6, CopiesAreNumbers DEF Live
  <2>8. Cardinality(Live(ch)) \in Nat /\ WantCopies \in Nat
    BY <1>4, <2>7, CopiesAreNumbers, ConfigAssumption, FS_Subset, FS_CardinalityType DEF WantCopies
  <2> HIDE DEF free, ch
  <2>9. Cardinality(On(pub, ch)) = 0
    BY <2>2, <2>5, <2>7, <2>8 DEF Smaller
  <2> QED
    BY <2>6, <2>7, <2>9, FS_EmptySet
<1>6. ASSUME NEW l \in Listings, Acts(l, Verdict(l, kept)) PROVE Verdict(l, kept) \in GraceReasons
  <2>1. Verdict(l, kept) # "not_routed"
    BY <1>3, <1>4 DEF Calm, Verdict
  <2> QED
    BY <1>6, <2>1 DEF Acts
<1>7. CASE ~real
  BY <1>1, <1>7 DEF NoPlan
<1>8. CASE real
  <2>1. plan'.publish = pub
    BY <1>1, <1>8
  <2>2. \A d \in plan'.delist : \E l \in Listings : Acts(l, Verdict(l, kept)) /\ d = <<l, Verdict(l, kept)>>
    BY <1>1, <1>8
  <2>3. \A d \in plan'.delist : d[2] \in GraceReasons
    BY <1>6, <2>2
  <2> QED
    BY <1>5, <2>1, <2>3
<1> QED
  BY <1>7, <1>8

-----------------------------------------------------------------------------
(* Theorems *)

\* ObserveReconMismatches: the grace period matures only on continuous
\* observations of one condition: a recorded age is the time since the first of
\* them was written and the time that cycle had planned until then, whatever the
\* sync jobs do between the planner's reads and its write.
THEOREM ObservationsAreContinuous == Spec => []ObservationIsContinuous
<1>1. ReconcileInv => ObservationIsContinuous
  BY DEF ReconcileInv, RunIsRecorded, ObservationIsContinuous
<1> QED
  BY <1>1, ReconcileInvInit, ReconcileInvStep, PTL DEF Spec

\* Planner.Plan: a plan never publishes a copy that was leased, or listed on that
\* channel, when the listings were read, and never more than the copies allow.
THEOREM PlansPublishFreeCopies == Spec => []PublishesAreFree
<1>1. ReconcileInv => PublishesAreFree
  BY DEF ReconcileInv
<1> QED
  BY <1>1, ReconcileInvInit, ReconcileInvStep, PTL DEF Spec

\* Rows, observations and plans keep their shape; an age never passes the grace
\* period.
THEOREM ReconcileTypeCorrect == Spec => []TypeOK
<1>1. ReconcileInv => TypeOK
  BY DEF ReconcileInv, TypeOK, WorldTypeOK, RowsTypeOK, CycleTypeOK
<1> QED
  BY <1>1, ReconcileInvInit, ReconcileInvStep, PTL DEF Spec

\* Planner and executor together: after a cycle in which every action succeeded,
\* and with nothing changed since, the next plan publishes nothing and takes off
\* nothing but rows whose grace period is over; for any number of copies, in
\* whatever order the queries return them.
THEOREM SettledCyclesAreIdempotent == Spec => SettledPlanIsEmpty
<1> DEFINE Both == ReconcileInv /\ SettledInv
<1>1. Init => Both
  BY ReconcileInvInit DEF Init, SettledInv, ReadsHold, PlanCalms, SettledIsCalm
<1>2. Both /\ [Next]_vars => Both'
  BY ReconcileInvStep, SettledInvStep
<1>3. Both /\ [Next]_vars =>
        [pc = "planning" /\ pc' = "executing" /\ settled =>
           plan'.publish = {} /\ \A d \in plan'.delist : d[2] \in GraceReasons]_vars
  <2> SUFFICES ASSUME Both, Next, pc = "planning", pc' = "executing", settled
               PROVE  plan'.publish = {} /\ \A d \in plan'.delist : d[2] \in GraceReasons
    BY Zenon
  <2>1. \E priced \in SUBSET Channels : MakePlan(priced)
    BY DEF Next, WorldChanges, Tick, SyncRow, BeginPlan, ReadItems, ReadListings, Publish, Delist, SkipAction, Finish,
           Abort, EndCycle, cycleVars
  <2> QED
    BY <2>1, CalmPlanIsEmpty
<1> HIDE DEF Both
<1> QED
  BY <1>1, <1>2, <1>3, PTL DEF Spec, SettledPlanIsEmpty
=============================================================================
