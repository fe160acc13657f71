----------------------------- MODULE Reconcile -----------------------------
(***************************************************************************)
(* The reconcile job for the copies of one commodity (hash_name): Planner  *)
(* reads the routable inventory, then the listing rows, compares desired   *)
(* with actual, records which listings are out of place, and the Executor  *)
(* publishes and delists what the plan says.  Meanwhile the sync jobs      *)
(* rewrite inventory and rows and an operator changes route and gate.      *)
(*                                                                         *)
(* A listing is a channel and an asset.  Time is counted up to the grace   *)
(* period: from the stamp of an observation (`age`), which is the clock    *)
(* value the planner took before its reads (`elapsed` ago).                *)
(***************************************************************************)
EXTENDS Integers, FiniteSets, FiniteSetsExt

CONSTANTS
  Assets,      \* asset ids of the commodity
  Grace,       \* OrphanGrace
  MaxChanges   \* bound: steps of the sync jobs and the operator

ASSUME ConfigAssumption == IsFiniteSet(Assets) /\ Grace \in Nat \ {0} /\ MaxChanges \in Nat

Channels == {"uu", "eco"}
Routes   == {"uu_only", "eco_only", "uu_primary_eco_fallback", "both"}
Listings == Channels \X Assets
RowStates    == {"none", "active", "leased"}
GraceReasons == {"orphan_not_routable", "surplus_copies"}
Reasons      == GraceReasons \cup {"not_routed", ""}

VARIABLES
  stock,    \* assets with an in_stock / listed, tradable inventory row
  route,    \* effective channel_route of the commodity
  uuOk,     \* Health["uu"] = "ok"
  real,     \* real execution enabled (both gates)
  row,      \* listings.actual_state
  why,      \* listings.recon_mismatch_reason ("": NULL)
  age,      \* time since recon_mismatch_since
  changes,  \* steps of the sync jobs and the operator so far
  pc,       \* reconcileFn: "idle", "begun", "items", "planning", "executing"
  elapsed,  \* time since cycle.Now, until the observations are written
  items,    \* result of RoutableInventory
  snap,     \* result of AllActiveListings and Health
  plan,     \* actions not executed yet
  run,      \* history: the unbroken run of equal verdicts on a listing, the time
            \* since its first write and how long that planning had taken by then
  tainted,  \* history: something failed or changed during the cycle
  settled   \* history: a cycle ended untainted and nothing changed since

worldVars   == <<stock, route, uuOk, real>>
rowVars     == <<row, why, age>>
cycleVars   == <<pc, elapsed, items, snap, plan>>
historyVars == <<run, tainted, settled>>
vars == <<worldVars, rowVars, changes, cycleVars, historyVars>>

Runs    == [reason : GraceReasons \cup {""}, age : 0 .. Grace, lag : 0 .. Grace]
NoRun   == [reason |-> "", age |-> 0, lag |-> 0]
NoItems == [assets |-> {}, route |-> "both"]
NoSnap  == [row |-> [l \in Listings |-> "none"], why |-> [l \in Listings |-> ""],
            age |-> [l \in Listings |-> 0], uuOk |-> TRUE]
NoPlan  == [publish |-> {}, delist |-> {}]

TypeOK ==
  /\ stock \subseteq Assets /\ route \in Routes /\ uuOk \in BOOLEAN /\ real \in BOOLEAN
  /\ row \in [Listings -> RowStates]
  /\ why \in [Listings -> GraceReasons \cup {""}] /\ age \in [Listings -> 0 .. Grace]
  /\ changes \in 0 .. MaxChanges
  /\ pc \in {"idle", "begun", "items", "planning", "executing"} /\ elapsed \in 0 .. Grace
  /\ items \in [assets : SUBSET Assets, route : Routes]
  /\ snap \in [row : [Listings -> RowStates], why : [Listings -> GraceReasons \cup {""}],
               age : [Listings -> 0 .. Grace], uuOk : BOOLEAN]
  /\ plan \in [publish : SUBSET Listings, delist : SUBSET (Listings \X Reasons)]
  /\ run \in [Listings -> Runs] /\ tainted \in BOOLEAN /\ settled \in BOOLEAN

Init ==
  /\ stock = Assets /\ route \in Routes /\ uuOk = TRUE /\ real = TRUE
  /\ row = NoSnap.row /\ why = NoSnap.why /\ age = NoSnap.age
  /\ changes = 0
  /\ pc = "idle" /\ elapsed = 0 /\ items = NoItems /\ snap = NoSnap /\ plan = NoPlan
  /\ run = [l \in Listings |-> NoRun] /\ tainted = TRUE /\ settled = FALSE

-----------------------------------------------------------------------------
(* The sync jobs, the operator and time *)

Disturb ==
  /\ changes < MaxChanges /\ changes' = changes + 1
  /\ tainted' = TRUE /\ settled' = FALSE

\* Inventory sync, route or template change, UU probe, real-execution gate.
WorldChanges ==
  /\ Disturb
  /\ \/ \E a \in Assets : stock' = (stock \ {a}) \cup ({a} \ stock) /\ UNCHANGED <<route, uuOk, real>>
     \/ route' \in Routes \ {route} /\ UNCHANGED <<stock, uuOk, real>>
     \/ uuOk' = ~uuOk /\ UNCHANGED <<stock, route, real>>
     \/ real' = ~real /\ UNCHANGED <<stock, route, uuOk>>
  /\ UNCHANGED <<rowVars, cycleVars, run>>

\* Fault: only the end of a lease drops the observation.
ClearedOnReturn(l) == row[l] = "leased"

\* A sync that changes the state of a row drops the observation it carried.
Cleared(l) == TRUE

\* Shelf sync: upsertListingFromShelf, or markMissingListings (active rows only).
\* UU's shelf never says leased.
SyncRow(l, s) ==
  /\ Disturb
  /\ s # row[l] /\ ~(row[l] = "leased" /\ s = "none") /\ (s = "leased" => l[1] = "eco")
  /\ row' = [row EXCEPT ![l] = s]
  /\ why' = [why EXCEPT ![l] = IF Cleared(l) THEN "" ELSE @]
  /\ age' = [age EXCEPT ![l] = IF Cleared(l) THEN 0 ELSE @]
  /\ run' = [run EXCEPT ![l] = NoRun]
  /\ UNCHANGED <<worldVars, cycleVars>>

Older(n) == IF n < Grace THEN n + 1 ELSE n

\* Time passes at any point of a cycle.
Tick ==
  /\ age' = [l \in Listings |-> IF why[l] = "" THEN 0 ELSE Older(age[l])]
  /\ run' = [l \in Listings |-> IF run[l].reason = "" THEN NoRun
                                ELSE [run[l] EXCEPT !.age = Older(@)]]
  /\ elapsed' = IF pc \in {"begun", "items", "planning"} THEN Older(elapsed) ELSE 0
  /\ UNCHANGED <<worldVars, row, why, changes, pc, items, snap, plan, tainted, settled>>

-----------------------------------------------------------------------------
(* Planner.Plan *)

\* desiredChannels
DesiredChannels(r, ok) ==
  CASE r = "uu_only" -> {"uu"}
    [] r = "eco_only" -> {"eco"}
    [] r = "uu_primary_eco_fallback" -> IF ok THEN {"uu"} ELSE {"eco"}
    [] OTHER -> Channels

\* In stock, and no channel has a leased row for the asset.
RoutableInventory == {a \in stock : \A ch \in Channels : row[<<ch, a>>] # "leased"}

\* Plan resolves the clock value of the cycle.
BeginPlan ==
  /\ pc = "idle" /\ pc' = "begun"
  /\ UNCHANGED <<worldVars, rowVars, changes, elapsed, items, snap, plan, historyVars>>

ReadItems ==
  /\ pc = "begun" /\ pc' = "items"
  /\ items' = [assets |-> RoutableInventory, route |-> route]
  /\ tainted' = FALSE
  /\ UNCHANGED <<worldVars, rowVars, changes, elapsed, snap, plan, run, settled>>

\* AllActiveListings, a later query than RoutableInventory, then Health.
ReadListings ==
  /\ pc = "items" /\ pc' = "planning"
  /\ snap' = [row |-> row, why |-> why, age |-> age, uuOk |-> uuOk]
  /\ UNCHANGED <<worldVars, rowVars, changes, elapsed, items, plan, historyVars>>

\* Fault: the inventory query alone decides what is free.
InventoryAssets == items.assets

\* Items whose asset no listing of the snapshot shows as leased.
FreeAssets == {a \in items.assets : \A ch \in Channels : snap.row[<<ch, a>>] # "leased"}

\* desiredByHash: no channel when no copy is routable.
Desired == IF FreeAssets = {} THEN {} ELSE DesiredChannels(items.route, snap.uuOk)

WantCopies == Cardinality(FreeAssets)
Live(ch)   == {l \in Listings : l[1] = ch /\ snap.row[l] = "active"}
Smaller(m, n) == IF m < n THEN m ELSE n
On(S, ch)  == {l \in S : l[1] = ch}

\* Publish pass: free copies without a row on the channel, within the budget the
\* live rows leave, in the order the inventory query happened to return; none
\* on a channel without a valid price.
PublishChoices(priced) ==
  {P \in SUBSET {l \in Desired \X FreeAssets : snap.row[l] = "none"} :
     \A ch \in Desired :
       LET free == {l \in {ch} \X FreeAssets : snap.row[l] = "none"}
           left == IF WantCopies > Cardinality(Live(ch)) THEN WantCopies - Cardinality(Live(ch)) ELSE 0
       IN Cardinality(On(P, ch)) = IF ch \in priced THEN Smaller(Cardinality(free), left) ELSE 0}

\* Delist pass: which live rows of a channel are met within the wanted count is
\* the order of a query without ORDER BY.
KeepChoices ==
  {K \in SUBSET UNION {Live(ch) : ch \in Desired} :
     \A ch \in Desired : Cardinality(On(K, ch)) = Smaller(Cardinality(Live(ch)), WantCopies)}

\* The reason of each live row ("not_routed" stands for "uu_unhealthy_failover"
\* too: both act at once).
Verdict(l, kept) ==
  CASE snap.row[l] # "active" -> ""
    [] snap.row[l] = "active" /\ Desired = {} -> "orphan_not_routable"
    [] snap.row[l] = "active" /\ Desired # {} /\ l[1] \notin Desired -> "not_routed"
    [] snap.row[l] = "active" /\ l[1] \in Desired /\ l \notin kept -> "surplus_copies"
    [] OTHER -> ""

\* A grace verdict acts only when the same one has been recorded long enough.
Acts(l, v) ==
  \/ v = "not_routed"
  \/ v \in GraceReasons /\ snap.why[l] = v /\ snap.age[l] >= Grace

\* Fault: every observation restarts the clock.
ObserveRestarts(verdict) ==
  LET reason(l) == IF verdict[l] \in GraceReasons /\ row[l] = "active" THEN verdict[l] ELSE ""
  IN /\ why' = [l \in Listings |-> IF snap.row[l] # "none" THEN reason(l) ELSE why[l]]
     /\ age' = [l \in Listings |-> IF snap.row[l] # "none" THEN 0 ELSE age[l]]
     /\ UNCHANGED run

\* ObserveReconMismatches: on the rows as they are when the UPDATE runs, with the
\* clock value from before the reads.
Observe(verdict) ==
  LET seen(l) == snap.row[l] # "none"
      reason(l) == IF verdict[l] \in GraceReasons /\ row[l] = "active" THEN verdict[l] ELSE ""
  IN /\ why' = [l \in Listings |-> IF seen(l) THEN reason(l) ELSE why[l]]
     /\ age' = [l \in Listings |-> IF ~seen(l) \/ reason(l) = why[l] THEN age[l]
                                   ELSE IF reason(l) = "" THEN 0 ELSE elapsed]
     /\ run' = [l \in Listings |-> IF ~seen(l) \/ reason(l) = run[l].reason THEN run[l]
                                   ELSE IF reason(l) = "" THEN NoRun
                                   ELSE [reason |-> reason(l), age |-> 0, lag |-> elapsed]]

\* planFrom and the observation; a closed gate makes the whole plan a record.
MakePlan(priced) ==
  /\ pc = "planning" /\ pc' = "executing"
  /\ \E kept \in KeepChoices, pub \in PublishChoices(priced) :
       LET verdict == [l \in Listings |-> Verdict(l, kept)] IN
       /\ Observe(verdict)
       /\ plan' = IF ~real THEN NoPlan
                  ELSE [publish |-> pub,
                        delist |-> {<<l, verdict[l]>> : l \in {m \in Listings : Acts(m, verdict[m])}}]
  /\ elapsed' = 0
  /\ tainted' = (tainted \/ priced # Channels \/ ~real)
  /\ UNCHANGED <<worldVars, row, changes, items, snap, settled>>

-----------------------------------------------------------------------------
(* Executor.ExecuteWithError: the publishes, then the delists *)

\* Fault: a successful publish is not written back.
PublishUnrecorded(l) ==
  /\ pc = "executing" /\ l \in plan.publish /\ row[l] = "none"
  /\ plan' = [plan EXCEPT !.publish = @ \ {l}]
  /\ UNCHANGED <<worldVars, rowVars, changes, pc, elapsed, items, snap, historyVars>>

\* PublishLease succeeds (the asset is not on that shelf yet) and
\* RecordPublishedListing writes the row.
Publish(l) ==
  /\ pc = "executing" /\ l \in plan.publish /\ row[l] = "none"
  /\ plan' = [plan EXCEPT !.publish = @ \ {l}]
  /\ row' = [row EXCEPT ![l] = "active"]
  /\ why' = [why EXCEPT ![l] = ""] /\ age' = [age EXCEPT ![l] = 0]
  /\ run' = [run EXCEPT ![l] = NoRun]
  /\ UNCHANGED <<worldVars, changes, pc, elapsed, items, snap, tainted, settled>>

\* Delist succeeds (the goods are still on the shelf) and MarkListingDelisted
\* writes the row.
Delist(d) ==
  /\ pc = "executing" /\ plan.publish = {} /\ d \in plan.delist /\ row[d[1]] = "active"
  /\ plan' = [plan EXCEPT !.delist = @ \ {d}]
  /\ row' = [row EXCEPT ![d[1]] = "none"]
  /\ why' = [why EXCEPT ![d[1]] = ""] /\ age' = [age EXCEPT ![d[1]] = 0]
  /\ run' = [run EXCEPT ![d[1]] = NoRun]
  /\ UNCHANGED <<worldVars, changes, pc, elapsed, items, snap, tainted, settled>>

\* No adapter, cooldown, gate or strategy lookup, refusal, or a lost answer or
\* write-back: the action leaves no row.
SkipAction ==
  /\ pc = "executing"
  /\ \/ \E l \in plan.publish : plan' = [plan EXCEPT !.publish = @ \ {l}]
     \/ plan.publish = {} /\ \E d \in plan.delist : plan' = [plan EXCEPT !.delist = @ \ {d}]
  /\ tainted' = TRUE
  /\ UNCHANGED <<worldVars, rowVars, changes, pc, elapsed, items, snap, run, settled>>

EndCycle ==
  /\ pc' = "idle" /\ elapsed' = 0 /\ items' = NoItems /\ snap' = NoSnap /\ plan' = NoPlan
  /\ UNCHANGED <<worldVars, rowVars, changes, run, tainted>>

Finish == pc = "executing" /\ plan = NoPlan /\ settled' = ~tainted /\ EndCycle

\* A query, a decision or the observation fails, or the cycle is cancelled.
Abort == pc # "idle" /\ settled' = FALSE /\ EndCycle

-----------------------------------------------------------------------------
Next ==
  \/ WorldChanges \/ Tick
  \/ \E l \in Listings, s \in RowStates : SyncRow(l, s)
  \/ BeginPlan \/ ReadItems \/ ReadListings \/ \E priced \in SUBSET Channels : MakePlan(priced)
  \/ \E l \in Listings : Publish(l) \/ \E r \in Reasons : Delist(<<l, r>>)
  \/ SkipAction \/ Finish \/ Abort

Spec == Init /\ [][Next]_vars

\* The job runs every ten minutes, and what fails now and then (a query, a
\* quote, a platform call) also succeeds now and then.
Fairness ==
  /\ WF_vars(Tick) /\ WF_vars(BeginPlan \/ SkipAction \/ Finish)
  /\ SF_vars(ReadItems) /\ SF_vars(ReadListings) /\ SF_vars(MakePlan(Channels))
  /\ SF_vars(\E l \in Listings : Publish(l))
  /\ SF_vars(\E l \in Listings, r \in Reasons : Delist(<<l, r>>))

FairSpec == Spec /\ Fairness

-----------------------------------------------------------------------------
(* Properties *)

\* ADR-0009: "Only continuous observations of the same orphan or surplus condition
\* mature the 24-hour grace"; recovery, a changed reason, leaving the active state
\* or a republication start it again.  What is recorded is the verdict of every
\* cycle since its first write, on a row that has not changed state since, whatever
\* runs between the planner's reads and its write; and its age is the time since
\* that write and no more than the planning before it had taken.
ObservationIsContinuous ==
  \A l \in Listings : why[l] # "" =>
    run[l].reason = why[l] /\ age[l] = Smaller(run[l].age + run[l].lag, Grace)

\* A plan never publishes a copy that was leased on any channel, or listed on
\* that channel, when the listings were read, although the inventory was read
\* earlier; and the live rows with the planned ones never exceed the copies.
PublishesAreFree ==
  pc = "executing" =>
    \A l \in plan.publish :
      /\ \A ch \in Channels : snap.row[<<ch, l[2]>>] # "leased"
      /\ snap.row[l] = "none"
      /\ Cardinality(Live(l[1])) + Cardinality(On(plan.publish, l[1])) <= Cardinality(items.assets)

\* Idempotence across cycles: after a cycle in which every action succeeded, and
\* with nothing changed since, the next plan publishes nothing and takes nothing
\* off at once.
SettledPlanIsEmpty ==
  [][pc = "planning" /\ pc' = "executing" /\ settled =>
       plan'.publish = {} /\ \A d \in plan'.delist : d[2] \in GraceReasons]_vars

WantedNow == IF RoutableInventory = {} THEN {} ELSE DesiredChannels(route, uuOk)
Misplaced(l) == real /\ row[l] = "active" /\ l[1] \notin WantedNow

\* A listing on a channel its commodity is not routed to, or of a commodity
\* with no routable copy, is eventually taken off (or routed there again).
MisplacedIsDelisted == \A l \in Listings : Misplaced(l) ~> ~Misplaced(l)

Unlisted(l) ==
  /\ real /\ stock = Assets
  /\ l[2] \in RoutableInventory /\ l[1] \in WantedNow /\ row[l] = "none"

\* functional-spec section 4: the reconciler guarantees that the routing intent
\* is eventually met (stated for commodities all of whose copies are in stock).
\* The copy budget counts the live row of an asset that is leased on the other
\* channel, so that row can take the place of a routable copy for good.
RoutedCopyIsListed == \A l \in Listings : Unlisted(l) ~> ~Unlisted(l)
=============================================================================
