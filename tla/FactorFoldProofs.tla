-------------------------- MODULE FactorFoldProofs --------------------------
(***************************************************************************)
(* FactorFold for every set of orders, listings and executions: an order   *)
(* moves a factor at most once, a waiting order is bound to a listing it   *)
(* matches, and without overlap the factors are what the events make them. *)
(* No factor ever leaves the controller bounds, which rests on what a fold *)
(* over a finite set computes.                                             *)
(***************************************************************************)
EXTENDS FactorFold, FiniteSetTheorems, TLAPS

\* TypeOK without the range of the factors.
OrdersTypeOK ==
  /\ exists \subseteq Listings
  /\ status \in [Orders -> Statuses] /\ early \in [Orders -> BOOLEAN]
  /\ recent \subseteq Orders /\ ident \in [Orders -> Identities \cup {{}}]
  /\ bound \in [Orders -> Listings \cup {NoListing}]
  /\ applied \in [Orders -> BOOLEAN]
  /\ syncs \in 0 .. MaxSync /\ updated \in [Orders -> 0 .. MaxSync]
  /\ folds \in [Orders -> Nat]

RunsTypeOK ==
  /\ pc \in [Folders -> Pcs]
  /\ batch \in [Folders -> SUBSET Snapshots]
  /\ base = [f \in Folders |-> base[f]]
  /\ overlapped \in BOOLEAN

-----------------------------------------------------------------------------
(* Operators *)

\* bindFactorOrdersSQL: a candidate is bound only if there is one.
LEMMA BindToCandidate ==
  ASSUME NEW id \in SUBSET Listings
  PROVE  BindTo(id) \in id \cup {NoListing} /\ BindTo(id) \in Listings \cup {NoListing}
<1>1. CASE Cardinality(Candidates(id)) = 1
  <2>1. Candidates(id) # {}
    BY <1>1, FS_EmptySet
  <2>2. BindTo(id) \in Candidates(id)
    BY <1>1, <2>1 DEF BindTo
  <2> QED
    BY <2>2 DEF Candidates
<1>2. CASE Cardinality(Candidates(id)) # 1
  BY <1>2 DEF BindTo
<1> QED
  BY <1>1, <1>2

\* An execution's plan is replaced; the others keep theirs.
LEMMA Replaced ==
  ASSUME NEW g, NEW D, g = [x \in D |-> g[x]], NEW e \in D, NEW v
  PROVE  /\ [g EXCEPT ![e] = v] = [x \in D |-> [g EXCEPT ![e] = v][x]]
         /\ [g EXCEPT ![e] = v][e] = v
         /\ \A x \in D : x # e => [g EXCEPT ![e] = v][x] = g[x]
<1>1. DOMAIN g = D
  BY Zenon
<1>2. [g EXCEPT ![e] = v] = [x \in D |-> IF x = e THEN v ELSE g[x]]
  BY <1>1
<1> QED
  BY <1>2

-----------------------------------------------------------------------------
(* The inductive invariant *)

\* Every fold marks its order.
MarkedOnce == \A o \in Orders : folds[o] = IF applied[o] THEN 1 ELSE 0

\* Without overlap one execution is under way at most.
OneAtATime ==
  ~overlapped => \A e, f \in Folders : pc[e] # "idle" /\ pc[f] # "idle" => e = f

\* A snapshot whose version the row still has is the row; the terms are read
\* one step later.
SnapshotIsRow(f, s) ==
  /\ s.updated <= updated[s.order]
  /\ s.updated = updated[s.order] =>
       /\ s.status = status[s.order]
       /\ pc[f] # "selected" => s.early = early[s.order]

SnapshotsHold == \A f \in Folders : \A s \in batch[f] : SnapshotIsRow(f, s)

\* The factors an execution has read are still the current ones.
BaseIsCurrent == ~overlapped => \A f \in Folders : pc[f] \in {"planned", "scanned"} => base[f] = factor

VersionsBounded == \A o \in Orders : updated[o] <= syncs

FoldInv ==
  /\ OrdersTypeOK /\ RunsTypeOK
  /\ MarkedOnce /\ OneAtATime /\ SnapshotsHold /\ BaseIsCurrent /\ VersionsBounded
  /\ BoundToMatchingListing /\ FactorMatchesEvents

\* The initial state satisfies the invariant.
LEMMA FoldInvInit == Init => FoldInv
<1> SUFFICES ASSUME Init PROVE FoldInv
  OBVIOUS
<1>1. OrdersTypeOK
  BY ConfigAssumption DEF Init, OrdersTypeOK, Statuses
<1>2. RunsTypeOK
  BY DEF Init, RunsTypeOK, Pcs
<1>3. MarkedOnce /\ OneAtATime /\ SnapshotsHold /\ BaseIsCurrent
  BY DEF Init, MarkedOnce, OneAtATime, SnapshotsHold, BaseIsCurrent
<1>4. VersionsBounded /\ BoundToMatchingListing /\ FactorMatchesEvents
  BY DEF Init, VersionsBounded, BoundToMatchingListing, FactorMatchesEvents
<1> QED
  BY <1>1, <1>2, <1>3, <1>4 DEF FoldInv

\* UpsertLeaseOrder gives the row a new version, so no snapshot of it holds on.
LEMMA UpsertStep ==
  ASSUME FoldInv, NEW o \in Orders, NEW st \in Statuses, NEW id \in Identities, NEW ended \in BOOLEAN,
         NEW fresh, UpsertLeaseOrder(o, st, ended, fresh, id)
  PROVE  FoldInv'
<1> USE DEF UpsertLeaseOrder
<1>0. OrdersTypeOK /\ RunsTypeOK
  BY DEF FoldInv
<1>1. BindTo(id) \in id \cup {NoListing} /\ BindTo(id) \in Listings \cup {NoListing}
  BY BindToCandidate, ConfigAssumption
<1>2. OrdersTypeOK'
  <2>1. syncs' \in 0 .. MaxSync /\ syncs + 1 \in 0 .. MaxSync
    BY <1>0, ConfigAssumption DEF OrdersTypeOK
  <2>2. updated' \in [Orders -> 0 .. MaxSync]
    BY <1>0, <2>1 DEF OrdersTypeOK
  <2>3. bound' \in [Orders -> Listings \cup {NoListing}]
    BY <1>0, <1>1 DEF OrdersTypeOK
  <2>4. status' \in [Orders -> Statuses] /\ ident' \in [Orders -> Identities \cup {{}}]
    BY <1>0 DEF OrdersTypeOK
  <2>5. early' \in [Orders -> BOOLEAN] /\ recent' \subseteq Orders
    BY <1>0 DEF OrdersTypeOK
  <2> QED
    BY <1>0, <2>1, <2>2, <2>3, <2>4, <2>5 DEF OrdersTypeOK, historyVars
<1>3. RunsTypeOK'
  BY <1>0 DEF RunsTypeOK, historyVars
<1>4. MarkedOnce' /\ OneAtATime' /\ BaseIsCurrent' /\ FactorMatchesEvents'
  BY DEF FoldInv, MarkedOnce, OneAtATime, BaseIsCurrent, FactorMatchesEvents, historyVars
<1>5. VersionsBounded'
  BY <1>0, ConfigAssumption DEF FoldInv, VersionsBounded, OrdersTypeOK
<1>6. SnapshotsHold'
  <2> SUFFICES ASSUME NEW f \in Folders, NEW s \in batch[f] PROVE SnapshotIsRow(f, s)'
    BY DEF SnapshotsHold
  <2>1. s \in Snapshots /\ SnapshotIsRow(f, s)
    BY <1>0 DEF FoldInv, SnapshotsHold, RunsTypeOK
  <2>2. s.order \in Orders /\ s.updated \in Nat
    BY <2>1 DEF Snapshots
  <2>3. CASE s.order = o
    <3>1. s.updated <= syncs
      <4>1. s.updated <= updated[s.order] /\ updated[s.order] <= syncs
        BY <2>1, <2>2 DEF FoldInv, VersionsBounded, SnapshotIsRow
      <4>2. syncs \in Int
        BY <1>0 DEF OrdersTypeOK
      <4>3. updated[s.order] \in Int
        BY <1>0, <2>2 DEF OrdersTypeOK
      <4> QED
        BY <2>2, <4>1, <4>2, <4>3
    <3>2. updated'[s.order] = syncs + 1
      BY <1>0, <2>3 DEF OrdersTypeOK
    <3> QED
      BY <1>0, <2>2, <3>1, <3>2, ConfigAssumption DEF SnapshotIsRow, OrdersTypeOK
  <2>4. CASE s.order # o
    <3>1. UNCHANGED <<updated[s.order], status[s.order], early[s.order], pc>>
      BY <1>0, <2>2, <2>4 DEF OrdersTypeOK
    <3> QED
      BY <2>1, <3>1 DEF SnapshotIsRow
  <2> QED
    BY <2>3, <2>4
<1>7. BoundToMatchingListing'
  <2> SUFFICES ASSUME NEW p \in Orders, ~applied[p], bound'[p] # NoListing PROVE bound'[p] \in ident'[p]
    BY DEF BoundToMatchingListing
  <2>1. bound[p] # NoListing => bound[p] \in ident[p]
    BY DEF FoldInv, BoundToMatchingListing
  <2>2. CASE p # o
    BY <1>0, <2>1, <2>2 DEF OrdersTypeOK
  <2>3. CASE p = o
    BY <1>0, <1>1, <2>1, <2>3 DEF OrdersTypeOK, KeepsBinding
  <2> QED
    BY <2>2, <2>3
<1> QED
  BY <1>2, <1>3, <1>4, <1>5, <1>6, <1>7 DEF FoldInv

\* A step of an execution other than SelectBatch keeps OneAtATime.
LEMMA StillOneAtATime ==
  ASSUME RunsTypeOK, OneAtATime, NEW f \in Folders, pc[f] # "idle", NEW to \in Pcs, Goto(f, to), UNCHANGED overlapped
  PROVE  pc' \in [Folders -> Pcs] /\ OneAtATime' /\ pc'[f] = to /\ \A e \in Folders \ {f} : pc'[e] = pc[e]
<1>1. pc' \in [Folders -> Pcs] /\ pc'[f] = to /\ \A e \in Folders \ {f} : pc'[e] = pc[e]
  BY DEF RunsTypeOK, Goto
<1>2. OneAtATime'
  BY <1>1 DEF OneAtATime
<1> QED
  BY <1>1, <1>2

\* An order that leaves the window is as it was to a plan that is made.
LEMMA AgesOutStep == ASSUME FoldInv, NEW o \in Orders, AgesOut(o) PROVE FoldInv'
<1>1. /\ UNCHANGED <<exists, factor, status, early, ident, updated, syncs, bound, applied, pc, batch, base, overlapped, folds, ledger>>
      /\ recent' = recent \ {o}
  BY DEF AgesOut, historyVars
<1>2. OrdersTypeOK' /\ RunsTypeOK'
  BY <1>1 DEF FoldInv, OrdersTypeOK, RunsTypeOK
<1>3. SnapshotsHold'
  BY <1>1 DEF FoldInv, SnapshotsHold, SnapshotIsRow
<1>4. MarkedOnce' /\ OneAtATime' /\ BaseIsCurrent' /\ VersionsBounded' /\ BoundToMatchingListing' /\ FactorMatchesEvents'
  BY <1>1 DEF FoldInv, MarkedOnce, OneAtATime, BaseIsCurrent, VersionsBounded, BoundToMatchingListing, FactorMatchesEvents
<1> QED
  BY <1>2, <1>3, <1>4 DEF FoldInv

\* AddListing is not looked at by a plan that is made.
LEMMA AddListingStep == ASSUME FoldInv, NEW l \in Listings, AddListing(l) PROVE FoldInv'
<1>1. UNCHANGED <<factor, status, early, recent, ident, updated, syncs, bound, applied, pc, batch, base, overlapped, folds, ledger>>
  BY DEF AddListing, orderVars, historyVars
<1>2. OrdersTypeOK' /\ RunsTypeOK'
  BY <1>1 DEF AddListing, FoldInv, OrdersTypeOK, RunsTypeOK
<1>3. SnapshotsHold'
  BY <1>1 DEF FoldInv, SnapshotsHold, SnapshotIsRow
<1>4. MarkedOnce' /\ OneAtATime' /\ BaseIsCurrent' /\ VersionsBounded' /\ BoundToMatchingListing' /\ FactorMatchesEvents'
  BY <1>1 DEF FoldInv, MarkedOnce, OneAtATime, BaseIsCurrent, VersionsBounded, BoundToMatchingListing, FactorMatchesEvents
<1> QED
  BY <1>2, <1>3, <1>4 DEF FoldInv

\* UnhandledFactorOrders: the snapshots are the rows, and a second execution
\* under way is recorded.
LEMMA SelectBatchStep == ASSUME FoldInv, NEW f \in Folders, SelectBatch(f) PROVE FoldInv'
<1>0. OrdersTypeOK /\ RunsTypeOK
  BY DEF FoldInv
<1>1. /\ UNCHANGED <<exists, factor, status, early, recent, ident, updated, syncs, applied, base, folds, ledger>>
      /\ pc[f] = "idle" /\ Goto(f, "selected")
  BY DEF SelectBatch, orderVars
<1>2. \A o \in Orders : BindTo(ident[o]) \in ident[o] \cup {NoListing} /\ BindTo(ident[o]) \in Listings \cup {NoListing}
  <2>1. \A o \in Orders : ident[o] \in SUBSET Listings
    BY <1>0, ConfigAssumption DEF OrdersTypeOK
  <2> QED
    BY <2>1, BindToCandidate
<1>3. bound' = [o \in Orders |-> IF Rebindable(o) THEN BindTo(ident[o]) ELSE bound[o]]
  BY DEF SelectBatch
<1>4. bound' \in [Orders -> Listings \cup {NoListing}]
  BY <1>0, <1>2, <1>3 DEF OrdersTypeOK
<1>5. OrdersTypeOK'
  BY <1>0, <1>1, <1>4 DEF OrdersTypeOK
<1>6. BoundToMatchingListing'
  BY <1>0, <1>1, <1>2, <1>3 DEF FoldInv, BoundToMatchingListing, Rebindable
<1> DEFINE ready == {o \in recent : Terminal(o) /\ ~applied[o] /\ bound'[o] # NoListing}
           snap(o) == [order |-> o, listing |-> bound'[o], status |-> status[o], updated |-> updated[o], early |-> FALSE]
<1>7. batch' = [batch EXCEPT ![f] = {snap(o) : o \in FirstOf(ready, Batch)}]
  BY DEF SelectBatch
<1>8. \A o \in FirstOf(ready, Batch) : o \in Orders /\ bound'[o] \in Listings
  BY <1>0, <1>4 DEF FirstOf, OrdersTypeOK
<1>9. \A o \in FirstOf(ready, Batch) : snap(o) \in Snapshots
  <2>1. \A o \in Orders : updated[o] \in Nat /\ status[o] \in Statuses
    BY <1>0, ConfigAssumption DEF OrdersTypeOK
  <2> QED
    BY <1>8, <2>1 DEF Snapshots
<1>10. {snap(o) : o \in FirstOf(ready, Batch)} \in SUBSET Snapshots
  <2> HIDE DEF snap, ready
  <2> QED
    BY <1>9
<1>11. /\ pc' \in [Folders -> Pcs] /\ pc'[f] = "selected"
       /\ \A e \in Folders : e # f => pc'[e] = pc[e]
  BY <1>0, <1>1 DEF RunsTypeOK, Goto, Pcs
<1>12. overlapped' \in BOOLEAN /\ (~overlapped' => ~overlapped /\ \A e \in Folders : pc[e] = "idle")
  BY <1>0 DEF SelectBatch, RunsTypeOK
<1>13. batch' \in [Folders -> SUBSET Snapshots] /\ batch'[f] = {snap(o) : o \in FirstOf(ready, Batch)}
       /\ \A e \in Folders : e # f => batch'[e] = batch[e]
  <2> HIDE DEF snap, ready
  <2> QED
    BY <1>0, <1>7, <1>10 DEF RunsTypeOK
<1>14. RunsTypeOK'
  BY <1>0, <1>1, <1>11, <1>12, <1>13 DEF RunsTypeOK
<1>15. SnapshotsHold'
  <2> SUFFICES ASSUME NEW e \in Folders, NEW s \in batch'[e] PROVE SnapshotIsRow(e, s)'
    BY DEF SnapshotsHold
  <2>1. CASE e # f
    BY <1>1, <1>11, <1>13, <2>1 DEF FoldInv, SnapshotsHold, SnapshotIsRow
  <2>2. CASE e = f
    <3>1. PICK o \in FirstOf(ready, Batch) : s = snap(o)
      BY <1>13, <2>2
    <3>2. s.order = o /\ s.updated = updated[o] /\ s.status = status[o] /\ o \in Orders
      BY <1>8, <3>1
    <3>3. updated[o] \in Nat
      BY <1>0, <3>2, ConfigAssumption DEF OrdersTypeOK
    <3> QED
      BY <1>1, <1>11, <2>2, <3>2, <3>3 DEF SnapshotIsRow
  <2> QED
    BY <2>1, <2>2
<1>16. OneAtATime' /\ BaseIsCurrent' /\ FactorMatchesEvents'
  BY <1>1, <1>11, <1>12 DEF FoldInv, OneAtATime, BaseIsCurrent, FactorMatchesEvents
<1>17. MarkedOnce' /\ VersionsBounded'
  BY <1>1 DEF FoldInv, MarkedOnce, VersionsBounded
<1> QED
  BY <1>5, <1>6, <1>14, <1>15, <1>16, <1>17 DEF FoldInv

\* A step that leaves the orders alone.
LEMMA OrdersStay ==
  ASSUME FoldInv, UNCHANGED <<exists, status, early, recent, ident, updated, syncs, bound, applied, folds>>
  PROVE  OrdersTypeOK' /\ MarkedOnce' /\ VersionsBounded' /\ BoundToMatchingListing'
BY DEF FoldInv, OrdersTypeOK, MarkedOnce, VersionsBounded, BoundToMatchingListing

\* orderTerms: the terms come from the row as it is, whose version may have moved on.
LEMMA ReadTermsStep == ASSUME FoldInv, NEW f \in Folders, ReadTerms(f) PROVE FoldInv'
<1>0. OrdersTypeOK /\ RunsTypeOK /\ OneAtATime
  BY DEF FoldInv
<1>1. /\ UNCHANGED <<exists, factor, status, early, recent, ident, updated, syncs, bound, applied, base, overlapped, folds, ledger>>
      /\ pc[f] = "selected" /\ Goto(f, "read")
  BY DEF ReadTerms, orderVars, historyVars
<1>2. OrdersTypeOK' /\ MarkedOnce' /\ VersionsBounded' /\ BoundToMatchingListing'
  BY <1>1, OrdersStay
<1>3. /\ pc' \in [Folders -> Pcs] /\ OneAtATime' /\ pc'[f] = "read"
      /\ \A e \in Folders \ {f} : pc'[e] = pc[e]
  BY <1>0, <1>1, StillOneAtATime DEF Pcs
<1> DEFINE termed(s) == [s EXCEPT !.early = early[s.order]]
<1>4. \A s \in batch[f] : /\ termed(s) \in Snapshots /\ termed(s).order = s.order /\ termed(s).updated = s.updated
                          /\ termed(s).status = s.status /\ termed(s).early = early[s.order]
  <2> SUFFICES ASSUME NEW s \in batch[f]
               PROVE  /\ termed(s) \in Snapshots /\ termed(s).order = s.order /\ termed(s).updated = s.updated
                      /\ termed(s).status = s.status /\ termed(s).early = early[s.order]
    OBVIOUS
  <2>1. s \in Snapshots
    BY <1>0 DEF RunsTypeOK
  <2>2. early[s.order] \in BOOLEAN
    BY <1>0, <2>1 DEF OrdersTypeOK, Snapshots
  <2> QED
    BY <2>1, <2>2 DEF Snapshots
<1>5. batch' = [batch EXCEPT ![f] = {termed(s) : s \in batch[f]}]
  BY DEF ReadTerms
<1> HIDE DEF termed
<1>6. /\ batch' \in [Folders -> SUBSET Snapshots] /\ batch'[f] = {termed(s) : s \in batch[f]}
      /\ \A e \in Folders : e # f => batch'[e] = batch[e]
  BY <1>0, <1>4, <1>5 DEF RunsTypeOK
<1>7. RunsTypeOK'
  BY <1>0, <1>1, <1>3, <1>6 DEF RunsTypeOK
<1>8. SnapshotsHold'
  <2> SUFFICES ASSUME NEW e \in Folders, NEW s \in batch'[e] PROVE SnapshotIsRow(e, s)'
    BY DEF SnapshotsHold
  <2>1. CASE e # f
    BY <1>1, <1>3, <1>6, <2>1 DEF FoldInv, SnapshotsHold, SnapshotIsRow
  <2>2. CASE e = f
    <3>1. PICK r \in batch[f] : s = termed(r)
      BY <1>6, <2>2
    <3>2. SnapshotIsRow(f, r)
      BY DEF FoldInv, SnapshotsHold
    <3> QED
      BY <1>1, <1>4, <2>2, <3>1, <3>2 DEF SnapshotIsRow
  <2> QED
    BY <2>1, <2>2
<1>9. BaseIsCurrent' /\ FactorMatchesEvents'
  BY <1>1, <1>3 DEF FoldInv, BaseIsCurrent, FactorMatchesEvents
<1> QED
  BY <1>2, <1>3, <1>7, <1>8, <1>9 DEF FoldInv

\* The fold loop: the factors are read.
LEMMA PlanFoldsStep ==
  ASSUME FoldInv, NEW f \in Folders, NEW handled \in SUBSET batch[f], PlanFolds(f, handled)
  PROVE  FoldInv'
<1>0. OrdersTypeOK /\ RunsTypeOK /\ OneAtATime
  BY DEF FoldInv
<1>1. /\ UNCHANGED <<exists, factor, status, early, recent, ident, updated, syncs, bound, applied, overlapped, folds, ledger>>
      /\ pc[f] = "read" /\ Goto(f, "planned")
      /\ batch' = [batch EXCEPT ![f] = handled] /\ base' = [base EXCEPT ![f] = factor]
  BY DEF PlanFolds, orderVars, historyVars
<1>2. OrdersTypeOK' /\ MarkedOnce' /\ VersionsBounded' /\ BoundToMatchingListing'
  BY <1>1, OrdersStay
<1>3. /\ pc' \in [Folders -> Pcs] /\ OneAtATime' /\ pc'[f] = "planned"
      /\ \A e \in Folders \ {f} : pc'[e] = pc[e]
  BY <1>0, <1>1, StillOneAtATime DEF Pcs
<1>4. /\ batch' \in [Folders -> SUBSET Snapshots] /\ batch'[f] = handled
      /\ \A e \in Folders : e # f => batch'[e] = batch[e]
  BY <1>0, <1>1 DEF RunsTypeOK
<1>5. base' = [e \in Folders |-> base'[e]] /\ base'[f] = factor
  BY <1>0, <1>1, Replaced DEF RunsTypeOK
<1>6. RunsTypeOK'
  BY <1>0, <1>1, <1>3, <1>4, <1>5 DEF RunsTypeOK
<1>7. SnapshotsHold'
  BY <1>1, <1>3, <1>4 DEF FoldInv, SnapshotsHold, SnapshotIsRow
<1>8. BaseIsCurrent'
  <2> SUFFICES ASSUME ~overlapped, NEW e \in Folders, pc'[e] \in {"planned", "scanned"} PROVE base'[e] = factor
    BY <1>1 DEF BaseIsCurrent
  <2>1. e = f
    BY <1>1, <1>3 DEF OneAtATime
  <2> QED
    BY <1>5, <2>1
<1>9. FactorMatchesEvents'
  BY <1>1 DEF FoldInv, FactorMatchesEvents
<1> QED
  BY <1>2, <1>3, <1>6, <1>7, <1>8, <1>9 DEF FoldInv

\* A row that is still the one the plan was made from is what the plan saw.
LEMMA UnchangedIsRow ==
  ASSUME FoldInv, NEW f \in Folders, pc[f] = "planned", NEW s \in batch[f], Unchanged(s)
  PROVE  [s EXCEPT !.status = status[s.order], !.early = early[s.order]] = s
<1>1. s \in Snapshots /\ SnapshotIsRow(f, s)
  BY DEF FoldInv, RunsTypeOK, SnapshotsHold
<1>2. s.status = status[s.order] /\ s.early = early[s.order]
  BY <1>1 DEF SnapshotIsRow, Unchanged
<1> QED
  BY <1>1, <1>2 DEF Snapshots

\* An execution drops its plan.
LEMMA DroppedPlan ==
  ASSUME RunsTypeOK, SnapshotsHold, NEW f \in Folders, NEW to \in Pcs, to # "selected", Goto(f, to), batch' = [batch EXCEPT ![f] = {}],
         base' = [base EXCEPT ![f] = Neutral], UNCHANGED <<status, early, updated, overlapped>>
  PROVE  RunsTypeOK' /\ SnapshotsHold'
<1>1. pc' \in [Folders -> Pcs] /\ \A e \in Folders : e # f => pc'[e] = pc[e]
  BY DEF RunsTypeOK, Goto
<1>2. /\ batch' \in [Folders -> SUBSET Snapshots] /\ batch'[f] = {}
      /\ \A e \in Folders : e # f => batch'[e] = batch[e]
  BY DEF RunsTypeOK
<1>3. base' = [e \in Folders |-> base'[e]]
  BY Replaced DEF RunsTypeOK
<1>4. RunsTypeOK'
  BY <1>1, <1>2, <1>3 DEF RunsTypeOK
<1>5. SnapshotsHold'
  BY <1>1, <1>2 DEF SnapshotsHold, SnapshotIsRow
<1> QED
  BY <1>4, <1>5

\* ApplyFactorFolds: the orders were unmarked and their rows are what the plan
\* saw; without overlap the factors it adds to are the current ones.
LEMMA ApplyStep == ASSUME FoldInv, NEW f \in Folders, ApplyFactorFolds(f) PROVE FoldInv'
<1>0. OrdersTypeOK /\ RunsTypeOK /\ OneAtATime /\ SnapshotsHold
  BY DEF FoldInv
<1>1. /\ UNCHANGED <<exists, status, early, recent, ident, updated, syncs, bound, overlapped>>
      /\ pc[f] = "planned" /\ Goto(f, "scan")
      /\ batch' = [batch EXCEPT ![f] = {}] /\ base' = [base EXCEPT ![f] = Neutral]
      /\ \A s \in batch[f] : Unchanged(s)
      /\ applied' = [o \in Orders |-> applied[o] \/ \E s \in batch[f] : s.order = o]
      /\ folds' = [o \in Orders |-> IF \E s \in batch[f] : s.order = o THEN folds[o] + 1 ELSE folds[o]]
  BY DEF ApplyFactorFolds, orderVars
<1>2. /\ pc' \in [Folders -> Pcs] /\ OneAtATime' /\ pc'[f] = "scan"
      /\ \A e \in Folders \ {f} : pc'[e] = pc[e]
  BY <1>0, <1>1, StillOneAtATime DEF Pcs
<1>3. RunsTypeOK' /\ SnapshotsHold'
  BY <1>0, <1>1, DroppedPlan DEF Pcs
<1>4. applied' \in [Orders -> BOOLEAN] /\ folds' \in [Orders -> Nat]
  <2>1. applied' \in [Orders -> BOOLEAN]
    BY <1>0, <1>1, Zenon DEF OrdersTypeOK
  <2>2. folds' \in [Orders -> Nat]
    BY <1>0, <1>1 DEF OrdersTypeOK
  <2> QED
    BY <2>1, <2>2
<1>5. OrdersTypeOK'
  BY <1>0, <1>1, <1>4 DEF OrdersTypeOK
<1>6. MarkedOnce'
  <2> SUFFICES ASSUME NEW o \in Orders PROVE folds'[o] = IF applied'[o] THEN 1 ELSE 0
    BY DEF MarkedOnce
  <2>1. folds[o] = IF applied[o] THEN 1 ELSE 0
    BY DEF FoldInv, MarkedOnce
  <2>2. CASE \E s \in batch[f] : s.order = o
    <3>1. ~applied[o]
      BY <1>1, <2>2 DEF Unchanged
    <3>2. applied'[o] /\ folds'[o] = folds[o] + 1
      BY <1>1, <2>2
    <3> QED
      BY <2>1, <3>1, <3>2
  <2>3. CASE ~\E s \in batch[f] : s.order = o
    <3>1. folds'[o] = folds[o] /\ (applied'[o] <=> applied[o])
      BY <1>1, <2>3
    <3> QED
      BY <2>1, <3>1
  <2> QED
    BY <2>2, <2>3
<1>7. VersionsBounded' /\ BoundToMatchingListing'
  BY <1>0, <1>1 DEF FoldInv, VersionsBounded, BoundToMatchingListing, OrdersTypeOK
<1>8. BaseIsCurrent'
  BY <1>1, <1>2 DEF BaseIsCurrent, OneAtATime
<1>9. FactorMatchesEvents'
  <2> SUFFICES ASSUME ~overlapped PROVE factor' = ledger'
    BY <1>1 DEF FactorMatchesEvents
  <2> DEFINE on(l) == {s \in batch[f] : s.listing = l}
             now(l) == {[s EXCEPT !.status = status[s.order], !.early = early[s.order]] : s \in on(l)}
  <2>1. /\ factor' = [l \in Listings |-> IF on(l) = {} THEN factor[l] ELSE Folded(base[f][l], on(l))]
        /\ ledger' = [l \in Listings |-> IF on(l) = {} THEN ledger[l] ELSE Folded(ledger[l], now(l))]
    BY DEF ApplyFactorFolds
  <2>2. base[f] = factor /\ ledger = factor
    BY <1>1 DEF FoldInv, BaseIsCurrent, FactorMatchesEvents
  <2>3. ASSUME NEW l \in Listings PROVE now(l) = on(l)
    <3>1. \A s \in on(l) : [s EXCEPT !.status = status[s.order], !.early = early[s.order]] = s
      BY <1>1, UnchangedIsRow
    <3> QED
      BY <3>1
  <2> HIDE DEF on, now
  <2> QED
    BY <2>1, <2>2, <2>3
<1> QED
  BY <1>2, <1>3, <1>5, <1>6, <1>7, <1>8, <1>9 DEF FoldInv

\* FactorStaleCandidates: the factors are read again.
LEMMA ScanStaleStep == ASSUME FoldInv, NEW f \in Folders, ScanStale(f) PROVE FoldInv'
<1>0. OrdersTypeOK /\ RunsTypeOK /\ OneAtATime
  BY DEF FoldInv
<1>1. /\ UNCHANGED <<exists, factor, status, early, recent, ident, updated, syncs, bound, applied, batch, overlapped, folds, ledger>>
      /\ pc[f] = "scan" /\ Goto(f, "scanned") /\ base' = [base EXCEPT ![f] = factor]
  BY DEF ScanStale, orderVars, historyVars
<1>2. OrdersTypeOK' /\ MarkedOnce' /\ VersionsBounded' /\ BoundToMatchingListing'
  BY <1>1, OrdersStay
<1>3. /\ pc' \in [Folders -> Pcs] /\ OneAtATime' /\ pc'[f] = "scanned"
      /\ \A e \in Folders \ {f} : pc'[e] = pc[e]
  BY <1>0, <1>1, StillOneAtATime DEF Pcs
<1>4. base' = [e \in Folders |-> base'[e]] /\ base'[f] = factor
  BY <1>0, <1>1, Replaced DEF RunsTypeOK
<1>5. RunsTypeOK'
  BY <1>0, <1>1, <1>3, <1>4 DEF RunsTypeOK
<1>6. SnapshotsHold'
  BY <1>1, <1>3 DEF FoldInv, SnapshotsHold, SnapshotIsRow
<1>7. BaseIsCurrent'
  <2> SUFFICES ASSUME ~overlapped, NEW e \in Folders, pc'[e] \in {"planned", "scanned"} PROVE base'[e] = factor
    BY <1>1 DEF BaseIsCurrent
  <2>1. e = f
    BY <1>1, <1>3 DEF OneAtATime
  <2> QED
    BY <1>4, <2>1
<1>8. FactorMatchesEvents'
  BY <1>1 DEF FoldInv, FactorMatchesEvents
<1> QED
  BY <1>2, <1>3, <1>5, <1>6, <1>7, <1>8 DEF FoldInv

\* SetListingFactor: without overlap the step starts from the current factors.
LEMMA StepDownStep ==
  ASSUME FoldInv, NEW f \in Folders, NEW stale \in SUBSET exists, StepDown(f, stale)
  PROVE  FoldInv'
<1>0. OrdersTypeOK /\ RunsTypeOK /\ OneAtATime
  BY DEF FoldInv
<1>1. /\ UNCHANGED <<exists, status, early, recent, ident, updated, syncs, bound, applied, batch, overlapped, folds>>
      /\ pc[f] = "scanned" /\ Goto(f, "idle") /\ base' = [base EXCEPT ![f] = Neutral]
  BY DEF StepDown, orderVars
<1>2. OrdersTypeOK' /\ MarkedOnce' /\ VersionsBounded' /\ BoundToMatchingListing'
  BY <1>1, OrdersStay
<1>3. /\ pc' \in [Folders -> Pcs] /\ OneAtATime' /\ pc'[f] = "idle"
      /\ \A e \in Folders \ {f} : pc'[e] = pc[e]
  BY <1>0, <1>1, StillOneAtATime DEF Pcs
<1>4. base' = [e \in Folders |-> base'[e]]
  BY <1>0, <1>1, Replaced DEF RunsTypeOK
<1>5. RunsTypeOK'
  BY <1>0, <1>1, <1>3, <1>4 DEF RunsTypeOK
<1>6. SnapshotsHold'
  BY <1>1, <1>3 DEF FoldInv, SnapshotsHold, SnapshotIsRow
<1>7. BaseIsCurrent'
  BY <1>0, <1>1, <1>3 DEF BaseIsCurrent, OneAtATime
<1>8. FactorMatchesEvents'
  <2> SUFFICES ASSUME ~overlapped PROVE factor' = ledger'
    BY <1>1 DEF FactorMatchesEvents
  <2>1. base[f] = factor /\ ledger = factor
    BY <1>1 DEF FoldInv, BaseIsCurrent, FactorMatchesEvents
  <2> QED
    BY <2>1 DEF StepDown
<1> QED
  BY <1>2, <1>3, <1>5, <1>6, <1>7, <1>8 DEF FoldInv

\* An execution that ends early leaves nothing behind.
LEMMA AbortStep == ASSUME FoldInv, NEW f \in Folders, Abort(f) PROVE FoldInv'
<1>0. OrdersTypeOK /\ RunsTypeOK /\ OneAtATime /\ SnapshotsHold
  BY DEF FoldInv
<1>1. /\ UNCHANGED <<exists, factor, status, early, recent, ident, updated, syncs, bound, applied, overlapped, folds, ledger>>
      /\ pc[f] # "idle" /\ Goto(f, "idle")
      /\ batch' = [batch EXCEPT ![f] = {}] /\ base' = [base EXCEPT ![f] = Neutral]
  BY DEF Abort, orderVars, historyVars
<1>2. OrdersTypeOK' /\ MarkedOnce' /\ VersionsBounded' /\ BoundToMatchingListing'
  BY <1>1, OrdersStay
<1>3. /\ pc' \in [Folders -> Pcs] /\ OneAtATime' /\ pc'[f] = "idle"
      /\ \A e \in Folders \ {f} : pc'[e] = pc[e]
  BY <1>0, <1>1, StillOneAtATime DEF Pcs
<1>4. RunsTypeOK' /\ SnapshotsHold'
  BY <1>0, <1>1, DroppedPlan DEF Pcs
<1>5. BaseIsCurrent' /\ FactorMatchesEvents'
  BY <1>1, <1>3 DEF FoldInv, BaseIsCurrent, OneAtATime, FactorMatchesEvents
<1> QED
  BY <1>2, <1>3, <1>4, <1>5 DEF FoldInv

\* Every step keeps the invariant.
LEMMA FoldInvStep == FoldInv /\ [Next]_vars => FoldInv'
<1> SUFFICES ASSUME FoldInv, [Next]_vars PROVE FoldInv'
  OBVIOUS
<1>1. ASSUME NEW o \in Orders, NEW st \in Statuses \ {"absent"}, NEW id \in Identities,
             NEW ended \in IF st = "done" THEN BOOLEAN ELSE {FALSE},
             NEW fresh \in IF st = "open" THEN {TRUE} ELSE BOOLEAN, UpsertLeaseOrder(o, st, ended, fresh, id)
      PROVE  FoldInv'
  <2>1. ended \in BOOLEAN /\ st \in Statuses
    OBVIOUS
  <2> QED
    BY <1>1, <2>1, UpsertStep
<1>2. ASSUME NEW l \in Listings, AddListing(l) PROVE FoldInv'
  BY <1>2, AddListingStep
<1>3. ASSUME NEW f \in Folders,
             SelectBatch(f) \/ ReadTerms(f) \/ ApplyFactorFolds(f) \/ ScanStale(f) \/ Abort(f)
      PROVE  FoldInv'
  BY <1>3, SelectBatchStep, ReadTermsStep, ApplyStep, ScanStaleStep, AbortStep
<1>4. ASSUME NEW f \in Folders, NEW handled \in SUBSET batch[f], PlanFolds(f, handled) PROVE FoldInv'
  BY <1>4, PlanFoldsStep
<1>5. ASSUME NEW f \in Folders, NEW stale \in SUBSET exists, StepDown(f, stale) PROVE FoldInv'
  BY <1>5, StepDownStep
<1>6. CASE UNCHANGED vars
  <2>1. UNCHANGED <<exists, factor, status, early, recent, ident, updated, syncs, bound, applied, pc, batch, base,
                    overlapped, folds, ledger>>
    BY <1>6 DEF vars, orderVars, historyVars
  <2>2. OrdersTypeOK' /\ MarkedOnce' /\ VersionsBounded' /\ BoundToMatchingListing'
    BY <2>1, OrdersStay
  <2>3. RunsTypeOK' /\ SnapshotsHold'
    BY <2>1 DEF FoldInv, RunsTypeOK, SnapshotsHold, SnapshotIsRow
  <2> QED
    BY <2>1, <2>2, <2>3 DEF FoldInv, OneAtATime, BaseIsCurrent, FactorMatchesEvents
<1>7. ASSUME NEW o \in Orders, AgesOut(o) PROVE FoldInv'
  BY <1>7, AgesOutStep
<1> QED
  BY <1>1, <1>2, <1>3, <1>4, <1>5, <1>6, <1>7 DEF Next

-----------------------------------------------------------------------------
(* What a fold computes.  The library defines it by a recursive function     *)
(* over the subsets; that this function exists, is unique and stays between  *)
(* the controller bounds is proved from a smallest counterexample each time. *)

\* A property that some subset of a finite set has, a smallest one has.
LEMMA SmallestSubset ==
  ASSUME NEW S, IsFiniteSet(S), NEW Bad \in SUBSET (SUBSET S), Bad # {}
  PROVE  \E R \in Bad : \A U \in SUBSET R : U # R => U \notin Bad
<1>1. IsWellFoundedOn(StrictSubsetOrdering(S), FiniteSubsetsOf(S))
  BY FS_StrictSubsetOrderingWellFounded
<1>2. Bad \subseteq FiniteSubsetsOf(S)
  BY FS_Subset DEF FiniteSubsetsOf
<1>3. PICK R \in Bad : \A U \in Bad : ~(<<U, R>> \in StrictSubsetOrdering(S))
  BY <1>1, <1>2, WFMin, Zenon
<1>4. ASSUME NEW U \in SUBSET R, U # R, U \in Bad
      PROVE  <<U, R>> \in StrictSubsetOrdering(S)
  BY <1>4 DEF StrictSubsetOrdering
<1>5. \A U \in SUBSET R : U # R => U \notin Bad
  BY <1>3, <1>4
<1> QED
  BY <1>5

\* Some orders have a last one.
LEMMA LastIn ==
  ASSUME NEW S \in SUBSET Snapshots, IsFiniteSet(S), S # {}
  PROVE  Last(S) \in S
<1> DEFINE HasLast(u) == \E s \in u : \A r \in u : r.order <= s.order
           Bad == {u \in SUBSET S : u # {} /\ ~HasLast(u)}
<1>1. SUFFICES ASSUME Bad # {} PROVE FALSE
  BY DEF Last
<1>2. PICK R \in Bad : \A U \in SUBSET R : U # R => U \notin Bad
  <2> HIDE DEF Bad
  <2>1. Bad \in SUBSET (SUBSET S)
    BY DEF Bad
  <2> QED
    BY <1>1, <2>1, SmallestSubset
<1>3. \A s \in R : s.order \in Nat
  <2>1. \A s \in Snapshots : s.order \in Orders
    BY DEF Snapshots
  <2>2. R \subseteq Snapshots
    OBVIOUS
  <2> QED
    BY <2>1, <2>2, ConfigAssumption
<1>4. PICK x \in R : TRUE
  OBVIOUS
<1>5. R \ {x} \notin Bad
  <2>1. R \ {x} \in SUBSET R /\ R \ {x} # R
    BY <1>4
  <2> HIDE DEF Bad
  <2> QED
    BY <1>2, <2>1
<1>6. CASE R \ {x} = {}
  <2>1. \A r \in R : r.order <= x.order
    BY <1>3, <1>6
  <2> QED
    BY <2>1
<1>7. CASE R \ {x} # {}
  <2>1. PICK m \in R \ {x} : \A r \in R \ {x} : r.order <= m.order
    BY <1>5, <1>7
  <2>2. m.order \in Nat /\ x.order \in Nat
    BY <1>3
  <2>3. CASE x.order <= m.order
    <3>1. \A r \in R : r.order <= m.order
      BY <2>1, <2>3
    <3> QED
      BY <3>1
  <2>4. CASE m.order <= x.order
    <3>1. \A r \in R : r.order <= x.order
      BY <1>3, <2>1, <2>2, <2>4
    <3> QED
      BY <3>1
  <2> QED
    BY <2>2, <2>3, <2>4
<1> QED
  BY <1>6, <1>7

\* One unfolding of the recursion, and a table that satisfies it at every subset.
FoldStep(n, g, s) ==
  IF s = {} THEN n ELSE StepUp(g[s \ {Last(s)}], Steps(Last(s).status, Last(s).early))
IsFold(n, g, S) == g = [s \in SUBSET S |-> FoldStep(n, g, s)]

\* Two tables agree wherever both are defined.
LEMMA FoldUnique ==
  ASSUME NEW n, NEW g, NEW h, NEW A \in SUBSET Snapshots, NEW B, IsFiniteSet(A), IsFold(n, g, A), IsFold(n, h, B),
         NEW s \in SUBSET (A \cap B)
  PROVE  g[s] = h[s]
<1> DEFINE Bad == {u \in SUBSET (A \cap B) : g[u] # h[u]}
<1>1. SUFFICES ASSUME Bad # {} PROVE FALSE
  OBVIOUS
<1>2. IsFiniteSet(A \cap B)
  BY FS_Subset
<1>3. PICK R \in Bad : \A U \in SUBSET R : U # R => U \notin Bad
  <2> HIDE DEF Bad
  <2>1. Bad \in SUBSET (SUBSET (A \cap B))
    BY DEF Bad
  <2> QED
    BY <1>1, <1>2, <2>1, SmallestSubset
<1>4. g[R] = FoldStep(n, g, R) /\ h[R] = FoldStep(n, h, R)
  BY DEF IsFold
<1>5. CASE R = {}
  BY <1>3, <1>4, <1>5 DEF FoldStep
<1>6. CASE R # {}
  <2>1. Last(R) \in R
    <3>1. IsFiniteSet(R) /\ R \in SUBSET Snapshots
      BY <1>2, FS_Subset
    <3> QED
      BY <1>6, <3>1, LastIn
  <2>2. R \ {Last(R)} \notin Bad
    BY <1>3, <2>1
  <2>3. g[R \ {Last(R)}] = h[R \ {Last(R)}]
    BY <2>2
  <2> QED
    BY <1>3, <1>4, <1>6, <2>3 DEF FoldStep
<1> QED
  BY <1>5, <1>6

\* Finitely many orders have a table.
LEMMA FoldExists ==
  ASSUME NEW n, NEW S \in SUBSET Snapshots, IsFiniteSet(S)
  PROVE  \E g : IsFold(n, g, S)
<1> DEFINE Bad == {u \in SUBSET S : ~\E g : IsFold(n, g, u)}
           G(u) == CHOOSE g : IsFold(n, g, u)
<1>1. SUFFICES ASSUME Bad # {} PROVE FALSE
  OBVIOUS
<1>2. PICK R \in Bad : \A U \in SUBSET R : U # R => U \notin Bad
  <2> HIDE DEF Bad
  <2>1. Bad \in SUBSET (SUBSET S)
    BY DEF Bad
  <2> QED
    BY <1>1, <2>1, SmallestSubset
<1>3. \A U \in SUBSET R : U # R => IsFold(n, G(U), U)
  BY <1>2
<1>4. \A U \in SUBSET R : IsFiniteSet(U) /\ U \in SUBSET Snapshots /\ (U # {} => Last(U) \in U)
  <2>1. \A U \in SUBSET R : IsFiniteSet(U) /\ U \in SUBSET Snapshots
    BY FS_Subset
  <2> QED
    BY <2>1, LastIn
<1> HIDE DEF G
<1>5. CASE R = {}
  <2>1. IsFold(n, [s \in SUBSET R |-> n], R)
    BY <1>5 DEF IsFold, FoldStep
  <2> QED
    BY <2>1
<1>6. CASE R # {}
  <2> DEFINE p == Last(R)
             top == StepUp(G(R \ {p})[R \ {p}], Steps(p.status, p.early))
             h == [s \in SUBSET R |-> IF s = R THEN top ELSE G(s)[s]]
  <2>1. p \in R
    BY <1>4, <1>6
  <2>2. h[R] = FoldStep(n, h, R)
    <3>1. h[R \ {p}] = G(R \ {p})[R \ {p}]
      BY <2>1
    <3>2. h[R] = top
      OBVIOUS
    <3> HIDE DEF h
    <3> QED
      BY <1>6, <3>1, <3>2 DEF FoldStep
  <2>3. ASSUME NEW s \in SUBSET R, s # R PROVE h[s] = FoldStep(n, h, s)
    <3>1. IsFold(n, G(s), s)
      BY <1>3, <2>3
    <3>2. G(s)[s] = FoldStep(n, G(s), s)
      BY <3>1 DEF IsFold
    <3>3. h[s] = G(s)[s]
      BY <2>3
    <3>4. CASE s = {}
      BY <3>2, <3>3, <3>4 DEF FoldStep
    <3>5. CASE s # {}
      <4> DEFINE q == Last(s)
                 r == s \ {q}
      <4>1. r # R /\ r \in SUBSET R /\ r \in SUBSET (s \cap r)
        BY <1>4, <2>3, <3>5
      <4>2. IsFold(n, G(r), r)
        BY <1>3, <4>1
      <4>3. h[r] = G(r)[r]
        BY <4>1
      <4>4. G(s)[r] = G(r)[r]
        <5>1. IsFiniteSet(s) /\ s \in SUBSET Snapshots
          BY <1>4
        <5> HIDE DEF r
        <5> QED
          BY <3>1, <4>1, <4>2, <5>1, FoldUnique
      <4>5. h[r] = G(s)[r]
        BY <4>3, <4>4
      <4> HIDE DEF h
      <4> QED
        BY <3>2, <3>3, <3>5, <4>5 DEF FoldStep
    <3> QED
      BY <3>4, <3>5
  <2>4. IsFold(n, h, R)
    <3>1. \A s \in SUBSET R : h[s] = FoldStep(n, h, s)
      BY <2>2, <2>3
    <3>2. h = [s \in SUBSET R |-> h[s]]
      OBVIOUS
    <3> HIDE DEF h
    <3>3. [s \in SUBSET R |-> h[s]] = [s \in SUBSET R |-> FoldStep(n, h, s)]
      BY <3>1
    <3> QED
      BY <3>2, <3>3 DEF IsFold
  <2> QED
    BY <2>4
<1> QED
  BY <1>5, <1>6

\* NextFactor stays between the controller bounds.
LEMMA StepsWithin ==
  ASSUME NEW n \in FMin .. FMax
  PROVE  /\ \A st, ended : StepUp(n, Steps(st, ended)) \in FMin .. FMax
         /\ StepStale(n) \in FMin .. FMax /\ Clamp(0) \in FMin .. FMax
<1>1. \A st, ended : Steps(st, ended) \in Nat
  BY DEF Steps
<1>2. \A k \in Int : Clamp(k) \in FMin .. FMax
  BY ConfigAssumption DEF Clamp
<1>3. n \in Int /\ n - 1 \in Int
  BY ConfigAssumption
<1>4. \A k \in Nat : n + k \in Int
  BY <1>3
<1> QED
  BY <1>1, <1>2, <1>3, <1>4 DEF StepUp, StepStale

\* Folding any orders into a factor within the bounds stays within them.
LEMMA FoldWithin ==
  ASSUME NEW n \in FMin .. FMax, NEW S \in SUBSET Snapshots, IsFiniteSet(S)
  PROVE  Folded(n, S) \in FMin .. FMax
<1> DEFINE g == CHOOSE g : IsFold(n, g, S)
<1>1. IsFold(n, g, S)
  BY FoldExists
<1>2. Folded(n, S) = g[S]
  BY DEF Folded, MapThenFoldSet, IsFold, FoldStep
<1> HIDE DEF g
<1> DEFINE Bad == {u \in SUBSET S : g[u] \notin FMin .. FMax}
<1>3. SUFFICES ASSUME Bad # {} PROVE FALSE
  BY <1>2
<1>4. PICK R \in Bad : \A U \in SUBSET R : U # R => U \notin Bad
  <2> HIDE DEF Bad
  <2>1. Bad \in SUBSET (SUBSET S)
    BY DEF Bad
  <2> QED
    BY <1>3, <2>1, SmallestSubset
<1>5. g[R] = FoldStep(n, g, R)
  BY <1>1 DEF IsFold
<1>6. CASE R = {}
  BY <1>4, <1>5, <1>6 DEF FoldStep
<1>7. CASE R # {}
  <2>1. Last(R) \in R
    <3>1. IsFiniteSet(R) /\ R \in SUBSET Snapshots
      BY FS_Subset
    <3> QED
      BY <1>7, <3>1, LastIn
  <2>2. R \ {Last(R)} \notin Bad /\ R \ {Last(R)} \in SUBSET S
    BY <1>4, <2>1
  <2>3. g[R \ {Last(R)}] \in FMin .. FMax
    BY <2>2
  <2>4. g[R] = StepUp(g[R \ {Last(R)}], Steps(Last(R).status, Last(R).early))
    BY <1>5, <1>7 DEF FoldStep
  <2>5. g[R] \in FMin .. FMax
    BY <2>3, <2>4, StepsWithin
  <2> QED
    BY <1>4, <2>5
<1> QED
  BY <1>6, <1>7

-----------------------------------------------------------------------------
(* The factors stay between the controller bounds *)

\* An image of a finite set is finite.
LEMMA ImageFinite ==
  ASSUME NEW g, IsFiniteSet(DOMAIN g)
  PROVE  IsFiniteSet({g[x] : x \in DOMAIN g})
<1> DEFINE T == {g[x] : x \in DOMAIN g}
           h == [x \in DOMAIN g |-> g[x]]
<1>1. h \in Surjection(DOMAIN g, T)
  BY DEF Surjection
<1> HIDE DEF T, h
<1>2. IsFiniteSet(T)
  BY <1>1, FS_Surjection
<1> QED
  BY <1>2 DEF T

\* A plan is finite: it was selected from the orders.
PlansFinite == \A f \in Folders : IsFiniteSet(batch[f])

Factors == FMin .. FMax
FactorsInRange ==
  /\ factor \in [Listings -> Factors] /\ ledger \in [Listings -> Factors]
  /\ base \in [Folders -> [Listings -> Factors]]

RangeInv == FoldInv /\ PlansFinite /\ FactorsInRange

\* A factor that is not set yet is neutral.
LEMMA NeutralInRange == Neutral \in [Listings -> Factors]
<1>1. FMin \in FMin .. FMax
  BY ConfigAssumption
<1>2. Clamp(0) \in Factors
  BY <1>1, StepsWithin DEF Factors
<1> QED
  BY <1>2 DEF Neutral

\* The initial state satisfies the invariant.
LEMMA RangeInvInit == Init => RangeInv
<1> SUFFICES ASSUME Init PROVE RangeInv
  OBVIOUS
<1>1. FactorsInRange
  BY NeutralInRange DEF Init, FactorsInRange
<1>2. PlansFinite
  BY FS_EmptySet DEF Init, PlansFinite
<1> QED
  BY <1>1, <1>2, FoldInvInit DEF RangeInv

\* Every step leaves the plans finite.
LEMMA PlansStayFinite ==
  ASSUME FoldInv, PlansFinite, [Next]_vars
  PROVE  PlansFinite'
<1>0. batch \in [Folders -> SUBSET Snapshots]
  BY DEF FoldInv, RunsTypeOK
<1>1. ASSUME NEW f \in Folders, NEW T, IsFiniteSet(T), batch' = [batch EXCEPT ![f] = T] PROVE PlansFinite'
  BY <1>0, <1>1 DEF PlansFinite
<1>2. ASSUME UNCHANGED batch PROVE PlansFinite'
  BY <1>2 DEF PlansFinite
<1>3. ASSUME NEW f \in Folders, SelectBatch(f) PROVE PlansFinite'
  <2> DEFINE ready == {o \in recent : Terminal(o) /\ ~applied[o] /\ bound'[o] # NoListing}
             D == FirstOf(ready, Batch)
             g == [o \in D |-> [order |-> o, listing |-> bound'[o], status |-> status[o],
                                updated |-> updated[o], early |-> FALSE]]
  <2>1. D \in SUBSET Orders
    BY DEF FirstOf, FoldInv, OrdersTypeOK
  <2>2. IsFiniteSet(DOMAIN g)
    BY <2>1, ConfigAssumption, FS_Subset
  <2>3. batch' = [batch EXCEPT ![f] = {g[o] : o \in DOMAIN g}]
    <3>1. batch' = [batch EXCEPT ![f] = {[order |-> o, listing |-> bound'[o], status |-> status[o],
                                          updated |-> updated[o], early |-> FALSE] : o \in D}]
      BY <1>3 DEF SelectBatch
    <3>2. DOMAIN g = D
      OBVIOUS
    <3> HIDE DEF D
    <3> QED
      BY <3>1, <3>2
  <2> HIDE DEF g
  <2>4. IsFiniteSet({g[o] : o \in DOMAIN g})
    BY <2>2, ImageFinite
  <2> QED
    BY <1>1, <2>3, <2>4
<1>4. ASSUME NEW f \in Folders, ReadTerms(f) PROVE PlansFinite'
  <2> DEFINE g == [s \in batch[f] |-> [s EXCEPT !.early = early[s.order]]]
  <2>1. IsFiniteSet(DOMAIN g)
    BY DEF PlansFinite
  <2>2. batch' = [batch EXCEPT ![f] = {g[s] : s \in DOMAIN g}]
    <3>1. batch' = [batch EXCEPT ![f] = {[s EXCEPT !.early = early[s.order]] : s \in batch[f]}]
      BY <1>4 DEF ReadTerms
    <3>2. {g[s] : s \in DOMAIN g} = {[s EXCEPT !.early = early[s.order]] : s \in batch[f]}
      OBVIOUS
    <3> HIDE DEF g
    <3> QED
      BY <3>1, <3>2
  <2> HIDE DEF g
  <2>3. IsFiniteSet({g[s] : s \in DOMAIN g})
    BY <2>1, ImageFinite
  <2> QED
    BY <1>1, <2>2, <2>3
<1>5. ASSUME NEW f \in Folders, NEW handled \in SUBSET batch[f], PlanFolds(f, handled) PROVE PlansFinite'
  <2>1. IsFiniteSet(handled)
    BY FS_Subset DEF PlansFinite
  <2> QED
    BY <1>1, <1>5, <2>1 DEF PlanFolds
<1>6. ASSUME NEW f \in Folders, ApplyFactorFolds(f) \/ Abort(f) PROVE PlansFinite'
  BY <1>1, <1>6, FS_EmptySet DEF ApplyFactorFolds, Abort
<1>7. ASSUME NEW f \in Folders, ScanStale(f) PROVE PlansFinite'
  BY <1>2, <1>7 DEF ScanStale
<1>8. ASSUME NEW f \in Folders, NEW stale \in SUBSET exists, StepDown(f, stale) PROVE PlansFinite'
  BY <1>2, <1>8 DEF StepDown
<1>9. ASSUME NEW o, NEW st, NEW ended, NEW fresh, NEW id, UpsertLeaseOrder(o, st, ended, fresh, id) PROVE PlansFinite'
  BY <1>2, <1>9 DEF UpsertLeaseOrder
<1>10. ASSUME NEW l, AddListing(l) PROVE PlansFinite'
  BY <1>2, <1>10 DEF AddListing
<1>11. ASSUME NEW o, AgesOut(o) PROVE PlansFinite'
  BY <1>2, <1>11 DEF AgesOut
<1>12. CASE UNCHANGED vars
  BY <1>2, <1>12 DEF vars
<1> QED
  BY <1>3, <1>4, <1>5, <1>6, <1>7, <1>8, <1>9, <1>10, <1>11, <1>12, Zenon DEF Next

\* Every step leaves the factors within the bounds: what an execution has read is
\* a factor, however old, and every write is clamped.
LEMMA FactorsStayInRange ==
  ASSUME RangeInv, [Next]_vars
  PROVE  FactorsInRange'
<1>0. FoldInv /\ PlansFinite /\ FactorsInRange /\ batch \in [Folders -> SUBSET Snapshots]
  BY DEF RangeInv, FoldInv, RunsTypeOK
<1>1. ASSUME UNCHANGED <<factor, ledger, base>> PROVE FactorsInRange'
  BY <1>0, <1>1 DEF FactorsInRange
<1>2. ASSUME UNCHANGED <<factor, ledger>>, NEW f \in Folders, NEW v \in [Listings -> Factors],
             base' = [base EXCEPT ![f] = v]
      PROVE  FactorsInRange'
  BY <1>0, <1>2 DEF FactorsInRange
<1>3. ASSUME NEW f \in Folders, ApplyFactorFolds(f) PROVE FactorsInRange'
  <2> DEFINE on(l) == {s \in batch[f] : s.listing = l}
             now(l) == {[s EXCEPT !.status = status[s.order], !.early = early[s.order]] : s \in on(l)}
  <2>1. /\ factor' = [l \in Listings |-> IF on(l) = {} THEN factor[l] ELSE Folded(base[f][l], on(l))]
        /\ ledger' = [l \in Listings |-> IF on(l) = {} THEN ledger[l] ELSE Folded(ledger[l], now(l))]
        /\ base' = [base EXCEPT ![f] = Neutral]
        /\ pc[f] = "planned" /\ \A s \in batch[f] : Unchanged(s)
    BY <1>3 DEF ApplyFactorFolds
  <2>2. \A l \in Listings : on(l) \in SUBSET Snapshots /\ IsFiniteSet(on(l))
    BY <1>0, FS_Subset DEF PlansFinite
  <2>3. ASSUME NEW l \in Listings PROVE now(l) = on(l)
    <3>1. \A s \in on(l) : [s EXCEPT !.status = status[s.order], !.early = early[s.order]] = s
      BY <1>0, <2>1, UnchangedIsRow
    <3> QED
      BY <3>1
  <2> HIDE DEF on, now
  <2>4. \A l \in Listings : base[f][l] \in FMin .. FMax /\ ledger[l] \in FMin .. FMax /\ factor[l] \in FMin .. FMax
    BY <1>0 DEF FactorsInRange, Factors
  <2>5. \A l \in Listings : Folded(base[f][l], on(l)) \in FMin .. FMax /\ Folded(ledger[l], now(l)) \in FMin .. FMax
    BY <2>2, <2>3, <2>4, FoldWithin
  <2>6. factor' \in [Listings -> Factors] /\ ledger' \in [Listings -> Factors]
    BY <2>1, <2>4, <2>5 DEF Factors
  <2>7. base' \in [Folders -> [Listings -> Factors]]
    BY <1>0, <2>1, NeutralInRange DEF FactorsInRange
  <2> QED
    BY <2>6, <2>7 DEF FactorsInRange
<1>4. ASSUME NEW f \in Folders, NEW stale \in SUBSET exists, StepDown(f, stale) PROVE FactorsInRange'
  <2>1. \A l \in Listings : /\ base[f][l] \in FMin .. FMax /\ ledger[l] \in FMin .. FMax /\ factor[l] \in FMin .. FMax
                            /\ StepStale(base[f][l]) \in FMin .. FMax /\ StepStale(ledger[l]) \in FMin .. FMax
    BY <1>0, StepsWithin DEF FactorsInRange, Factors
  <2>2. factor' \in [Listings -> Factors] /\ ledger' \in [Listings -> Factors]
    BY <1>4, <2>1 DEF StepDown, Factors
  <2>3. base' \in [Folders -> [Listings -> Factors]]
    BY <1>0, <1>4, NeutralInRange DEF FactorsInRange, StepDown
  <2> QED
    BY <2>2, <2>3 DEF FactorsInRange
<1>5. ASSUME NEW f \in Folders, NEW handled \in SUBSET batch[f], PlanFolds(f, handled) PROVE FactorsInRange'
  BY <1>0, <1>2, <1>5 DEF PlanFolds, historyVars, FactorsInRange
<1>6. ASSUME NEW f \in Folders, ScanStale(f) PROVE FactorsInRange'
  BY <1>0, <1>2, <1>6 DEF ScanStale, historyVars, FactorsInRange
<1>7. ASSUME NEW f \in Folders, Abort(f) PROVE FactorsInRange'
  BY <1>2, <1>7, NeutralInRange DEF Abort, historyVars
<1>8. ASSUME NEW f \in Folders, SelectBatch(f) \/ ReadTerms(f) PROVE FactorsInRange'
  BY <1>1, <1>8 DEF SelectBatch, ReadTerms, historyVars
<1>9. ASSUME NEW o, NEW st, NEW ended, NEW fresh, NEW id, UpsertLeaseOrder(o, st, ended, fresh, id) PROVE FactorsInRange'
  BY <1>1, <1>9 DEF UpsertLeaseOrder, historyVars
<1>10. ASSUME NEW l, AddListing(l) PROVE FactorsInRange'
  BY <1>1, <1>10 DEF AddListing, historyVars
<1>11. ASSUME NEW o, AgesOut(o) PROVE FactorsInRange'
  BY <1>1, <1>11 DEF AgesOut, historyVars
<1>12. CASE UNCHANGED vars
  BY <1>1, <1>12 DEF vars, historyVars
<1> QED
  BY <1>3, <1>4, <1>5, <1>6, <1>7, <1>8, <1>9, <1>10, <1>11, <1>12, Zenon DEF Next

\* Every step keeps the invariant.
LEMMA RangeInvStep == RangeInv /\ [Next]_vars => RangeInv'
BY FoldInvStep, PlansStayFinite, FactorsStayInRange DEF RangeInv

-----------------------------------------------------------------------------
(* Theorems *)

\* ApplyFactorFolds: an order moves a factor at most once, and exactly when it is
\* marked, through retries, crashes, corrections and two processes at a time.
THEOREM NoOrderFoldsTwice == Spec => []FoldedAtMostOnce
<1>1. FoldInv => FoldedAtMostOnce
  BY DEF FoldInv, MarkedOnce, FoldedAtMostOnce
<1> QED
  BY <1>1, FoldInvInit, FoldInvStep, PTL DEF Spec

\* bindFactorOrdersSQL, UpsertLeaseOrder: an order that waits to be folded is
\* bound to a listing its current identity matches, or to none.
THEOREM BindingsMatch == Spec => []BoundToMatchingListing
<1>1. FoldInv => BoundToMatchingListing
  BY DEF FoldInv
<1> QED
  BY <1>1, FoldInvInit, FoldInvStep, PTL DEF Spec

\* RunFactorEvents: while executions do not overlap, every factor is exactly what
\* the committed events make of it, each order judged by its row at the commit.
THEOREM FactorsFollowEvents == Spec => []FactorMatchesEvents
<1>1. FoldInv => FactorMatchesEvents
  BY DEF FoldInv
<1> QED
  BY <1>1, FoldInvInit, FoldInvStep, PTL DEF Spec

\* NextFactor, ApplyFactorFolds, SetListingFactor: the state keeps its shape, and
\* a factor is between the controller bounds whatever orders are folded in
\* whatever batches, also while two executions overlap.
THEOREM FactorsStayBounded == Spec => []TypeOK
<1>1. RangeInv => TypeOK
  BY DEF RangeInv, FoldInv, OrdersTypeOK, RunsTypeOK, FactorsInRange, Factors, TypeOK
<1> QED
  BY <1>1, RangeInvInit, RangeInvStep, PTL DEF Spec
=============================================================================
