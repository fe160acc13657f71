----------------------------- MODULE FactorFold -----------------------------
(***************************************************************************)
(* The pricing feedback loop (factor_events job): finished rental orders   *)
(* are bound to the one listing they can belong to and folded into that    *)
(* listing's factor, then idle listings step down.  Order sync rewrites    *)
(* the same orders concurrently, and a process that has lost its lock may  *)
(* run the job at the same time as its successor.                          *)
(*                                                                         *)
(* A factor is counted in controller steps from neutral (factor 1.00 is    *)
(* 0), between FMin and FMax.  An order's identity (asset, template, start *)
(* time) is the set of listings it matches.                                *)
(***************************************************************************)
EXTENDS Integers, FiniteSets, Folds

CONSTANTS
  Orders,      \* order ids, numbers: batches go in id order
  Listings,    \* listing rows of the channel
  NoListing,   \* factor_listing_id IS NULL
  Identities,  \* the identities order sync reports
  Folders,     \* factor_events executions
  Batch,       \* factorOrderBatch
  FMin, FMax,  \* controller bounds, in steps
  MaxSync      \* bound: order sync writes

ASSUME ConfigAssumption ==
  /\ Orders \subseteq Nat /\ IsFiniteSet(Orders)
  /\ NoListing \notin Listings
  /\ Identities \subseteq SUBSET Listings
  /\ Batch \in Nat \ {0} /\ MaxSync \in Nat
  /\ FMin \in Int /\ FMax \in Int /\ FMin <= FMax

VARIABLES
  exists,      \* listing rows shelf sync has created
  factor,      \* listings.factor
  status,      \* lease_orders.status ("absent": not synced yet)
  early,       \* the order ended before its term (rent_days < term)
  recent,      \* orders that finished (or were due, or written) in the last 100 days
  ident,       \* identity columns
  bound,       \* factor_listing_id
  applied,     \* factor_applied
  updated,     \* updated_at: the number of the sync that wrote the row
  syncs,       \* order syncs so far
  pc,          \* per execution: where RunFactorEvents is
  batch,       \* selected order snapshots
  base,        \* factors read for the batch or the stale scan
  overlapped,  \* history: two executions were under way at once
  folds,       \* history: committed folds of each order
  ledger       \* history: the factor every committed event should have made

orderVars   == <<status, early, recent, ident, updated, syncs>>
historyVars == <<overlapped, folds, ledger>>
vars == <<exists, factor, orderVars, bound, applied, pc, batch, base, historyVars>>

Statuses == {"absent", "open", "done", "bought_out"}
Snapshots == [order : Orders, listing : Listings, status : Statuses, updated : Nat,
              early : BOOLEAN]
Pcs == {"idle", "selected", "read", "planned", "scan", "scanned"}

TypeOK ==
  /\ exists \subseteq Listings
  /\ factor \in [Listings -> FMin .. FMax] /\ ledger \in [Listings -> FMin .. FMax]
  /\ status \in [Orders -> Statuses] /\ early \in [Orders -> BOOLEAN]
  /\ recent \subseteq Orders
  /\ ident \in [Orders -> Identities \cup {{}}]
  /\ bound \in [Orders -> Listings \cup {NoListing}]
  /\ applied \in [Orders -> BOOLEAN]
  /\ syncs \in 0 .. MaxSync /\ updated \in [Orders -> 0 .. MaxSync]
  /\ pc \in [Folders -> Pcs]
  /\ \A f \in Folders : batch[f] \subseteq Snapshots
  /\ base \in [Folders -> [Listings -> FMin .. FMax]]
  /\ overlapped \in BOOLEAN /\ folds \in [Orders -> Nat]

Clamp(n) == IF n < FMin THEN FMin ELSE IF n > FMax THEN FMax ELSE n
Neutral  == [l \in Listings |-> Clamp(0)]

Init ==
  /\ exists = {} /\ factor = Neutral /\ ledger = Neutral
  /\ status = [o \in Orders |-> "absent"] /\ early = [o \in Orders |-> FALSE]
  /\ recent = {}
  /\ ident = [o \in Orders |-> {}]
  /\ bound = [o \in Orders |-> NoListing] /\ applied = [o \in Orders |-> FALSE]
  /\ syncs = 0 /\ updated = [o \in Orders |-> 0]
  /\ pc = [f \in Folders |-> "idle"] /\ batch = [f \in Folders |-> {}]
  /\ base = [f \in Folders |-> Neutral]
  /\ overlapped = FALSE /\ folds = [o \in Orders |-> 0]

-----------------------------------------------------------------------------
(* Controller arithmetic *)

\* classifyFactorEvent: steps an order is worth; a full-term rental is no signal.
Steps(st, ended) ==
  CASE st = "bought_out" -> 2
    [] st = "done" /\ ended -> 1
    [] OTHER -> 0

\* Fault: the result is not clamped.
StepUpUnclamped(n, steps) == n + steps

\* NextFactor
StepUp(n, steps) == Clamp(n + steps)
\* The stale scan: step down, or back to neutral from the floor.
StepStale(n) == IF n = FMin THEN Clamp(0) ELSE Clamp(n - 1)

Terminal(o) == status[o] \in {"done", "bought_out"}

-----------------------------------------------------------------------------
(* Order sync and shelf sync *)

\* bindFactorOrdersSQL: the one candidate, never the newest of several.
Candidates(id) == id \cap exists
BindTo(id) == IF Cardinality(Candidates(id)) = 1
              THEN CHOOSE l \in Candidates(id) : TRUE ELSE NoListing

\* Fault: a binding, once made, stays.
KeepsAnyBinding(o, id) == TRUE

\* A changed identity drops the binding of an order not folded yet.
KeepsBinding(o, id) == applied[o] \/ id = ident[o]

\* UpsertLeaseOrder: write the row, then bind it in the same transaction, however
\* long ago the order finished.
UpsertLeaseOrder(o, st, ended, fresh, id) ==
  /\ syncs < MaxSync
  /\ syncs' = syncs + 1
  /\ updated' = [updated EXCEPT ![o] = syncs + 1]
  /\ status' = [status EXCEPT ![o] = st]
  /\ early' = [early EXCEPT ![o] = ended]
  /\ recent' = IF fresh THEN recent \cup {o} ELSE recent \ {o}
  /\ ident' = [ident EXCEPT ![o] = id]
  /\ bound' = [bound EXCEPT ![o] =
       IF @ # NoListing /\ KeepsBinding(o, id) THEN @
       ELSE IF applied[o] THEN @ ELSE BindTo(id)]
  /\ UNCHANGED <<exists, factor, applied, pc, batch, base, historyVars>>

\* A finished order leaves factorOrderWindow.
AgesOut(o) ==
  /\ Terminal(o) /\ o \in recent /\ recent' = recent \ {o}
  /\ UNCHANGED <<exists, factor, status, early, ident, updated, syncs, bound, applied, pc, batch, base,
                 historyVars>>

\* Shelf sync records a listing the orders may belong to.
AddListing(l) ==
  /\ l \notin exists /\ exists' = exists \cup {l}
  /\ UNCHANGED <<factor, orderVars, bound, applied, pc, batch, base, historyVars>>

-----------------------------------------------------------------------------
(* RunFactorEvents *)

Goto(f, to) == pc' = [pc EXCEPT ![f] = to]

\* The first n orders in id order.
FirstOf(S, n) == {o \in S : Cardinality({m \in S : m < o}) < n}

\* Fault: only orders still open are bound again.
RebindableWhileOpen(o) == ~applied[o] /\ bound[o] = NoListing /\ ~Terminal(o) /\ o \in recent

\* Finished orders that arrived before their shelf row, or were ambiguous then,
\* until they leave the window.
Rebindable(o) == ~applied[o] /\ bound[o] = NoListing /\ Terminal(o) /\ o \in recent

\* UnhandledFactorOrders: bind what can be bound now, then select a batch.  The
\* two statements are one step: they use the same start of the window, an order
\* sync between them binds its own order, and a new listing row is not looked at
\* by the second.
SelectBatch(f) ==
  /\ pc[f] = "idle" /\ Goto(f, "selected")
  /\ bound' = [o \in Orders |->
       IF Rebindable(o) THEN BindTo(ident[o]) ELSE bound[o]]
  /\ LET ready == {o \in recent : Terminal(o) /\ ~applied[o] /\ bound'[o] # NoListing} IN
     batch' = [batch EXCEPT ![f] =
       {[order |-> o, listing |-> bound'[o], status |-> status[o], updated |-> updated[o],
         early |-> FALSE] : o \in FirstOf(ready, Batch)}]
  /\ overlapped' = (overlapped \/ \E e \in Folders : pc[e] # "idle")
  /\ UNCHANGED <<exists, factor, orderVars, applied, base, folds, ledger>>

\* orderTerms: read later than the batch, from the rows as they are then.
ReadTerms(f) ==
  /\ pc[f] = "selected" /\ Goto(f, "read")
  /\ batch' = [batch EXCEPT ![f] = {[s EXCEPT !.early = early[s.order]] : s \in batch[f]}]
  /\ UNCHANGED <<exists, factor, orderVars, bound, applied, base, historyVars>>

\* The fold loop: orders whose strategy cannot be read are left out (and stay
\* unmarked); the listings' factors are read.
PlanFolds(f, handled) ==
  /\ pc[f] = "read" /\ Goto(f, "planned")
  /\ batch' = [batch EXCEPT ![f] = handled]
  /\ base' = [base EXCEPT ![f] = factor]
  /\ UNCHANGED <<exists, factor, orderVars, bound, applied, historyVars>>

\* Fault: a fold committed by another execution is not noticed.
UnchangedButApplied(s) == bound[s.order] = s.listing /\ updated[s.order] = s.updated

\* Fault: a corrected row is not noticed.
UnchangedButUpdated(s) == ~applied[s.order] /\ bound[s.order] = s.listing

\* The order row is still the one the plan was made from.
Unchanged(s) ==
  /\ ~applied[s.order]
  /\ bound[s.order] = s.listing
  /\ updated[s.order] = s.updated

\* Orders of one listing fold one after the other, in id order: the last of some
\* orders folds into what the others make.
Last(ss) == CHOOSE s \in ss : \A r \in ss : r.order <= s.order
Folded(n, ss) ==
  MapThenFoldSet(LAMBDA s, acc : StepUp(acc, Steps(s.status, s.early)), n,
                 LAMBDA s : s, LAMBDA S : Last(S), ss)

\* ApplyFactorFolds: verify every order, write the factors, mark the orders.
ApplyFactorFolds(f) ==
  /\ pc[f] = "planned" /\ Goto(f, "scan")
  /\ \A s \in batch[f] : Unchanged(s)
  /\ LET on(l) == {s \in batch[f] : s.listing = l}
         now(l) == {[s EXCEPT !.status = status[s.order], !.early = early[s.order]] : s \in on(l)}
     IN /\ factor' = [l \in Listings |->
             IF on(l) = {} THEN factor[l] ELSE Folded(base[f][l], on(l))]
        /\ ledger' = [l \in Listings |->
             IF on(l) = {} THEN ledger[l] ELSE Folded(ledger[l], now(l))]
  /\ applied' = [o \in Orders |-> applied[o] \/ \E s \in batch[f] : s.order = o]
  /\ folds' = [o \in Orders |-> IF \E s \in batch[f] : s.order = o THEN folds[o] + 1 ELSE folds[o]]
  /\ batch' = [batch EXCEPT ![f] = {}] /\ base' = [base EXCEPT ![f] = Neutral]
  /\ UNCHANGED <<exists, orderVars, bound, overlapped>>

\* FactorStaleCandidates: idle active listings with their factors.
ScanStale(f) ==
  /\ pc[f] = "scan" /\ Goto(f, "scanned")
  /\ base' = [base EXCEPT ![f] = factor]
  /\ UNCHANGED <<exists, factor, orderVars, bound, applied, batch, historyVars>>

\* SetListingFactor for the listings whose idle window has passed and whose
\* strategy and update succeed.
StepDown(f, stale) ==
  /\ pc[f] = "scanned" /\ Goto(f, "idle")
  /\ factor' = [l \in Listings |-> IF l \in stale THEN StepStale(base[f][l]) ELSE factor[l]]
  /\ ledger' = [l \in Listings |-> IF l \in stale THEN StepStale(ledger[l]) ELSE ledger[l]]
  /\ base' = [base EXCEPT ![f] = Neutral]
  /\ UNCHANGED <<exists, orderVars, bound, applied, batch, overlapped, folds>>

\* A store error, ErrFactorOrdersChanged, a cancelled context or a crash: the
\* execution ends where it is and nothing of its plan is kept.
Abort(f) ==
  /\ pc[f] # "idle" /\ Goto(f, "idle")
  /\ batch' = [batch EXCEPT ![f] = {}] /\ base' = [base EXCEPT ![f] = Neutral]
  /\ UNCHANGED <<exists, factor, orderVars, bound, applied, historyVars>>

-----------------------------------------------------------------------------
Next ==
  \/ \E o \in Orders, st \in Statuses \ {"absent"}, id \in Identities :
       \E ended \in IF st = "done" THEN BOOLEAN ELSE {FALSE},
          fresh \in IF st = "open" THEN {TRUE} ELSE BOOLEAN : UpsertLeaseOrder(o, st, ended, fresh, id)
  \/ \E o \in Orders : AgesOut(o)
  \/ \E l \in Listings : AddListing(l)
  \/ \E f \in Folders :
       \/ SelectBatch(f) \/ ReadTerms(f) \/ ApplyFactorFolds(f) \/ ScanStale(f) \/ Abort(f)
       \/ \E handled \in SUBSET batch[f] : PlanFolds(f, handled)
       \/ \E stale \in SUBSET exists : StepDown(f, stale)

Spec == Init /\ [][Next]_vars

\* The job runs every 17 minutes; a store or strategy lookup that fails now and
\* then also succeeds now and then, in runs that have something to fold too.
Fairness ==
  \A f \in Folders :
    /\ WF_vars(SelectBatch(f)) /\ WF_vars(ScanStale(f)) /\ WF_vars(StepDown(f, {}))
    /\ SF_vars(ReadTerms(f)) /\ SF_vars(PlanFolds(f, batch[f]))
    /\ SF_vars(batch[f] # {} /\ ApplyFactorFolds(f)) /\ WF_vars(Abort(f))

-----------------------------------------------------------------------------
(* Properties *)

\* Every order moves a factor at most once, through retries, crashes,
\* concurrent corrections and two processes folding at the same time.
FoldedAtMostOnce == \A o \in Orders : folds[o] <= 1 /\ (folds[o] = 1 <=> applied[o])

\* While executions do not overlap, a listing's factor is exactly what the
\* committed events make of it, each order judged by the row it had when its
\* fold was committed: no event is lost, doubled, or taken from a row that order
\* sync has corrected since.
FactorMatchesEvents == ~overlapped => factor = ledger

\* An order waiting to be folded is bound only to a listing its current identity
\* matches: a correction of the identity never leaves the old binding behind.
BoundToMatchingListing ==
  \A o \in Orders : ~applied[o] /\ bound[o] # NoListing => bound[o] \in ident[o]

Foldable(o) == Terminal(o) /\ ~applied[o] /\ BindTo(ident[o]) # NoListing /\ o \in recent

\* A finished order with a unique listing is eventually folded, whatever older
\* unresolved orders are waiting with it (or stops qualifying: its row or its
\* listings change, or it is more than 100 days old before a run commits it).
FoldableIsFolded == \A o \in Orders : Foldable(o) ~> ~Foldable(o)
=============================================================================
