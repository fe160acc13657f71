--------------------------- MODULE ShelfListings ---------------------------
(***************************************************************************)
(* The `listings` table of one channel and the lease shelf of the platform *)
(* it mirrors.  Three jobs write the table concurrently: shelf_sync        *)
(* (bench.SyncShelf -> Store.ApplyShelfSnapshot), reconcile                *)
(* (recon.Executor publish / delist and its write-back) and reprice        *)
(* (Deps.repriceChannel).  The platform changes under all of them.         *)
(*                                                                         *)
(* A goods is a goods_ref of the platform.  A listing's terms (prices,     *)
(* days, deposit) are a version number: publishing and every reprice give  *)
(* the goods a fresh version.  `clock` is the database clock               *)
(* (clock_timestamp()); every stamp and every platform change is a new     *)
(* instant.                                                                *)
(***************************************************************************)
EXTENDS Integers

CONSTANTS
  Goods,            \* goods_refs of the channel
  NoGoods,          \* "no goods_ref": a job between two actions
  Syncers,          \* concurrent shelf_sync executions
  FeedShowsLeased,  \* ECO returns leased goods in the feed, UU does not
  MaxClock          \* bound: instants of the database clock

ASSUME ConfigAssumption ==
  /\ NoGoods \notin Goods
  /\ FeedShowsLeased \in BOOLEAN
  /\ MaxClock \in Nat

VARIABLES
  clock,        \* database clock
  shelf,        \* platform: what each goods_ref is right now
  terms,        \* platform: version of its terms
  platAt,       \* history: instant of the goods' last platform change
  rowState,     \* listings.actual_state ("absent": no row)
  rowTerms,     \* listings.rent_price ... deposit
  rowSynced,    \* listings.actual_synced_at (0: NULL)
  rowRepriced,  \* listings.last_reprice_at (0: NULL)
  ownAt,        \* history: instant of the last own platform write in the row
  observed,     \* shelf_observations.observed_at (0: no row)
  syncPc,       \* SyncShelf: "idle" or "fetching" (LeaseShelf under way)
  syncAt,       \* SyncShelf: the boundary taken before the request
  syncGot,      \* goods whose page has been read so far
  syncSeen,     \* what that page said of each goods
  syncTerms,    \* the terms on that page
  syncReadAt,   \* history: when that page was read
  recon,        \* the executor's current action
  reprice       \* the reprice loop's current candidate

platform == <<shelf, terms, platAt>>
rows     == <<rowState, rowTerms, rowSynced, rowRepriced, ownAt>>
syncing  == <<syncPc, syncAt, syncGot, syncSeen, syncTerms, syncReadAt>>
vars     == <<clock, platform, rows, observed, syncing, recon, reprice>>

ShelfStates == {"unissued", "listed", "leased", "off"}
FeedStates  == {"listed", "leased", "out"}
RowStates   == {"absent", "active", "leased", "none"}

\* recon.pc: "planned" delist chosen by the plan, "delisted"/"published" the
\* platform has done it and its answer is on the way back.
Recons   == [pc : {"idle", "planned", "delisted", "published"},
             goods : Goods \cup {NoGoods}, terms : Nat, at : Nat]
\* reprice.pc: "picked" candidate read, "sent" the platform has done it.
Reprices == [pc : {"idle", "picked", "sent"},
             goods : Goods \cup {NoGoods}, terms : Nat, at : Nat]
Idle     == [pc |-> "idle", goods |-> NoGoods, terms |-> 0, at |-> 0]

TypeOK ==
  /\ clock \in Nat /\ observed \in Nat
  /\ shelf \in [Goods -> ShelfStates]
  /\ terms \in [Goods -> Nat] /\ platAt \in [Goods -> Nat]
  /\ rowState \in [Goods -> RowStates]
  /\ rowTerms \in [Goods -> Nat] /\ ownAt \in [Goods -> Nat]
  /\ rowSynced \in [Goods -> Nat] /\ rowRepriced \in [Goods -> Nat]
  /\ syncPc \in [Syncers -> {"idle", "fetching"}]
  /\ syncAt \in [Syncers -> Nat]
  /\ syncGot \in [Syncers -> SUBSET Goods]
  /\ syncSeen \in [Syncers -> [Goods -> FeedStates]]
  /\ syncTerms \in [Syncers -> [Goods -> Nat]]
  /\ syncReadAt \in [Syncers -> [Goods -> Nat]]
  /\ recon \in Recons /\ (recon.pc # "idle" => recon.goods \in Goods)
  /\ reprice \in Reprices /\ (reprice.pc # "idle" => reprice.goods \in Goods)

Init ==
  /\ clock = 0 /\ observed = 0
  /\ shelf = [g \in Goods |-> "unissued"]
  /\ terms = [g \in Goods |-> 0] /\ platAt = [g \in Goods |-> 0]
  /\ rowState = [g \in Goods |-> "absent"]
  /\ rowTerms = [g \in Goods |-> 0] /\ ownAt = [g \in Goods |-> 0]
  /\ rowSynced = [g \in Goods |-> 0] /\ rowRepriced = [g \in Goods |-> 0]
  /\ syncPc = [s \in Syncers |-> "idle"]
  /\ syncAt = [s \in Syncers |-> 0]
  /\ syncGot = [s \in Syncers |-> {}]
  /\ syncSeen = [s \in Syncers |-> [g \in Goods |-> "out"]]
  /\ syncTerms = [s \in Syncers |-> [g \in Goods |-> 0]]
  /\ syncReadAt = [s \in Syncers |-> [g \in Goods |-> 0]]
  /\ recon = Idle /\ reprice = Idle

-----------------------------------------------------------------------------
(* Platform side: what the feed says of a goods, and what happens to it    *)
(* without us.  A goods_ref that left the shelf is never issued again.     *)

Feed(g) ==
  CASE shelf[g] = "listed" -> "listed"
    [] shelf[g] = "leased" /\ FeedShowsLeased -> "leased"
    [] OTHER -> "out"

Tick == clock < MaxClock /\ clock' = clock + 1

PlatformSets(g, s, t) ==
  /\ Tick
  /\ shelf' = [shelf EXCEPT ![g] = s]
  /\ terms' = [terms EXCEPT ![g] = t]
  /\ platAt' = [platAt EXCEPT ![g] = clock + 1]

Environment(g) ==
  /\ \/ shelf[g] = "listed" /\ PlatformSets(g, "leased", terms[g])  \* rented
     \/ shelf[g] = "leased" /\ PlatformSets(g, "listed", terms[g])  \* returned
     \/ shelf[g] \in {"listed", "leased"} /\ PlatformSets(g, "off", terms[g])
  /\ UNCHANGED <<rows, observed, syncing, recon, reprice>>

-----------------------------------------------------------------------------
(* shelf_sync *)

\* GREATEST(actual_synced_at, last_reprice_at), NULLs ignored.
Newest(g) == IF rowSynced[g] >= rowRepriced[g] THEN rowSynced[g] ELSE rowRepriced[g]

\* Fault: the reprice stamp is not looked at.
UnstampedBySync(g, at) == rowSynced[g] <= at

\* Fault: a comparison with a NULL last_reprice_at is not true.
UnstampedNotNull(g, at) == rowRepriced[g] # 0 /\ Newest(g) <= at

\* The row may be overwritten by an observation whose boundary is `at`.
Unstamped(g, at) == Newest(g) <= at

\* ShelfObservationTime: the boundary is taken before the request goes out.
BeginSync(s) ==
  /\ syncPc[s] = "idle"
  /\ Tick
  /\ syncPc' = [syncPc EXCEPT ![s] = "fetching"]
  /\ syncAt' = [syncAt EXCEPT ![s] = clock + 1]
  /\ UNCHANGED <<platform, rows, observed, syncGot, syncSeen, syncTerms, syncReadAt, recon, reprice>>

\* LeaseShelf pages through the shelf: pages are read at different instants.
FetchPage(s, g) ==
  /\ syncPc[s] = "fetching" /\ g \notin syncGot[s]
  /\ syncGot' = [syncGot EXCEPT ![s] = @ \cup {g}]
  /\ syncSeen' = [syncSeen EXCEPT ![s][g] = Feed(g)]
  /\ syncTerms' = [syncTerms EXCEPT ![s][g] = terms[g]]
  /\ syncReadAt' = [syncReadAt EXCEPT ![s][g] = clock]
  /\ UNCHANGED <<clock, platform, rows, observed, syncPc, syncAt, recon, reprice>>

\* SyncShelf returns: its locals are gone.
EndSync(s) ==
  /\ syncPc[s] = "fetching"
  /\ syncPc' = [syncPc EXCEPT ![s] = "idle"]
  /\ syncAt' = [syncAt EXCEPT ![s] = 0]
  /\ syncGot' = [syncGot EXCEPT ![s] = {}]
  /\ syncSeen' = [syncSeen EXCEPT ![s] = [g \in Goods |-> "out"]]
  /\ syncTerms' = [syncTerms EXCEPT ![s] = [g \in Goods |-> 0]]
  /\ syncReadAt' = [syncReadAt EXCEPT ![s] = [g \in Goods |-> 0]]

\* The request or the transaction fails: nothing is written.
SyncFails(s) ==
  /\ EndSync(s)
  /\ UNCHANGED <<clock, platform, rows, observed, recon, reprice>>

Superseded(s) == observed # 0 /\ syncAt[s] <= observed

Breaker(s) ==
  /\ \A g \in Goods : syncSeen[s][g] = "out"
  /\ \E g \in Goods : rowState[g] \in {"active", "leased"}

\* upsertListingFromShelf takes the row, markMissingListings drops it.
Upserts(s, g) ==
  /\ syncSeen[s][g] # "out"
  /\ rowState[g] = "absent" \/ Unstamped(g, syncAt[s])

Drops(s, g) ==
  /\ syncSeen[s][g] = "out" /\ rowState[g] = "active"
  /\ Unstamped(g, syncAt[s])

ApplyRows(s) ==
  /\ rowState' = [g \in Goods |->
       IF Upserts(s, g) THEN IF syncSeen[s][g] = "leased" THEN "leased" ELSE "active"
       ELSE IF Drops(s, g) THEN "none" ELSE rowState[g]]
  /\ rowTerms' = [g \in Goods |-> IF Upserts(s, g) THEN syncTerms[s][g] ELSE rowTerms[g]]
  /\ rowSynced' = [g \in Goods |->
       IF Upserts(s, g) \/ Drops(s, g) THEN syncAt[s] ELSE rowSynced[g]]
  /\ observed' = syncAt[s]
  /\ UNCHANGED <<rowRepriced, ownAt>>

\* ApplyShelfSnapshot: one transaction under the channel's advisory lock.
ApplyShelfSnapshot(s) ==
  /\ syncGot[s] = Goods /\ EndSync(s)
  /\ IF Superseded(s) \/ Breaker(s) THEN UNCHANGED <<rows, observed>> ELSE ApplyRows(s)
  /\ UNCHANGED <<clock, platform, recon, reprice>>

-----------------------------------------------------------------------------
(* reconcile: Executor.ExecuteWithError, one action at a time *)

\* PublishLease: the platform issues a goods_ref and lists it.
SendPublish(g) ==
  /\ recon.pc = "idle" /\ shelf[g] = "unissued"
  /\ PlatformSets(g, "listed", terms[g] + 1)
  /\ recon' = [pc |-> "published", goods |-> g, terms |-> terms[g] + 1, at |-> clock + 1]
  /\ UNCHANGED <<rows, observed, syncing, reprice>>

\* The plan takes delists from active rows only; it runs later.
PlanDelist(g) ==
  /\ recon.pc = "idle" /\ rowState[g] = "active"
  /\ recon' = [recon EXCEPT !.pc = "planned", !.goods = g]
  /\ UNCHANGED <<clock, platform, rows, observed, syncing, reprice>>

SendDelist ==
  /\ recon.pc = "planned" /\ shelf[recon.goods] = "listed"
  /\ PlatformSets(recon.goods, "off", terms[recon.goods])
  /\ recon' = [recon EXCEPT !.pc = "delisted", !.at = clock + 1]
  /\ UNCHANGED <<rows, observed, syncing, reprice>>

\* The call is refused or never sent, its answer is lost or carries no
\* goods_ref, or the write-back fails: no row changes.
ReconFails ==
  /\ recon.pc # "idle"
  /\ recon' = Idle
  /\ UNCHANGED <<clock, platform, rows, observed, syncing, reprice>>

\* A write-back stamps the row with the database clock.
RecordPublishedListing(g) ==
  /\ rowState' = [rowState EXCEPT ![g] = "active"]
  /\ rowTerms' = [rowTerms EXCEPT ![g] = recon.terms]
  /\ rowSynced' = [rowSynced EXCEPT ![g] = clock + 1]
  /\ UNCHANGED rowRepriced

\* An UPDATE: no row, no effect.
MarkListingDelisted(g) ==
  /\ rowState' = [rowState EXCEPT ![g] = IF @ = "absent" THEN @ ELSE "none"]
  /\ rowSynced' = [rowSynced EXCEPT ![g] = IF rowState[g] = "absent" THEN @ ELSE clock + 1]
  /\ UNCHANGED <<rowTerms, rowRepriced>>

ReconWriteBack ==
  /\ Tick
  /\ \/ recon.pc = "published" /\ RecordPublishedListing(recon.goods)
     \/ recon.pc = "delisted" /\ MarkListingDelisted(recon.goods)
  /\ ownAt' = [ownAt EXCEPT ![recon.goods] = IF @ < recon.at THEN recon.at ELSE @]
  /\ recon' = Idle
  /\ UNCHANGED <<platform, observed, syncing, reprice>>

-----------------------------------------------------------------------------
(* reprice: Deps.repriceChannel, one candidate at a time *)

\* ListRepriceCandidates: active rows, read before the loop runs.
PickCandidate(g) ==
  /\ reprice.pc = "idle" /\ rowState[g] = "active"
  /\ reprice' = [reprice EXCEPT !.pc = "picked", !.goods = g]
  /\ UNCHANGED <<clock, platform, rows, observed, syncing, recon>>

SendReprice ==
  /\ reprice.pc = "picked" /\ shelf[reprice.goods] = "listed"
  /\ PlatformSets(reprice.goods, "listed", terms[reprice.goods] + 1)
  /\ reprice' = [reprice EXCEPT !.pc = "sent", !.terms = terms[reprice.goods] + 1, !.at = clock + 1]
  /\ UNCHANGED <<rows, observed, syncing, recon>>

\* Skipped by the decision or the dry-run gate, refused by the platform,
\* answer lost, or the row update failed.
RepriceFails ==
  /\ reprice.pc # "idle"
  /\ reprice' = Idle
  /\ UNCHANGED <<clock, platform, rows, observed, syncing, recon>>

\* UpdateListingDecision: terms and last_reprice_at, whatever the state is now.
UpdateListingDecision ==
  /\ reprice.pc = "sent" /\ Tick
  /\ rowTerms' = [rowTerms EXCEPT ![reprice.goods] = reprice.terms]
  /\ rowRepriced' = [rowRepriced EXCEPT ![reprice.goods] = clock + 1]
  /\ ownAt' = [ownAt EXCEPT ![reprice.goods] = IF @ < reprice.at THEN reprice.at ELSE @]
  /\ reprice' = Idle
  /\ UNCHANGED <<platform, rowState, rowSynced, observed, syncing, recon>>

-----------------------------------------------------------------------------
Next ==
  \/ \E s \in Syncers :
       \/ BeginSync(s) \/ SyncFails(s) \/ ApplyShelfSnapshot(s)
       \/ \E g \in Goods : FetchPage(s, g)
  \/ \E g \in Goods : Environment(g) \/ SendPublish(g) \/ PlanDelist(g) \/ PickCandidate(g)
  \/ SendDelist \/ ReconFails \/ ReconWriteBack
  \/ SendReprice \/ RepriceFails \/ UpdateListingDecision

Spec == Init /\ [][Next]_vars

-----------------------------------------------------------------------------
(* Properties *)

\* The last applied snapshot was begun after the goods' last platform change,
\* and no write-back has touched the row since.
Settled(g) == observed > platAt[g] /\ observed >= Newest(g)

Agrees(g) ==
  /\ Feed(g) = "listed" => rowState[g] = "active" /\ rowTerms[g] = terms[g]
  /\ Feed(g) = "leased" => rowState[g] = "leased" /\ rowTerms[g] = terms[g]
  /\ Feed(g) = "out" => rowState[g] # "active"

\* AC-T3 "a later snapshot converges": whatever write-backs were lost, late or
\* out of date, once a snapshot begun after the last platform change of a goods
\* is applied, and is newer than the row's own stamps, the row shows what the
\* shelf shows.  A snapshot that recorded its boundary without having looked
\* after it would break this.
Converged == \A g \in Goods : Settled(g) => Agrees(g)

\* The syncer whose snapshot a step applies.
Applies(s) == syncPc[s] = "fetching" /\ syncGot[s] = Goods /\ syncPc'[s] = "idle"

RowChanges(g) ==
  \/ rowState'[g] # rowState[g] \/ rowTerms'[g] # rowTerms[g] \/ rowSynced'[g] # rowSynced[g]

\* AC-T3 "a publish, delist or reprice finished after the boundary is not
\* overwritten by the old snapshot": a snapshot changes a row only when the
\* page it read was read after every own platform write the row records, and
\* never moves the row's stamp back.
SnapshotKeepsOwnWrites ==
  [][\A s \in Syncers, g \in Goods :
       Applies(s) /\ RowChanges(g) =>
         /\ syncReadAt[s][g] >= ownAt[g]
         /\ rowSynced'[g] >= Newest(g)]_vars

\* ADR-0005 says a leased listing is re-evaluated in the cycle after its lease
\* ends.  markMissingListings skips leased rows, so a row whose goods left the
\* shelf from the leased state is never looked at again.
EndedLeaseIsReevaluated ==
  \A g \in Goods : Settled(g) /\ shelf[g] = "off" => rowState[g] # "leased"
=============================================================================
