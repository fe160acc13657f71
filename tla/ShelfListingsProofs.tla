------------------------- MODULE ShelfListingsProofs -------------------------
(***************************************************************************)
(* For every set of goods, every number of overlapping shelf_sync          *)
(* executions, both kinds of feed and every clock bound: the row a         *)
(* snapshot has settled agrees with the shelf, and a snapshot never        *)
(* overwrites a publish, delist or reprice it did not see.                 *)
(***************************************************************************)
EXTENDS ShelfListings, TLAPS

-----------------------------------------------------------------------------
(* The inductive invariant *)

\* No stamp lies in the future.
StampsPast ==
  /\ observed <= clock
  /\ \A g \in Goods : platAt[g] <= clock /\ rowSynced[g] <= clock /\ rowRepriced[g] <= clock
  /\ recon.at <= clock /\ reprice.at <= clock

\* A row records an own write under a stamp at least as late as that write;
\* a row that does not exist records nothing.
OwnWritesStamped ==
  \A g \in Goods :
    /\ ownAt[g] <= Newest(g)
    /\ rowState[g] = "absent" => rowSynced[g] = 0 /\ rowRepriced[g] = 0

\* A job in the middle of a delist or a reprice works on an existing row.
TargetsExist ==
  /\ recon.pc \in {"planned", "delisted"} => rowState[recon.goods] # "absent"
  /\ reprice.pc # "idle" => rowState[reprice.goods] # "absent"

\* A page was read at or after the boundary, and if the goods has not changed
\* since before the boundary the page still says what the shelf says.
PagesAfterBoundary ==
  \A s \in Syncers :
    /\ syncPc[s] = "idle" => syncGot[s] = {}
    /\ syncPc[s] = "fetching" =>
      /\ syncAt[s] <= clock
      /\ \A g \in syncGot[s] :
           /\ syncReadAt[s][g] >= syncAt[s]
           /\ syncAt[s] > platAt[g] => syncSeen[s][g] = Feed(g) /\ syncTerms[s][g] = terms[g]

IInv ==
  /\ TypeOK
  /\ StampsPast
  /\ OwnWritesStamped
  /\ TargetsExist
  /\ PagesAfterBoundary
  /\ Converged

-----------------------------------------------------------------------------
\* What the feed can say.
LEMMA FeedType == ASSUME NEW g \in Goods PROVE Feed(g) \in FeedStates
BY DEF Feed, FeedStates

\* Newest is the later of the row's two stamps.
LEMMA NewestIsMax ==
  ASSUME TypeOK, NEW g \in Goods
  PROVE  /\ Newest(g) \in Nat
         /\ rowSynced[g] <= Newest(g) /\ rowRepriced[g] <= Newest(g)
         /\ Newest(g) = rowSynced[g] \/ Newest(g) = rowRepriced[g]
BY DEF TypeOK, Newest

\* A platform change keeps the platform's types.
LEMMA PlatformType ==
  ASSUME TypeOK, NEW g \in Goods, NEW s \in ShelfStates, NEW t \in Nat, PlatformSets(g, s, t)
  PROVE  /\ clock' \in Nat /\ clock' = clock + 1
         /\ shelf' \in [Goods -> ShelfStates]
         /\ terms' \in [Goods -> Nat] /\ platAt' \in [Goods -> Nat]
BY DEF TypeOK, PlatformSets, Tick

\* Every step keeps every variable in its type.
LEMMA TypeStep == TypeOK /\ [Next]_vars => TypeOK'
<1> SUFFICES ASSUME TypeOK, [Next]_vars PROVE TypeOK'
  OBVIOUS
<1> USE DEF RowStates, ShelfStates, FeedStates, Recons, Reprices, Idle, rows, platform, syncing
<1>1. ASSUME NEW s \in Syncers, BeginSync(s) PROVE TypeOK'
  BY <1>1 DEF BeginSync, TypeOK, Tick
<1>2. ASSUME NEW s \in Syncers, SyncFails(s) PROVE TypeOK'
  BY <1>2 DEF SyncFails, EndSync, TypeOK
<1>3. ASSUME NEW s \in Syncers, ApplyShelfSnapshot(s) PROVE TypeOK'
  <2>1. CASE ApplyRows(s)
    <3>1. /\ rowState' \in [Goods -> RowStates]
          /\ rowTerms' \in [Goods -> Nat]
          /\ rowSynced' \in [Goods -> Nat]
          /\ observed' \in Nat
      BY <2>1 DEF ApplyRows, TypeOK
    <3> QED
      BY <1>3, <2>1, <3>1 DEF ApplyShelfSnapshot, EndSync, ApplyRows, TypeOK
  <2>2. CASE UNCHANGED <<rows, observed>>
    BY <1>3, <2>2 DEF ApplyShelfSnapshot, EndSync, TypeOK
  <2> QED
    BY <1>3, <2>1, <2>2 DEF ApplyShelfSnapshot
<1>4. ASSUME NEW s \in Syncers, NEW g \in Goods, FetchPage(s, g) PROVE TypeOK'
  BY <1>4, FeedType DEF FetchPage, TypeOK
<1>5. ASSUME NEW g \in Goods, Environment(g) PROVE TypeOK'
  <2>1. PICK s \in ShelfStates : PlatformSets(g, s, terms[g])
    BY <1>5 DEF Environment
  <2>2. terms[g] \in Nat
    BY DEF TypeOK
  <2> QED
    BY <1>5, <2>1, <2>2, PlatformType DEF Environment, TypeOK
<1>6. ASSUME NEW g \in Goods, SendPublish(g) PROVE TypeOK'
  BY <1>6 DEF SendPublish, PlatformSets, Tick, TypeOK
<1>7. ASSUME NEW g \in Goods, PlanDelist(g) PROVE TypeOK'
  BY <1>7 DEF PlanDelist, TypeOK
<1>8. ASSUME NEW g \in Goods, PickCandidate(g) PROVE TypeOK'
  BY <1>8 DEF PickCandidate, TypeOK
<1>9. CASE SendDelist
  <2>1. recon.goods \in Goods /\ terms[recon.goods] \in Nat
    BY <1>9 DEF SendDelist, TypeOK
  <2>2. /\ clock' \in Nat /\ shelf' \in [Goods -> ShelfStates]
        /\ terms' \in [Goods -> Nat] /\ platAt' \in [Goods -> Nat]
    BY <1>9, <2>1, PlatformType DEF SendDelist
  <2>3. recon' \in Recons /\ recon'.goods \in Goods
    <3>1. recon \in Recons /\ clock + 1 \in Nat
      BY DEF TypeOK
    <3>2. recon' = [recon EXCEPT !.pc = "delisted", !.at = clock + 1]
      BY <1>9 DEF SendDelist
    <3> QED
      BY <2>1, <3>1, <3>2
  <2> QED
    BY <1>9, <2>2, <2>3 DEF SendDelist, TypeOK
<1>10. CASE ReconFails
  BY <1>10 DEF ReconFails, TypeOK
<1>11. CASE ReconWriteBack
  <2>1. /\ recon.goods \in Goods /\ recon.at \in Nat /\ recon.terms \in Nat
        /\ clock + 1 \in Nat
    BY <1>11 DEF ReconWriteBack, TypeOK
  <2>2. /\ rowState' \in [Goods -> RowStates] /\ rowTerms' \in [Goods -> Nat]
        /\ rowSynced' \in [Goods -> Nat] /\ rowRepriced' \in [Goods -> Nat]
    <3>1. CASE RecordPublishedListing(recon.goods)
      BY <2>1, <3>1 DEF RecordPublishedListing, TypeOK
    <3>2. CASE MarkListingDelisted(recon.goods)
      BY <2>1, <3>2 DEF MarkListingDelisted, TypeOK
    <3> QED
      BY <1>11, <3>1, <3>2 DEF ReconWriteBack
  <2>3. ownAt' \in [Goods -> Nat]
    BY <1>11, <2>1 DEF ReconWriteBack, TypeOK
  <2> QED
    BY <1>11, <2>1, <2>2, <2>3 DEF ReconWriteBack, Tick, TypeOK
<1>12. CASE SendReprice
  <2>1. reprice.goods \in Goods /\ terms[reprice.goods] + 1 \in Nat
    BY <1>12 DEF SendReprice, TypeOK
  <2>2. /\ clock' \in Nat /\ shelf' \in [Goods -> ShelfStates]
        /\ terms' \in [Goods -> Nat] /\ platAt' \in [Goods -> Nat]
    BY <1>12, <2>1, PlatformType DEF SendReprice
  <2>3. reprice' \in Reprices /\ reprice'.goods \in Goods
    <3>1. reprice \in Reprices /\ clock + 1 \in Nat
      BY DEF TypeOK
    <3>2. reprice' = [reprice EXCEPT !.pc = "sent", !.terms = terms[reprice.goods] + 1,
                                     !.at = clock + 1]
      BY <1>12 DEF SendReprice
    <3> QED
      BY <2>1, <3>1, <3>2
  <2> QED
    BY <1>12, <2>2, <2>3 DEF SendReprice, TypeOK
<1>13. CASE RepriceFails
  BY <1>13 DEF RepriceFails, TypeOK
<1>14. CASE UpdateListingDecision
  BY <1>14 DEF UpdateListingDecision, Tick, TypeOK
<1>15. CASE UNCHANGED vars
  BY <1>15 DEF vars, TypeOK
<1> QED
  BY <1>1, <1>2, <1>3, <1>4, <1>5, <1>6, <1>7, <1>8, <1>9, <1>10, <1>11, <1>12, <1>13,
     <1>14, <1>15 DEF Next

\* The initial state satisfies the type invariant.
LEMMA TypeInit == Init => TypeOK
BY ConfigAssumption DEF Init, TypeOK, ShelfStates, RowStates, FeedStates, Recons, Reprices, Idle

\* Every variable of the listings model keeps its type in every behaviour.
THEOREM TypeCorrect == Spec => []TypeOK
BY TypeInit, TypeStep, PTL DEF Spec

-----------------------------------------------------------------------------
(* Preservation of the inductive invariant *)

\* What the rest of the table and the syncers see of a platform change: the
\* changed goods is unsettled and every page of it is older than its change.
LEMMA PlatformStep ==
  ASSUME IInv, NEW g \in Goods, NEW s \in ShelfStates, NEW t \in Nat, PlatformSets(g, s, t),
         UNCHANGED <<rows, observed, syncing>>
  PROVE  OwnWritesStamped' /\ PagesAfterBoundary' /\ Converged'
<1> USE DEF rows, syncing
<1>1. /\ clock' = clock + 1 /\ clock \in Nat /\ clock' \in Nat
      /\ platAt'[g] = clock + 1
      /\ \A h \in Goods : h # g => /\ shelf'[h] = shelf[h] /\ terms'[h] = terms[h]
                                   /\ platAt'[h] = platAt[h]
  BY PlatformType DEF IInv, TypeOK, PlatformSets, Tick
<1>2. \A h \in Goods : /\ Newest(h)' = Newest(h)
                       /\ h # g => Feed(h)' = Feed(h)
  BY <1>1 DEF Newest, Feed
<1>3. OwnWritesStamped'
  BY <1>2 DEF IInv, OwnWritesStamped
<1>4. PagesAfterBoundary'
  <2> SUFFICES ASSUME NEW r \in Syncers, syncPc[r] = "fetching"
               PROVE  /\ syncAt[r] <= clock'
                      /\ \A h \in syncGot[r] :
                           /\ syncReadAt[r][h] >= syncAt[r]
                           /\ syncAt[r] > platAt'[h] =>
                                syncSeen[r][h] = Feed(h)' /\ syncTerms[r][h] = terms'[h]
    BY DEF IInv, PagesAfterBoundary
  <2>1. syncAt[r] \in Nat /\ syncGot[r] \subseteq Goods /\ syncAt[r] <= clock
    BY DEF IInv, TypeOK, PagesAfterBoundary
  <2> QED
    BY <1>1, <1>2, <2>1 DEF IInv, PagesAfterBoundary
<1>5. Converged'
  <2> SUFFICES ASSUME NEW h \in Goods, Settled(h)' PROVE Agrees(h)'
    BY DEF Converged
  <2>1. h # g
    BY <1>1 DEF IInv, StampsPast, TypeOK, Settled
  <2>2. Settled(h)
    BY <1>1, <1>2, <2>1 DEF Settled
  <2> QED
    BY <1>1, <1>2, <2>1, <2>2 DEF IInv, Converged, Agrees
<1> QED
  BY <1>3, <1>4, <1>5

\* Steps that leave the platform, the rows and the boundary alone keep the
\* parts about them, at any later clock.
LEMMA FrameStep ==
  ASSUME IInv, UNCHANGED <<platform, rows, observed>>
  PROVE  OwnWritesStamped' /\ Converged'
<1>1. \A h \in Goods : Newest(h)' = Newest(h) /\ Feed(h)' = Feed(h)
  BY DEF Newest, Feed, rows, platform
<1>2. OwnWritesStamped'
  BY <1>1 DEF IInv, OwnWritesStamped, rows
<1>3. Converged'
  BY <1>1 DEF IInv, Converged, Settled, Agrees, rows, platform
<1> QED
  BY <1>2, <1>3

\* Steps that leave the platform and the syncers alone keep what is known of
\* the pages, whatever they do to the rows.
LEMMA PagesFrame ==
  ASSUME IInv, UNCHANGED <<platform, syncing>>, clock' \in Nat, clock <= clock'
  PROVE  PagesAfterBoundary'
<1>1. \A h \in Goods : Feed(h)' = Feed(h)
  BY DEF Feed, platform
<1> QED
  BY <1>1 DEF IInv, TypeOK, PagesAfterBoundary, platform, syncing

\* The initial state satisfies the invariant.
LEMMA IInvInit == Init => IInv
<1> SUFFICES ASSUME Init PROVE IInv
  OBVIOUS
<1>1. TypeOK
  BY TypeInit
<1>2. StampsPast /\ TargetsExist /\ PagesAfterBoundary
  BY DEF Init, StampsPast, TargetsExist, PagesAfterBoundary, Idle
<1>3. observed = 0 /\ \A g \in Goods : platAt[g] = 0 /\ ownAt[g] = 0
                                       /\ rowSynced[g] = 0 /\ rowRepriced[g] = 0
  BY DEF Init
<1>4. OwnWritesStamped
  <2> SUFFICES ASSUME NEW g \in Goods PROVE ownAt[g] <= Newest(g)
    BY <1>3 DEF OwnWritesStamped
  <2> QED
    BY <1>1, <1>3, NewestIsMax
<1>5. Converged
  BY <1>3 DEF Converged, Settled
<1> QED
  BY <1>1, <1>2, <1>4, <1>5 DEF IInv

\* The table after a snapshot is applied: a row the snapshot may write shows
\* what its page said, every other row is as it was.
LEMMA ApplyRowsEffect ==
  ASSUME IInv, NEW s \in Syncers, ApplyShelfSnapshot(s), ApplyRows(s), NEW g \in Goods
  PROVE  /\ Upserts(s, g) => /\ rowState'[g] \in {"active", "leased"}
                             /\ (rowState'[g] = "leased" <=> syncSeen[s][g] = "leased")
                             /\ rowTerms'[g] = syncTerms[s][g]
         /\ Upserts(s, g) \/ Drops(s, g) => /\ rowSynced'[g] = syncAt[s]
                                            /\ Newest(g)' = syncAt[s]
                                            /\ Newest(g) <= syncAt[s]
         /\ Drops(s, g) => rowState'[g] = "none"
         /\ ~Upserts(s, g) /\ ~Drops(s, g) => /\ rowState'[g] = rowState[g]
                                              /\ rowTerms'[g] = rowTerms[g]
                                              /\ rowSynced'[g] = rowSynced[g]
                                              /\ Newest(g)' = Newest(g)
<1> USE DEF IInv
<1>1. /\ rowSynced[g] \in Nat /\ rowRepriced[g] \in Nat /\ syncAt[s] \in Nat
      /\ rowRepriced'[g] = rowRepriced[g]
  BY DEF TypeOK, ApplyRows
<1>2. /\ rowState'[g] = IF Upserts(s, g) THEN IF syncSeen[s][g] = "leased" THEN "leased" ELSE "active"
                        ELSE IF Drops(s, g) THEN "none" ELSE rowState[g]
      /\ rowTerms'[g] = IF Upserts(s, g) THEN syncTerms[s][g] ELSE rowTerms[g]
      /\ rowSynced'[g] = IF Upserts(s, g) \/ Drops(s, g) THEN syncAt[s] ELSE rowSynced[g]
  BY DEF ApplyRows
<1>3. Upserts(s, g) => ~Drops(s, g)
  BY DEF Upserts, Drops
<1>4. Upserts(s, g) \/ Drops(s, g) => Newest(g) <= syncAt[s]
  <2>1. rowState[g] = "absent" => Newest(g) = 0
    BY DEF OwnWritesStamped, Newest
  <2> QED
    BY <1>1, <2>1 DEF Upserts, Drops, Unstamped
<1>5. Upserts(s, g) \/ Drops(s, g) => Newest(g)' = syncAt[s]
  BY <1>1, <1>2, <1>4 DEF Newest
<1>6. ~Upserts(s, g) /\ ~Drops(s, g) => Newest(g)' = Newest(g)
  BY <1>1, <1>2 DEF Newest
<1> QED
  BY <1>2, <1>3, <1>4, <1>5, <1>6

\* The syncer whose snapshot is applied is no longer fetching, the others
\* have read what they had read.
LEMMA EndSyncPages ==
  ASSUME IInv, NEW s \in Syncers, EndSync(s), UNCHANGED <<clock, platform>>
  PROVE  PagesAfterBoundary'
<1>1. \A h \in Goods : Feed(h)' = Feed(h)
  BY DEF Feed, platform
<1>2. /\ syncPc'[s] = "idle" /\ syncGot'[s] = {}
      /\ \A r \in Syncers : r # s => /\ syncPc'[r] = syncPc[r] /\ syncAt'[r] = syncAt[r]
                                     /\ syncGot'[r] = syncGot[r] /\ syncSeen'[r] = syncSeen[r]
                                     /\ syncTerms'[r] = syncTerms[r]
                                     /\ syncReadAt'[r] = syncReadAt[r]
  BY DEF EndSync, IInv, TypeOK
<1>3. \A r \in Syncers : syncGot[r] \subseteq Goods
  BY DEF IInv, TypeOK
<1> SUFFICES ASSUME NEW r \in Syncers
             PROVE  /\ syncPc'[r] = "idle" => syncGot'[r] = {}
                    /\ syncPc'[r] = "fetching" =>
                         /\ syncAt'[r] <= clock
                         /\ \A h \in syncGot'[r] :
                              /\ syncReadAt'[r][h] >= syncAt'[r]
                              /\ syncAt'[r] > platAt[h] =>
                                   syncSeen'[r][h] = Feed(h) /\ syncTerms'[r][h] = terms[h]
  <2>1. \A q \in Syncers : syncGot'[q] \subseteq Goods
    BY <1>2, <1>3
  <2> QED
    BY <1>1, <2>1 DEF PagesAfterBoundary, platform
<1>4. CASE r = s
  BY <1>2, <1>4
<1>5. CASE r # s
  BY <1>2, <1>5 DEF IInv, PagesAfterBoundary
<1> QED
  BY <1>4, <1>5

\* Applying a snapshot keeps the invariant.
LEMMA ApplyStep ==
  ASSUME IInv, TypeOK', NEW s \in Syncers, ApplyShelfSnapshot(s)
  PROVE  IInv'
<1> USE DEF IInv
<1>1. PagesAfterBoundary'
  BY EndSyncPages DEF ApplyShelfSnapshot
<1>2. CASE UNCHANGED <<rows, observed>>
  <2>1. OwnWritesStamped' /\ Converged'
    BY <1>2, FrameStep DEF ApplyShelfSnapshot
  <2>2. StampsPast' /\ TargetsExist'
    BY <1>2 DEF ApplyShelfSnapshot, StampsPast, TargetsExist, rows, platform
  <2> QED
    BY <1>1, <2>1, <2>2
<1>3. CASE ApplyRows(s)
  <2>1. /\ clock' = clock /\ platAt' = platAt /\ terms' = terms /\ shelf' = shelf
        /\ recon' = recon /\ reprice' = reprice /\ ownAt' = ownAt /\ rowRepriced' = rowRepriced
        /\ observed' = syncAt[s] /\ syncGot[s] = Goods /\ syncPc[s] = "fetching"
    BY <1>3 DEF ApplyShelfSnapshot, ApplyRows, EndSync, platform
  <2>2. /\ syncAt[s] \in Nat /\ syncAt[s] <= clock /\ clock \in Nat
        /\ \A g \in Goods : syncAt[s] > platAt[g] =>
             syncSeen[s][g] = Feed(g) /\ syncTerms[s][g] = terms[g]
    BY <2>1 DEF PagesAfterBoundary, TypeOK
  <2>3. StampsPast'
    <3>1. \A g \in Goods : rowSynced'[g] <= clock
      BY <1>3, <2>2, ApplyRowsEffect DEF StampsPast
    <3> QED
      BY <2>1, <2>2, <3>1 DEF StampsPast
  <2>4. TargetsExist'
    <3>1. \A g \in Goods : rowState[g] # "absent" => rowState'[g] # "absent"
      BY <1>3, ApplyRowsEffect
    <3>2. /\ recon.pc # "idle" => recon.goods \in Goods
          /\ reprice.pc # "idle" => reprice.goods \in Goods
      BY DEF TypeOK
    <3> QED
      BY <2>1, <3>1, <3>2 DEF TargetsExist
  <2>5. OwnWritesStamped'
    <3> SUFFICES ASSUME NEW g \in Goods
                 PROVE  /\ ownAt[g] <= Newest(g)'
                        /\ rowState'[g] = "absent" => rowSynced'[g] = 0 /\ rowRepriced[g] = 0
      BY <2>1 DEF OwnWritesStamped
    <3>1. /\ ownAt[g] \in Nat /\ Newest(g) \in Nat /\ ownAt[g] <= Newest(g)
          /\ rowState[g] = "absent" => rowSynced[g] = 0 /\ rowRepriced[g] = 0
      BY NewestIsMax DEF OwnWritesStamped, TypeOK
    <3> QED
      BY <1>3, <2>2, <3>1, ApplyRowsEffect
  <2>6. Converged'
    <3> SUFFICES ASSUME NEW g \in Goods, syncAt[s] > platAt[g], syncAt[s] >= Newest(g)'
                 PROVE  Agrees(g)'
      BY <2>1 DEF Converged, Settled
    <3>1. Feed(g)' = Feed(g) /\ Feed(g) \in FeedStates
      BY <2>1, FeedType DEF Feed
    <3>2. syncSeen[s][g] = Feed(g) /\ syncTerms[s][g] = terms[g]
      BY <2>2
    <3>3. ~Upserts(s, g) /\ ~Drops(s, g) => Unstamped(g, syncAt[s])
      BY <1>3, <2>2, ApplyRowsEffect, NewestIsMax DEF Unstamped
    <3>4. CASE Feed(g) # "out"
      <4>1. Upserts(s, g)
        BY <3>2, <3>3, <3>4 DEF Upserts, Drops
      <4>2. /\ rowState'[g] \in {"active", "leased"}
            /\ rowState'[g] = "leased" <=> Feed(g) = "leased"
            /\ rowTerms'[g] = terms[g]
        BY <1>3, <3>2, <4>1, ApplyRowsEffect
      <4> QED
        BY <2>1, <3>1, <3>4, <4>2 DEF Agrees, FeedStates
    <3>5. CASE Feed(g) = "out"
      <4>1. ~Upserts(s, g)
        BY <3>2, <3>5 DEF Upserts
      <4>2. rowState'[g] # "active"
        BY <1>3, <3>2, <3>3, <3>5, <4>1, ApplyRowsEffect DEF Drops
      <4> QED
        BY <3>1, <3>5, <4>2 DEF Agrees
    <3> QED
      BY <3>4, <3>5
  <2> QED
    BY <1>1, <2>3, <2>4, <2>5, <2>6
<1> QED
  BY <1>2, <1>3 DEF ApplyShelfSnapshot

\* A write-back stamps its row later than any snapshot boundary taken so far.
LEMMA WriteBackStep ==
  ASSUME IInv, TypeOK', ReconWriteBack \/ UpdateListingDecision
  PROVE  IInv'
<1> USE DEF IInv
<1>1. /\ clock' = clock + 1 /\ clock \in Nat /\ observed' = observed
      /\ observed \in Nat /\ observed <= clock
      /\ UNCHANGED <<platform, syncing>>
  BY DEF ReconWriteBack, UpdateListingDecision, Tick, TypeOK, StampsPast
<1>2. PagesAfterBoundary'
  BY <1>1, PagesFrame
<1>0. PICK g \in Goods : \/ ReconWriteBack /\ g = recon.goods
                         \/ UpdateListingDecision /\ g = reprice.goods
  <2>1. CASE ReconWriteBack
    BY <2>1 DEF ReconWriteBack, TypeOK
  <2>2. CASE UpdateListingDecision
    BY <2>2 DEF UpdateListingDecision, TypeOK
  <2> QED
    BY <2>1, <2>2
<1>3. /\ rowState'[g] # "absent"
      /\ Newest(g)' = clock + 1
      /\ ownAt'[g] <= clock
      /\ rowSynced'[g] <= clock + 1 /\ rowRepriced'[g] <= clock + 1
      /\ \A h \in Goods : h # g => /\ rowState'[h] = rowState[h] /\ rowTerms'[h] = rowTerms[h]
                                   /\ rowSynced'[h] = rowSynced[h] /\ ownAt'[h] = ownAt[h]
                                   /\ rowRepriced'[h] = rowRepriced[h]
  <2>1. /\ rowSynced[g] \in Nat /\ rowSynced[g] <= clock
        /\ rowRepriced[g] \in Nat /\ rowRepriced[g] <= clock
    BY DEF StampsPast, TypeOK
  <2>2. ownAt[g] \in Nat /\ ownAt[g] <= clock
    <3>1. ownAt[g] \in Nat /\ ownAt[g] <= Newest(g)
      BY DEF OwnWritesStamped, TypeOK
    <3>2. Newest(g) \in Nat /\ (Newest(g) = rowSynced[g] \/ Newest(g) = rowRepriced[g])
      BY NewestIsMax
    <3> QED
      BY <1>1, <2>1, <3>1, <3>2
  <2>3. CASE ReconWriteBack /\ g = recon.goods
    <3>1. recon.at \in Nat /\ recon.at <= clock
      BY DEF TypeOK, Recons, StampsPast
    <3>2. ownAt' = [ownAt EXCEPT ![g] = IF @ < recon.at THEN recon.at ELSE @]
      BY <2>3 DEF ReconWriteBack
    <3>3. ownAt'[g] <= clock /\ \A h \in Goods : h # g => ownAt'[h] = ownAt[h]
      BY <2>2, <3>1, <3>2 DEF TypeOK
    <3>4. CASE RecordPublishedListing(g)
      <4>1. /\ rowState'[g] = "active" /\ rowSynced'[g] = clock + 1
            /\ rowRepriced' = rowRepriced
            /\ \A h \in Goods : h # g => /\ rowState'[h] = rowState[h] /\ rowTerms'[h] = rowTerms[h]
                                         /\ rowSynced'[h] = rowSynced[h]
        BY <3>4 DEF RecordPublishedListing, TypeOK
      <4>2. Newest(g)' = clock + 1
        BY <1>1, <2>1, <4>1 DEF Newest
      <4> QED
        BY <1>1, <2>1, <3>3, <4>1, <4>2
    <3>5. CASE recon.pc = "delisted" /\ MarkListingDelisted(g)
      <4>1. rowState[g] # "absent"
        BY <2>3, <3>5 DEF TargetsExist
      <4>2. /\ rowState'[g] = "none" /\ rowSynced'[g] = clock + 1
            /\ rowRepriced' = rowRepriced /\ rowTerms' = rowTerms
            /\ \A h \in Goods : h # g => rowState'[h] = rowState[h] /\ rowSynced'[h] = rowSynced[h]
        BY <3>5, <4>1 DEF MarkListingDelisted, TypeOK
      <4>3. Newest(g)' = clock + 1
        BY <1>1, <2>1, <4>2 DEF Newest
      <4> QED
        BY <1>1, <2>1, <3>3, <4>2, <4>3
    <3> QED
      BY <2>3, <3>4, <3>5 DEF ReconWriteBack
  <2>4. CASE UpdateListingDecision /\ g = reprice.goods
    <3>1. reprice.at \in Nat /\ reprice.at <= clock /\ rowState[g] # "absent"
      BY <2>4 DEF UpdateListingDecision, TypeOK, Reprices, StampsPast, TargetsExist
    <3>2. ownAt' = [ownAt EXCEPT ![g] = IF @ < reprice.at THEN reprice.at ELSE @]
      BY <2>4 DEF UpdateListingDecision
    <3>3. ownAt'[g] <= clock /\ \A h \in Goods : h # g => ownAt'[h] = ownAt[h]
      BY <2>2, <3>1, <3>2 DEF TypeOK
    <3>4. /\ rowRepriced'[g] = clock + 1 /\ rowSynced' = rowSynced /\ rowState' = rowState
          /\ \A h \in Goods : h # g => rowRepriced'[h] = rowRepriced[h] /\ rowTerms'[h] = rowTerms[h]
      BY <2>4 DEF UpdateListingDecision, TypeOK
    <3>5. Newest(g)' = clock + 1
      BY <1>1, <2>1, <3>4 DEF Newest
    <3> QED
      BY <1>1, <2>1, <3>1, <3>3, <3>4, <3>5
  <2> QED
    BY <1>0, <2>3, <2>4
<1>4. \A h \in Goods : /\ Feed(h)' = Feed(h)
                       /\ h # g => Newest(h)' = Newest(h)
  BY <1>1, <1>3 DEF Newest, Feed, platform
<1>5. StampsPast'
  <2>1. \A h \in Goods : platAt'[h] <= clock + 1 /\ rowSynced'[h] <= clock + 1
                         /\ rowRepriced'[h] <= clock + 1
    <3> SUFFICES ASSUME NEW h \in Goods
                 PROVE  platAt'[h] <= clock + 1 /\ rowSynced'[h] <= clock + 1
                        /\ rowRepriced'[h] <= clock + 1
      OBVIOUS
    <3>1. /\ platAt'[h] = platAt[h] /\ platAt[h] \in Nat /\ platAt[h] <= clock
          /\ rowSynced[h] \in Nat /\ rowSynced[h] <= clock
          /\ rowRepriced[h] \in Nat /\ rowRepriced[h] <= clock
      BY <1>1 DEF StampsPast, TypeOK, platform
    <3> QED
      BY <1>1, <1>3, <3>1
  <2>2. recon'.at <= clock + 1 /\ reprice'.at <= clock + 1
    <3>1. /\ recon' = recon \/ recon' = Idle
          /\ reprice' = reprice \/ reprice' = Idle
      BY DEF ReconWriteBack, UpdateListingDecision
    <3>2. recon.at \in Nat /\ recon.at <= clock /\ reprice.at \in Nat /\ reprice.at <= clock
      BY DEF StampsPast, TypeOK, Recons, Reprices
    <3> QED
      BY <1>1, <3>1, <3>2 DEF Idle
  <2> QED
    BY <1>1, <2>1, <2>2 DEF StampsPast
<1>6. TargetsExist'
  <2>1. \A h \in Goods : rowState[h] # "absent" => rowState'[h] # "absent"
    BY <1>3
  <2>2. /\ recon' = recon \/ recon' = Idle
        /\ reprice' = reprice \/ reprice' = Idle
    BY DEF ReconWriteBack, UpdateListingDecision
  <2>3. /\ recon.pc # "idle" => recon.goods \in Goods
        /\ reprice.pc # "idle" => reprice.goods \in Goods
    BY DEF TypeOK
  <2> QED
    BY <2>1, <2>2, <2>3 DEF TargetsExist, Idle
<1>7. OwnWritesStamped'
  <2> SUFFICES ASSUME NEW h \in Goods
               PROVE  /\ ownAt'[h] <= Newest(h)'
                      /\ rowState'[h] = "absent" => rowSynced'[h] = 0 /\ rowRepriced'[h] = 0
    BY DEF OwnWritesStamped
  <2>1. CASE h = g
    <3>1. ownAt'[h] \in Nat
      BY DEF TypeOK
    <3> QED
      BY <1>1, <1>3, <2>1, <3>1
  <2>2. CASE h # g
    BY <1>3, <1>4, <2>2 DEF OwnWritesStamped
  <2> QED
    BY <2>1, <2>2
<1>8. Converged'
  <2> SUFFICES ASSUME NEW h \in Goods, Settled(h)' PROVE Agrees(h)'
    BY DEF Converged
  <2>1. h # g
    BY <1>1, <1>3 DEF Settled, TypeOK
  <2>2. Settled(h) /\ terms' = terms
    BY <1>1, <1>4, <2>1 DEF Settled, platform
  <2> QED
    BY <1>3, <1>4, <2>1, <2>2 DEF Converged, Agrees
<1> QED
  BY <1>2, <1>5, <1>6, <1>7, <1>8

\* A call that reaches the platform changes the goods and the job's own
\* record of the call.
LEMMA CallStep ==
  ASSUME IInv, TypeOK', NEW g \in Goods, NEW st \in ShelfStates, NEW t \in Nat,
         PlatformSets(g, st, t), UNCHANGED <<rows, observed, syncing>>,
         recon' = recon \/ (recon'.at = clock + 1 /\ recon'.goods = g
                            /\ (recon'.pc = "published" \/ rowState[g] # "absent")),
         reprice' = reprice \/ (reprice'.at = clock + 1 /\ reprice'.goods = g
                                /\ rowState[g] # "absent")
  PROVE  IInv'
<1> USE DEF IInv
<1>1. OwnWritesStamped' /\ PagesAfterBoundary' /\ Converged'
  BY PlatformStep
<1>2. TargetsExist'
  BY DEF TargetsExist, rows
<1>3. StampsPast'
  <2>1. clock' = clock + 1 /\ clock \in Nat
    BY PlatformType DEF TypeOK
  <2>2. \A h \in Goods : platAt'[h] <= clock + 1
    BY <2>1 DEF PlatformSets, StampsPast, TypeOK
  <2>3. \A h \in Goods : rowSynced[h] <= clock + 1 /\ rowRepriced[h] <= clock + 1
    BY <2>1 DEF StampsPast, TypeOK
  <2>4. /\ observed <= clock + 1 /\ recon'.at <= clock + 1 /\ reprice'.at <= clock + 1
    BY <2>1 DEF StampsPast, TypeOK, Recons, Reprices
  <2> QED
    BY <2>1, <2>2, <2>3, <2>4 DEF StampsPast, rows
<1> QED
  BY <1>1, <1>2, <1>3

\* Every step keeps the invariant.
LEMMA IInvStep == IInv /\ [Next]_vars => IInv'
<1> SUFFICES ASSUME IInv, [Next]_vars PROVE IInv'
  OBVIOUS
<1> USE DEF IInv
<1>0. TypeOK'
  BY TypeStep
<1>1. ASSUME NEW s \in Syncers, BeginSync(s) PROVE IInv'
  <2>1. /\ clock' = clock + 1 /\ clock \in Nat
        /\ UNCHANGED <<platform, rows, observed, recon, reprice>>
    BY <1>1 DEF BeginSync, Tick, TypeOK
  <2>2. OwnWritesStamped' /\ Converged'
    BY <2>1, FrameStep
  <2>3. StampsPast'
    <3>1. \A g \in Goods : platAt[g] <= clock + 1 /\ rowSynced[g] <= clock + 1
                           /\ rowRepriced[g] <= clock + 1
      BY <2>1 DEF StampsPast, TypeOK
    <3>2. observed <= clock + 1 /\ recon.at <= clock + 1 /\ reprice.at <= clock + 1
      BY <2>1 DEF StampsPast, TypeOK, Recons, Reprices
    <3> QED
      BY <2>1, <3>1, <3>2 DEF StampsPast, rows, platform
  <2>4. TargetsExist'
    BY <2>1 DEF TargetsExist, rows
  <2>5. PagesAfterBoundary'
    <3>1. \A h \in Goods : Feed(h)' = Feed(h)
      BY <2>1 DEF Feed, platform
    <3>2. /\ syncAt'[s] = clock + 1 /\ syncGot[s] = {}
          /\ \A r \in Syncers : r # s => syncPc'[r] = syncPc[r] /\ syncAt'[r] = syncAt[r]
          /\ UNCHANGED <<syncGot, syncSeen, syncTerms, syncReadAt>>
      BY <1>1 DEF BeginSync, TypeOK, PagesAfterBoundary
    <3>3. \A r \in Syncers : syncGot[r] \subseteq Goods /\ syncAt[r] \in Nat
      BY DEF TypeOK
    <3> SUFFICES ASSUME NEW r \in Syncers, syncPc'[r] = "fetching"
                 PROVE  /\ syncAt'[r] <= clock'
                        /\ \A g \in syncGot'[r] :
                             /\ syncReadAt'[r][g] >= syncAt'[r]
                             /\ syncAt'[r] > platAt'[g] =>
                                  syncSeen'[r][g] = Feed(g)' /\ syncTerms'[r][g] = terms'[g]
      <4>1. \A r \in Syncers : syncPc'[r] = "idle" => syncGot'[r] = {}
        BY <1>1, <3>2 DEF BeginSync, PagesAfterBoundary
      <4> QED
        BY <4>1 DEF PagesAfterBoundary
    <3>4. CASE r = s
      BY <2>1, <3>2, <3>4
    <3>5. CASE r # s
      BY <2>1, <3>1, <3>2, <3>3, <3>5 DEF PagesAfterBoundary, platform
    <3> QED
      BY <3>4, <3>5
  <2> QED
    BY <1>0, <2>2, <2>3, <2>4, <2>5
<1>2. ASSUME NEW s \in Syncers, SyncFails(s) PROVE IInv'
  <2>1. UNCHANGED <<clock, platform, rows, observed, recon, reprice>> /\ EndSync(s)
    BY <1>2 DEF SyncFails
  <2>2. OwnWritesStamped' /\ Converged' /\ PagesAfterBoundary'
    BY <2>1, FrameStep, EndSyncPages
  <2>3. StampsPast' /\ TargetsExist'
    BY <2>1 DEF StampsPast, TargetsExist, rows, platform
  <2> QED
    BY <1>0, <2>2, <2>3
<1>3. ASSUME NEW s \in Syncers, ApplyShelfSnapshot(s) PROVE IInv'
  BY <1>0, <1>3, ApplyStep
<1>4. ASSUME NEW s \in Syncers, NEW g \in Goods, FetchPage(s, g) PROVE IInv'
  <2>1. UNCHANGED <<clock, platform, rows, observed, recon, reprice>>
    BY <1>4 DEF FetchPage
  <2>2. OwnWritesStamped' /\ Converged'
    BY <2>1, FrameStep
  <2>3. StampsPast' /\ TargetsExist'
    BY <2>1 DEF StampsPast, TargetsExist, rows, platform
  <2>4. PagesAfterBoundary'
    <3>1. \A h \in Goods : Feed(h)' = Feed(h)
      BY <2>1 DEF Feed, platform
    <3>2. /\ syncPc' = syncPc /\ syncAt' = syncAt
          /\ syncGot'[s] = syncGot[s] \cup {g}
          /\ syncSeen'[s][g] = Feed(g) /\ syncTerms'[s][g] = terms[g]
          /\ syncReadAt'[s][g] = clock
          /\ \A h \in Goods : h # g => /\ syncSeen'[s][h] = syncSeen[s][h]
                                       /\ syncTerms'[s][h] = syncTerms[s][h]
                                       /\ syncReadAt'[s][h] = syncReadAt[s][h]
          /\ \A r \in Syncers : r # s => /\ syncGot'[r] = syncGot[r] /\ syncSeen'[r] = syncSeen[r]
                                         /\ syncTerms'[r] = syncTerms[r]
                                         /\ syncReadAt'[r] = syncReadAt[r]
      BY <1>4 DEF FetchPage, TypeOK
    <3>3. \A r \in Syncers : syncGot[r] \subseteq Goods /\ syncAt[r] \in Nat
      BY DEF TypeOK
    <3> SUFFICES ASSUME NEW r \in Syncers, syncPc[r] = "fetching", NEW h \in syncGot'[r]
                 PROVE  /\ syncReadAt'[r][h] >= syncAt[r]
                        /\ syncAt[r] > platAt[h] =>
                             syncSeen'[r][h] = Feed(h) /\ syncTerms'[r][h] = terms[h]
      <4>1. \A r \in Syncers : /\ syncPc[r] = "idle" => syncGot'[r] = {}
                               /\ syncGot'[r] \subseteq Goods
        BY <1>4, <3>2, <3>3 DEF FetchPage, PagesAfterBoundary
      <4> QED
        BY <2>1, <3>1, <3>2, <4>1 DEF PagesAfterBoundary, platform
    <3>4. CASE r = s /\ h = g
      BY <3>2, <3>3, <3>4 DEF PagesAfterBoundary, TypeOK
    <3>5. CASE r = s /\ h # g
      BY <3>2, <3>3, <3>5 DEF PagesAfterBoundary
    <3>6. CASE r # s
      BY <3>2, <3>3, <3>6 DEF PagesAfterBoundary
    <3> QED
      BY <3>4, <3>5, <3>6
  <2> QED
    BY <1>0, <2>2, <2>3, <2>4
<1>5. ASSUME NEW g \in Goods, Environment(g) PROVE IInv'
  <2>1. PICK st \in ShelfStates : PlatformSets(g, st, terms[g])
    BY <1>5 DEF Environment, ShelfStates
  <2>2. terms[g] \in Nat
    BY DEF TypeOK
  <2> QED
    BY <1>0, <1>5, <2>1, <2>2, CallStep DEF Environment
<1>6. ASSUME NEW g \in Goods, SendPublish(g) PROVE IInv'
  <2>1. terms[g] + 1 \in Nat /\ "listed" \in ShelfStates
    BY DEF TypeOK, ShelfStates
  <2>2. recon'.at = clock + 1 /\ recon'.goods = g /\ recon'.pc = "published"
    BY <1>6 DEF SendPublish
  <2> QED
    BY <1>0, <1>6, <2>1, <2>2, CallStep DEF SendPublish
<1>7. CASE SendDelist
  <2>1. /\ recon.goods \in Goods /\ terms[recon.goods] \in Nat /\ "off" \in ShelfStates
        /\ rowState[recon.goods] # "absent"
    BY <1>7 DEF SendDelist, TypeOK, ShelfStates, TargetsExist
  <2>2. recon'.at = clock + 1 /\ recon'.goods = recon.goods
    BY <1>7 DEF SendDelist, TypeOK, Recons
  <2> QED
    BY <1>0, <1>7, <2>1, <2>2, CallStep DEF SendDelist
<1>8. CASE SendReprice
  <2>1. /\ reprice.goods \in Goods /\ terms[reprice.goods] + 1 \in Nat /\ "listed" \in ShelfStates
        /\ rowState[reprice.goods] # "absent"
    BY <1>8 DEF SendReprice, TypeOK, ShelfStates, TargetsExist
  <2>2. reprice'.at = clock + 1 /\ reprice'.goods = reprice.goods
    BY <1>8 DEF SendReprice, TypeOK, Reprices
  <2> QED
    BY <1>0, <1>8, <2>1, <2>2, CallStep DEF SendReprice
<1>9. CASE ReconWriteBack \/ UpdateListingDecision
  BY <1>0, <1>9, WriteBackStep
<1>10. ASSUME UNCHANGED <<clock, platform, rows, observed, syncing>>,
              recon'.at <= clock, reprice'.at <= clock, TargetsExist'
       PROVE  IInv'
  <2>1. OwnWritesStamped' /\ Converged'
    BY <1>10, FrameStep
  <2>2. PagesAfterBoundary'
    BY <1>10, PagesFrame DEF TypeOK
  <2>3. StampsPast'
    BY <1>10 DEF StampsPast, rows, platform
  <2> QED
    BY <1>0, <1>10, <2>1, <2>2, <2>3
<1>11. ASSUME NEW g \in Goods, PlanDelist(g) \/ PickCandidate(g) PROVE IInv'
  <2>1. recon'.at <= clock /\ reprice'.at <= clock
    BY <1>11 DEF PlanDelist, PickCandidate, StampsPast, TypeOK, Recons, Reprices
  <2>2. TargetsExist'
    BY <1>11 DEF PlanDelist, PickCandidate, TargetsExist, TypeOK, Recons, Reprices, rows
  <2> QED
    BY <1>10, <1>11, <2>1, <2>2 DEF PlanDelist, PickCandidate
<1>12. CASE ReconFails \/ RepriceFails
  <2>1. recon'.at <= clock /\ reprice'.at <= clock
    BY <1>12 DEF ReconFails, RepriceFails, StampsPast, TypeOK, Idle
  <2>2. TargetsExist'
    BY <1>12 DEF ReconFails, RepriceFails, TargetsExist, Idle, rows
  <2> QED
    BY <1>10, <1>12, <2>1, <2>2 DEF ReconFails, RepriceFails
<1>13. CASE UNCHANGED vars
  BY <1>10, <1>13 DEF vars, StampsPast, TargetsExist, rows
<1> QED
  BY <1>1, <1>2, <1>3, <1>4, <1>5, <1>6, <1>7, <1>8, <1>9, <1>11, <1>12, <1>13 DEF Next

\* The inductive invariant holds throughout.
THEOREM IInvAlways == Spec => []IInv
BY IInvInit, IInvStep, PTL DEF Spec

\* AC-T3 "a later snapshot converges" for every instance of the model: a row
\* that a snapshot begun after the goods' last change has settled shows what
\* the shelf shows.
THEOREM SnapshotConverges == Spec => []Converged
<1>1. IInv => Converged
  BY DEF IInv
<1> QED
  BY <1>1, IInvAlways, PTL

\* AC-T3 "an old snapshot overwrites nothing newer" for every instance: a
\* snapshot changes a row only if it read the goods after every own publish,
\* delist or reprice recorded in that row, and never moves its stamp back.
THEOREM OldSnapshotOverwritesNothing == Spec => SnapshotKeepsOwnWrites
<1> DEFINE Keeps == \A s \in Syncers, g \in Goods :
                      Applies(s) /\ RowChanges(g) =>
                        /\ syncReadAt[s][g] >= ownAt[g]
                        /\ rowSynced'[g] >= Newest(g)
<1>1. IInv /\ [Next]_vars => [Keeps]_vars
  <2> SUFFICES ASSUME IInv, Next, NEW s \in Syncers, NEW g \in Goods, Applies(s), RowChanges(g)
               PROVE  syncReadAt[s][g] >= ownAt[g] /\ rowSynced'[g] >= Newest(g)
    OBVIOUS
  <2> USE DEF IInv
  <2>1. ApplyShelfSnapshot(s) /\ ApplyRows(s)
    <3>1. rowState' # rowState \/ rowTerms' # rowTerms \/ rowSynced' # rowSynced
      BY DEF RowChanges
    <3>2. syncPc'[s] # syncPc[s]
      BY DEF Applies
    <3>3. PICK r \in Syncers : ApplyShelfSnapshot(r)
      BY <3>1, <3>2 DEF Next, BeginSync, SyncFails, FetchPage, Environment, SendPublish, PlanDelist,
           PickCandidate, SendDelist, ReconFails, ReconWriteBack, SendReprice, RepriceFails,
           UpdateListingDecision, rows, syncing
    <3>4. r = s
      BY <3>2, <3>3 DEF ApplyShelfSnapshot, EndSync, TypeOK
    <3> QED
      BY <3>1, <3>3, <3>4 DEF ApplyShelfSnapshot, rows
  <2>2. Upserts(s, g) \/ Drops(s, g)
    BY <2>1, ApplyRowsEffect DEF RowChanges
  <2>3. rowSynced'[g] = syncAt[s] /\ Newest(g) <= syncAt[s]
    BY <2>1, <2>2, ApplyRowsEffect
  <2>4. syncReadAt[s][g] >= syncAt[s] /\ ownAt[g] <= Newest(g)
    BY DEF Applies, PagesAfterBoundary, OwnWritesStamped
  <2>5. /\ syncReadAt[s][g] \in Nat /\ syncAt[s] \in Nat /\ ownAt[g] \in Nat /\ Newest(g) \in Nat
    BY NewestIsMax DEF TypeOK
  <2> QED
    BY <2>3, <2>4, <2>5
<1> QED
  BY <1>1, IInvAlways, PTL DEF Spec, SnapshotKeepsOwnWrites
=============================================================================
