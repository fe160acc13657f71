----------------------------- MODULE OrderWindow -----------------------------
(***************************************************************************)
(* orders_sync: how far back the job asks the platform for orders, how the *)
(* ECO client cuts that window into the segments the platform accepts, and *)
(* what becomes of a lease that outlives the default lookback.             *)
(*                                                                         *)
(* Time is counted in steps that are much longer than a sync cycle, so any *)
(* number of cycles fits between two of them.                              *)
(***************************************************************************)
EXTENDS Integers, FiniteSets, FiniteSetsExt

CONSTANTS
  Leases,         \* orders of the platform
  SyncFloor, SyncMargin, SyncMaxWindow, \* orderSyncFloor, orderSyncMargin, orderSyncMaxWindow
  AdapterSlack,   \* what Adapter.LeaseOrders goes back further
  Chunk,          \* segment length of SellerRentOrderList
  PlatformMax,    \* longest window the platform answers
  NoTime,         \* no timestamp
  MaxNow          \* bound on time

ASSUME WindowAssumption ==
  /\ SyncFloor \in Nat \ {0} /\ SyncMargin \in Nat /\ SyncMaxWindow \in Nat
  /\ AdapterSlack \in Nat /\ Chunk \in Nat /\ PlatformMax \in Nat /\ Chunk <= PlatformMax
  /\ MaxNow \in Nat /\ NoTime \notin Int

VARIABLES
  clock,
  lease,       \* on the platform: none, open, ended
  startedAt,   \* when it began
  orderRow,    \* lease_orders: none, open, ended
  leasedRow,   \* the listings row is mirrored as leased (listed_at = startedAt)
  since        \* the window of the sync in progress, or NoTime

windowVars == <<clock, lease, startedAt, orderRow, leasedRow, since>>

LeaseStates == {"none", "open", "ended"}

WindowTypeOK ==
  /\ clock \in 0 .. MaxNow
  /\ lease \in [Leases -> LeaseStates] /\ orderRow \in [Leases -> LeaseStates]
  /\ startedAt \in [Leases -> 0 .. MaxNow \cup {NoTime}]
  /\ leasedRow \in [Leases -> BOOLEAN]
  /\ since \in (-(MaxNow + SyncMaxWindow) .. MaxNow) \cup {NoTime}

\* A first deployment: leases may be running already, none is known.
WindowInit ==
  /\ clock = 0 /\ since = NoTime
  /\ lease \in [Leases -> {"none", "open"}]
  /\ startedAt = [o \in Leases |-> IF lease[o] = "open" THEN 0 ELSE NoTime]
  /\ orderRow = [o \in Leases |-> "none"] /\ leasedRow = [o \in Leases |-> FALSE]

-----------------------------------------------------------------------------
(* The window *)

\* Fault: the fixed lookback the job started with.
FixedLookback(openStart, leasedStart) == clock - SyncFloor

\* Fault: the next segment starts where a segment of the platform's full length
\* would have ended.
GappedSegments(from, to) ==
  {<<c, Min({to, c + Chunk})>> : c \in {from + k * (PlatformMax + 1) : k \in 0 .. (to - from) \div (PlatformMax + 1)}}

\* orderSyncWindow
OrderSyncWindow(openStart, leasedStart) ==
  LET anchors == {t - SyncMargin : t \in {openStart, leasedStart} \ {NoTime}}
      lowest  == Min(anchors \cup {clock - SyncFloor})
  IN  Max({lowest, clock - SyncMaxWindow})

Earliest(S) == IF S = {} THEN NoTime ELSE Min({startedAt[o] : o \in S})

EarliestOpenOrderStart     == Earliest({o \in Leases : orderRow[o] = "open"})
EarliestLeasedListingStart == Earliest({o \in Leases : leasedRow[o]})

\* orderSyncSince: a failed lookup counts as no anchor.
OrderSyncSince ==
  /\ since = NoTime
  /\ \E a \in {EarliestOpenOrderStart, NoTime}, b \in {EarliestLeasedListingStart, NoTime} :
       since' = OrderSyncWindow(a, b)
  /\ UNCHANGED <<clock, lease, startedAt, orderRow, leasedRow>>

\* SellerRentOrderList's segments; the next one starts a tick after the last.
Segments(from, to) ==
  {<<c, Min({to, c + Chunk})>> : c \in {from + k * (Chunk + 1) : k \in 0 .. (to - from) \div (Chunk + 1)}}

\* The orders the platform lists for the segments.
InWindow ==
  {o \in Leases : /\ lease[o] # "none"
                  /\ \E s \in Segments(since - AdapterSlack, clock) :
                       s[1] <= startedAt[o] /\ startedAt[o] <= s[2]}

Upserted(S) == [o \in Leases |-> IF o \in S THEN lease[o] ELSE orderRow[o]]

\* SyncOrders: the upserts stop at the first error; a failed listing leaves all.
SyncOrders ==
  /\ since # NoTime /\ since' = NoTime
  /\ \A s \in Segments(since - AdapterSlack, clock) : s[2] - s[1] <= PlatformMax
  /\ orderRow' = Upserted(InWindow)
  /\ UNCHANGED <<clock, lease, startedAt, leasedRow>>

SyncOrdersFails ==
  /\ since # NoTime /\ since' = NoTime
  /\ \E S \in SUBSET InWindow : orderRow' = Upserted(S)
  /\ UNCHANGED <<clock, lease, startedAt, leasedRow>>

-----------------------------------------------------------------------------
(* The platform, the shelf mirror and time *)

LeaseBegins(o) ==
  /\ lease[o] = "none" /\ lease' = [lease EXCEPT ![o] = "open"]
  /\ startedAt' = [startedAt EXCEPT ![o] = clock]
  /\ UNCHANGED <<clock, orderRow, leasedRow, since>>

LeaseEnds(o) ==
  /\ lease[o] = "open" /\ lease' = [lease EXCEPT ![o] = "ended"]
  /\ UNCHANGED <<clock, startedAt, orderRow, leasedRow, since>>

ShelfSync ==
  /\ leasedRow' = [o \in Leases |-> lease[o] = "open"]
  /\ UNCHANGED <<clock, lease, startedAt, orderRow, since>>

ClockTick ==
  /\ clock < MaxNow /\ clock' = clock + 1
  /\ UNCHANGED <<lease, startedAt, orderRow, leasedRow, since>>

WindowNext ==
  \/ OrderSyncSince \/ SyncOrders \/ SyncOrdersFails
  \/ \E o \in Leases : LeaseBegins(o) \/ LeaseEnds(o)
  \/ ShelfSync \/ ClockTick

WindowSpec == WindowInit /\ [][WindowNext]_windowVars

\* A cycle in which the anchors are read and the listing succeeds (strongly
\* fair: the database and the platform work together now and then).
AnchoredWindow == OrderSyncWindow(EarliestOpenOrderStart, EarliestLeasedListingStart)
AnchoredSince  == OrderSyncSince /\ since' = AnchoredWindow
SyncEnds       == SyncOrders \/ SyncOrdersFails
AnchoredSync   == SyncOrders /\ since <= AnchoredWindow

WindowFairness ==
  SF_windowVars(AnchoredSince) /\ SF_windowVars(AnchoredSync) /\ WF_windowVars(SyncEnds)

-----------------------------------------------------------------------------
(* Properties *)

TooOld(o) == startedAt[o] # NoTime /\ clock - startedAt[o] > SyncMaxWindow

\* orderSyncWindow and the segments of SellerRentOrderList: a sync that was asked
\* for with both anchors, and whose listing succeeds, brings every order that is
\* known to be open and every lease the shelf shows up to date, however the time
\* since its start compares with the default lookback and wherever it falls
\* between two segments; up to the hard cap.
AnchoredSyncCatchesUp ==
  [][AnchoredSync => \A o \in Leases :
       (orderRow[o] = "open" \/ leasedRow[o]) /\ ~TooOld(o) => orderRow'[o] = lease[o]]_windowVars

\* EarliestOpenOrderStart: "a long-running lease can never slide out of the
\* upstream query window before it reaches a terminal state", and the leased
\* listing "covers pre-existing leases before any lease_orders row has been
\* synced".  The end of an order known to be open is seen, however long it ran,
\* and a lease the shelf shows becomes known; up to the hard cap.
LongLeaseIsSeen ==
  WindowFairness =>
    []<>(\A o \in Leases : \/ TooOld(o)
                            \/ /\ ~(orderRow[o] = "open" /\ lease[o] = "ended")
                               /\ ~(leasedRow[o] /\ orderRow[o] = "none"))
=============================================================================
