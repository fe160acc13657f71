------------------------------- MODULE Ledger -------------------------------
(***************************************************************************)
(* The income rollup: analytics.RollupTerminalOrders over lease_orders,    *)
(* order_income_ledger and daily_stats, while order sync corrects orders   *)
(* and template sync moves categories.                                     *)
(*                                                                         *)
(* A rollup reads its batch without a lock; RecordIncomeBatch then takes   *)
(* the income_projection advisory lock and, order by order, the row lock,  *)
(* reads again, and commits once.  `staged` is what its transaction has    *)
(* written and not committed.                                              *)
(***************************************************************************)
EXTENDS Naturals, FiniteSets, FiniteSetsExt

CONSTANTS
  OrderIds,              \* lease_orders ids, naturals
  Days, Categories, Amounts,
  NotBooked,
  Rollups,               \* rollups that may run at once (two instances overlap)
  NoRollup,
  IncomeBatch,           \* orders of one rollup (200 in the code)
  MaxCorrections         \* bound on changes of orders and categories

ASSUME LedgerAssumption ==
  /\ OrderIds \subseteq Nat /\ IsFiniteSet(OrderIds) /\ Amounts \subseteq Nat
  /\ \A d \in Days, c \in Categories, a \in Amounts : NotBooked # [day |-> d, cat |-> c, amount |-> a]
  /\ NoRollup \notin Rollups /\ IncomeBatch \in Nat \ {0} /\ MaxCorrections \in Nat

VARIABLES
  leaseRow,    \* lease_orders: status, day of finished_at, order_amount
  tplCat,      \* templates.category of an order's template
  ledgerRow,   \* order_income_ledger
  dailyStats,  \* daily_stats
  recFlag,     \* lease_orders.income_recorded
  rollPc,      \* idle, picked, open (transaction begun)
  picked,      \* the batch still to project
  staged,      \* rows the open transaction has written
  incomeLock,  \* who holds the advisory lock
  corrections

ledgerVars == <<leaseRow, tplCat, ledgerRow, dailyStats, recFlag, rollPc, picked, staged,
                incomeLock, corrections>>

Book == INSTANCE IncomeBook WITH orders <- leaseRow, booked <- ledgerRow, totals <- dailyStats

NothingStaged == [rows |-> <<>>, stats |-> <<>>]   \* the empty functions

LedgerTypeOK ==
  /\ leaseRow \in [OrderIds -> Book!OrderRows] /\ tplCat \in [OrderIds -> Categories]
  /\ ledgerRow \in [OrderIds -> Book!Entries \cup {NotBooked}]
  /\ DOMAIN dailyStats = Book!Buckets
  /\ \A b \in Book!Buckets : dailyStats[b].income \in Nat /\ dailyStats[b].count \in Nat
  /\ recFlag \in [OrderIds -> BOOLEAN]
  /\ rollPc \in [Rollups -> {"idle", "picked", "open"}] /\ picked \in [Rollups -> SUBSET OrderIds]
  /\ incomeLock \in Rollups \cup {NoRollup} /\ corrections \in 0 .. MaxCorrections

\* Orders were synced; none is booked yet.
LedgerInit ==
  /\ leaseRow \in [OrderIds -> {[status |-> s, day |-> d, amount |-> a] :
                                 s \in {"open", "done"}, d \in Days, a \in Amounts}]
  /\ tplCat \in [OrderIds -> Categories]
  /\ ledgerRow = [i \in OrderIds |-> NotBooked]
  /\ dailyStats = [b \in Book!Buckets |-> [income |-> 0, count |-> 0]]
  /\ recFlag = [i \in OrderIds |-> FALSE]
  /\ rollPc = [r \in Rollups |-> "idle"] /\ picked = [r \in Rollups |-> {}]
  /\ staged = NothingStaged /\ incomeLock = NoRollup /\ corrections = 0

-----------------------------------------------------------------------------
(* Order and template sync *)

\* Fault: the row is read without FOR UPDATE, and a sync can change it.
NotLockedAtAll(i) == TRUE

\* The row is not locked by an open transaction.
RowFree(i) == i \notin DOMAIN staged.rows

\* UpsertLeaseOrder: finished_at is kept from the first terminal sighting, and
\* cleared when the order is open again.
UpsertLeaseOrder(i, s, d, a) ==
  /\ RowFree(i) /\ corrections < MaxCorrections /\ corrections' = corrections + 1
  /\ leaseRow[i].status \in {"void", "done"} => d = leaseRow[i].day
  /\ leaseRow' = [leaseRow EXCEPT ![i] = [status |-> s, day |-> d, amount |-> a]]
  /\ UNCHANGED <<tplCat, ledgerRow, dailyStats, recFlag, rollPc, picked, staged, incomeLock>>

Recategorise(i, c) ==
  /\ corrections < MaxCorrections /\ corrections' = corrections + 1
  /\ c # tplCat[i] /\ tplCat' = [tplCat EXCEPT ![i] = c]
  /\ UNCHANGED <<leaseRow, ledgerRow, dailyStats, recFlag, rollPc, picked, staged, incomeLock>>

-----------------------------------------------------------------------------
(* The rollup *)

Eligible(i) == leaseRow[i].status = "done"
NextEntry(i) == Book!EntryOf(i, tplCat[i])

\* Fault: only orders never recorded are looked for.
NeverRecorded == {i \in OrderIds : Eligible(i) /\ ~recFlag[i]}

\* UnrecordedTerminalOrders' condition: corrections and reversals included.
Unrecorded ==
  {i \in OrderIds : \/ Eligible(i) /\ (~recFlag[i] \/ ledgerRow[i] # NextEntry(i))
                    \/ ~Eligible(i) /\ (ledgerRow[i] # NotBooked \/ recFlag[i])}

FirstOf(S, n) == {i \in S : Cardinality({j \in S : j < i}) < n}

\* An empty batch ends the rollup.
PickBatch(r) ==
  /\ rollPc[r] = "idle"
  /\ picked' = [picked EXCEPT ![r] = FirstOf(Unrecorded, IncomeBatch)]
  /\ rollPc' = [rollPc EXCEPT ![r] = IF Unrecorded = {} THEN "idle" ELSE "picked"]
  /\ UNCHANGED <<leaseRow, tplCat, ledgerRow, dailyStats, recFlag, staged, incomeLock, corrections>>

BeginIncomeTx(r) ==
  /\ rollPc[r] = "picked" /\ incomeLock = NoRollup
  /\ incomeLock' = r /\ rollPc' = [rollPc EXCEPT ![r] = "open"]
  /\ staged' = [NothingStaged EXCEPT !.stats = dailyStats]
  /\ UNCHANGED <<leaseRow, tplCat, ledgerRow, dailyStats, recFlag, picked, corrections>>

ApplyIncomeDelta(stats, e, sign) ==
  IF e = NotBooked THEN stats
  ELSE [stats EXCEPT ![<<e.day, e.cat>>] =
         IF sign = "minus"
         THEN [income |-> @.income - e.amount, count |-> @.count - 1]
         ELSE [income |-> @.income + e.amount, count |-> @.count + 1]]

\* projectOrderIncome: lock and read the order, replace its entry, move the deltas.
ProjectOrderIncome(r, i) ==
  /\ rollPc[r] = "open" /\ i \in picked[r] /\ \A j \in picked[r] : i <= j
  /\ LET old == ledgerRow[i]
         new == NextEntry(i)
     IN  staged' = [rows  |-> [j \in DOMAIN staged.rows \cup {i} |->
                                 IF j = i THEN new ELSE staged.rows[j]],
                    stats |-> IF old = new THEN staged.stats
                              ELSE ApplyIncomeDelta(ApplyIncomeDelta(staged.stats, old, "minus"),
                                                    new, "plus")]
  /\ picked' = [picked EXCEPT ![r] = @ \ {i}]
  /\ UNCHANGED <<leaseRow, tplCat, ledgerRow, dailyStats, recFlag, rollPc, incomeLock, corrections>>

CommitIncome(r) ==
  /\ rollPc[r] = "open" /\ picked[r] = {}
  /\ ledgerRow' = [i \in OrderIds |-> IF i \in DOMAIN staged.rows THEN staged.rows[i] ELSE ledgerRow[i]]
  /\ dailyStats' = staged.stats
  /\ recFlag' = [i \in OrderIds |-> IF i \in DOMAIN staged.rows THEN Eligible(i) ELSE recFlag[i]]
  /\ rollPc' = [rollPc EXCEPT ![r] = "idle"] /\ incomeLock' = NoRollup /\ staged' = NothingStaged
  /\ UNCHANGED <<leaseRow, tplCat, picked, corrections>>

\* An error or a crash before the commit; the next cycle starts over.
RollupFails(r) ==
  /\ rollPc[r] # "idle"
  /\ rollPc' = [rollPc EXCEPT ![r] = "idle"] /\ picked' = [picked EXCEPT ![r] = {}]
  /\ IF incomeLock = r THEN incomeLock' = NoRollup /\ staged' = NothingStaged
     ELSE UNCHANGED <<incomeLock, staged>>
  /\ UNCHANGED <<leaseRow, tplCat, ledgerRow, dailyStats, recFlag, corrections>>

LedgerNext ==
  \/ \E i \in OrderIds, s \in {"open", "void", "done"}, d \in Days, a \in Amounts : UpsertLeaseOrder(i, s, d, a)
  \/ \E i \in OrderIds, c \in Categories : Recategorise(i, c)
  \/ \E r \in Rollups : \/ PickBatch(r) \/ BeginIncomeTx(r) \/ CommitIncome(r) \/ RollupFails(r)
                        \/ \E i \in OrderIds : ProjectOrderIncome(r, i)

LedgerSpec == LedgerInit /\ [][LedgerNext]_ledgerVars

\* The job runs every few minutes; its database calls succeed now and then.
LedgerFairness ==
  \A r \in Rollups :
    /\ WF_ledgerVars(PickBatch(r)) /\ SF_ledgerVars(BeginIncomeTx(r))
    /\ SF_ledgerVars(\E i \in OrderIds : ProjectOrderIncome(r, i)) /\ SF_ledgerVars(CommitIncome(r))

-----------------------------------------------------------------------------
(* Properties *)

\* RecordIncomeBatch: "a stale or duplicated input batch cannot double count
\* income or overwrite a correction made after its query"; RollupTerminalOrders:
\* "a crash between the two can never double-count income on retry".  The rollup
\* implements the book: whatever overlaps, a commit books orders with what they
\* say at that moment, and daily_stats are the sums of the ledger.
RollupKeepsBook == Book!BookSpec

\* UnrecordedTerminalOrders "includes corrections and reversals of earlier
\* income": an order whose entry is not what it should be is booked again in the
\* end, with a batch smaller than the backlog and rollups that fail.
EveryOrderIsBooked ==
  LedgerFairness =>
    []<>(\A i \in OrderIds : ledgerRow[i] = NextEntry(i))
=============================================================================
