# rent-auto: a TLA+ verification project

rent-auto lists one owner's CS2 items for rent on two platforms (UU and ECO). A
single Go server mirrors inventory, shelf and orders into PostgreSQL, decides
where each item should be listed and at what price, publishes, delists and
reprices through the platforms' APIs, delivers rented items through Steam, and
serves a web panel. Everything periodic is a job of one in-process scheduler;
everything durable is in the database; the platforms change under the server's
feet. What is hard to get right is not any single handler but what happens
between a read and the write that follows it.

This project models the parts where that matters, checks them with TLC on small
instances, and proves with TLAPS, for every instance, each safety property the
runs check.

    tlc -workers 2 -config MCShelfEco.cfg MCShelfListings     # one run
    tlapm ShelfListingsProofs.tla                             # its proofs

`PROJECT.json` lists the runs, the mutants (a plausible bug for each property
that the run must catch), the source lines behind every definition, the hazards
and the findings.

## 1. The system

| Component | State | Operations | Interacts with |
|---|---|---|---|
| Shelf sync (`bench.SyncShelf`, `store/shelf_snapshot.go`, `store/collect.go`) | `listings`, `shelf_observations` | take a boundary, page through the shelf, apply the snapshot in one transaction | platforms; races the write-backs of reconcile and reprice |
| Reconciler (`recon/recon.go`, `store/recon.go`, `reconcileFn` in `cmd/server`) | grace observations in `listings` | plan (inventory, listings, health), observe mismatches, execute, write back | inventory sync, shelf sync, strategies, gates, platforms |
| Reprice job (`scheduler/jobs_reprice.go`) | `listings` terms and stamp, cooldown map | pick candidates, decide, send, write back | pricing engine, platforms |
| Factor loop (`scheduler/factor.go`, `store/factor.go`) | `listings.factor`, order bindings and markers | bind orders, fold events, stale scan | order sync, shelf sync |
| Scheduler (`scheduler/scheduler.go`) | entries, `running`, WaitGroup, stop channel | tick, trigger, execute, stop | every job, the panel, `run()` |
| Instance guard (`store/instance_lock.go`, `guardedJob`) | session advisory lock, `lost` | acquire, check, watch, close | PostgreSQL sessions, other processes, every job |
| ECO delivery (`scheduler/eco_delivery.go`, `liveECOClient`) | accepted-offer set, cooldown map | send, query and accept trade offers | ECO, Steam, every job that reports risk errors |
| Channel registry (`channels/registry.go`) | installed clients, retry back-off | refresh, recover, set credentials, SMS login | settings table, platforms, panel |
| Steam session (`channels/steam.go`, `platform/steam`) | credentials, tokens, cookies | restore, ensure (refresh, relogin), set credentials, accept offers | settings table, Steam, delivery |
| Pricing engine (`pricing/engine.go`) | none | `ParseParams`, `Baseline`, `NextFactor`, `Decide` | pure |
| Order sync, income (`scheduler/jobs.go`, `analytics`, `store/analytics.go`) | `lease_orders`, income ledger | windowed sync, roll-up once per order | platforms |
| Strategies, settings (`store/strategy_validation.go`, `store/business.go`) | strategy rows, gates | checked updates | panel, every job |
| Auth and sessions (`api/handlers_auth.go`, `auth`, `store/session.go`) | login limiter, session epoch | log in, change password, revoke | panel |
| Bootstrap (`config/bootstrap.go`, `resolveAdminPassword`) | password file, stored hash | draw, hand over, store | start-up, the operator |
| Migrations (`store/migrate*.go`) | schema version | up, down under a lock | start-up |
| Platform clients (`platform/uu`, `platform/eco`, `platform/steam`) | tokens, limiter | signed HTTP calls | platforms |
| Panel API (`api`), web panel (`frontend`) | none of their own | requests | everything above |

The hard behaviours: four jobs write `listings` concurrently and none holds a
lock across a platform call; a platform may do what was asked and the answer or
the write-back be lost; a snapshot is old when it is applied; a planner reads
inventory and listings at different instants; order sync corrects rows that a
fold or a rollup has already read; a process may lose its lock and not know; the
panel triggers jobs while the tick loop does, and edits strategies, credentials
and the password while others do; a start, a login or a credential update may be
cut between two of its writes. What makes each component correct is
stated below with its module.

## 2. The modules

Every module states its actions in the order of the code. History variables
(commented "history") record what a property needs and no action's guard reads
them.

### ShelfListings: the listings table against the shelf

One channel. A goods is a `goods_ref`; its terms are a version number, new with
every publish and reprice; `clock` is the database clock and every stamp and
platform change is a new instant.

* `BeginSync` takes the boundary (`ShelfObservationTime`), `FetchPage` reads one
  goods at an instant of its own (the shelf is paged), `ApplyShelfSnapshot` is
  the whole transaction: superseded check, empty-shelf breaker,
  `upsertListingFromShelf`, `markMissingListings`, new boundary. It is one step:
  two snapshots exclude each other by the channel's advisory lock, and a
  write-back of another job touches a single row with a stamp later than the
  boundary, so it commutes with the transaction's work on the other rows and its
  place is before or after the statement on its own row.
* `SendPublish`, `PlanDelist`, `SendDelist`, `ReconWriteBack`, `ReconFails` are
  the executor's calls and write-backs; a lost answer, a refused call and a
  failed write-back are `ReconFails`.
* `PickCandidate`, `SendReprice`, `UpdateListingDecision`, `RepriceFails` are
  the reprice loop.
* `Environment` is the platform: rented, returned, gone. A call on goods that
  are no longer on the shelf is refused.

Properties: `Converged` (once a snapshot begun after the goods' last change is
applied and is newer than the row's stamps, the row shows what the shelf
shows), `SnapshotKeepsOwnWrites` (a snapshot never overwrites a write it has not
seen), `EndedLeaseIsReevaluated` (refuted, see findings).

### Reconcile: planner and executor

The copies of one commodity on both channels; a listing is a channel and an
asset. `BeginPlan` takes the cycle's clock value; `ReadItems` and `ReadListings`
are two queries at two later instants; `elapsed` is the time since `BeginPlan`.
`MakePlan` is `planFrom` with the observation update: the publish pass (free
copies within the budget the live rows leave; any order of the inventory query),
the delist pass (which live rows are kept is the order of a query without ORDER
BY) and `ObserveReconMismatches` on the rows as they are by then, stamped with
the clock value of `BeginPlan`: an observation is `elapsed` old when it is first
written. The executor's actions follow, publishes first; each may fail (`SkipAction`). A
closed gate makes the plan a record. Between any two steps shelf sync rewrites a
row (`SyncRow`), inventory, route, UU health or gate change (`WorldChanges`), or
time passes (`Tick`: ages are capped at the grace period, after which they make
no difference). A leased row is an ECO row: the UU shelf feed never reports one.
Rows of the same channel and asset are merged: a platform does
not list an asset twice, and a published row whose write-back was lost is
brought back by shelf sync.

Properties: `ObservationIsContinuous` (what is recorded is the verdict of every
cycle since its first write, on a row that has not changed state since; its age is
the time since that write plus what the planning had taken before it),
`PublishesAreFree`, `SettledPlanIsEmpty`, `MisplacedIsDelisted`;
`RoutedCopyIsListed` (refuted, see findings).

### FactorFold: order events and the pricing factor

Orders with an identity (the listings they match), the binding to the one
listing that matches, `SelectBatch` / `ReadTerms` / `PlanFolds` /
`ApplyFactorFolds` as the code's separate queries, the stale scan, order
corrections at any point, and two executions at once. `Folded` folds the orders
of a listing in id order. The job binds and selects only orders of the last 100
days (`factorOrderWindow`): `recent` is the set of orders within the window, order
sync may write an order of either kind, and `AgesOut` takes a finished one out. An
order that leaves the window before it is folded is neither bound again by the job
nor folded; order sync still binds it. Factors are counted in
controller steps (step up and step down of one size, one strategy); `ledger` is
the factor that the committed events should have produced.

Properties: `FoldedAtMostOnce`, `FactorMatchesEvents`, `BoundToMatchingListing`,
`FoldableIsFolded` (a finished order of the last 100 days whose listing is known is
folded, or leaves the window, or is corrected).

### JobScheduler: ticks, triggers, shutdown

Every section under `Scheduler.mu` is one action. The two kinds of execution end
differently: a scheduled one records and clears `running` in one section and
then leaves the WaitGroup; a manual one records, leaves the WaitGroup and clears
`running` in a section of its own. A body alternates between local work and
platform calls and may hang, panic or be refused by `guardedJob`. `run()`
cancels the root context, calls `Stop` (30 s) and exits.

Properties: `NoOverlap`, `CleanStopIsQuiet`, `Paced`, `ShutdownEnds`,
`RunningClears`, `DueJobsStart` (a due job starts although the body of another hangs
for ever); `NoWriteCutAtShutdown` (refuted, see findings).

### InstanceGuard: one process at a time

Processes that share a database. The lock belongs to a session; the session may
die, linger after a crash, or be slow to answer; `Check` sets `lost` for good.

Properties: `ExclusiveWithoutFaults`, `EntryHoldsLock`, `OverlapEnds`, `NoticedLossFreesLock`.

### SteamSession: credentials, tokens and cookies

`SteamSession.mu` makes an operation of the session one step, except where it
can be cut: `SetCredentials` logs in on a session of its own, then `SaveCreds`
and `SaveTokens` are two writes. A session records the account of its
credentials, the account and age of its tokens, and whether its cookies carry
those tokens. `PolledTokens` is what `Login` has done before `finalize`: the
tokens are new, the cookies are not. `Restore`, `SteamCrash` and `TokensAge`
complete the life of a session.

Properties: `MixedOnlyByTornSave` (a session never has the credentials of one
account and the tokens of another, unless a `SetCredentials` saved only half);
`HandedSessionIsWhole` (refuted, see findings).

### Registry: installed clients against stored credentials

`RefreshUU` has the outcomes of `refreshUU` as disjuncts (lookup error, no row,
unreadable row, rejected or transient validation, success), with the back-off in
minutes. A process starts with any master key or none, so a row may be
unreadable and readable again; legacy rows are plain text and are sealed when
they can be. A panel update may store its row and still report an error.

Properties: `InstalledIsStored` (a client that acts is one a restart would
restore, unless an update stored something and reported an error),
`StoredTokenIsInstalled`.

### Delivery: ECO orders, Steam offers, the cooldown

Every platform call of the sale pass and the rent pass is a step that may fail
with or without its effect; a risk error sets the cooldown and ends the run, as
`liveECOClient` and `RunECODelivery` do together. `AcceptOutcomes` is
`acceptTradeOffer` with the confirmation that follows it; `AcceptZeroCost` is the
job that accepts offers which take nothing. The accepted set is reset when it
outgrows its cap and lost on restart. The operator may accept an offer in the
Steam app and leave its confirmation pending.

Properties: `OnlyAuthorisedGiven` (no offer that takes an item is accepted unless
ECO named it), `MarkedIsDelivered` (what is skipped as handled, or recorded as
delivered, is an order whose own offer was accepted), `CooldownIsKept`,
`DeliveredInTheEnd`.

### IncomeBook and Ledger: the income figures

`IncomeBook` is the abstract account: orders change as the platform says, and one
indivisible `Post` books any set of orders with what they say at that moment, the
totals being the sums of the entries. `Ledger` is the code: `PickBatch` without a
lock, then a transaction under the advisory lock that rereads and locks each order
(`ProjectOrderIncome`), moves the deltas in `daily_stats` and commits, while order
sync corrects orders, templates change category, a second rollup runs and
transactions fail. `Ledger` instantiates `IncomeBook` with its rows, ledger and
`daily_stats`; `RollupKeepsBook` is the refinement, checked as a property: the
incremental sums of the code are the sums of the account.

Properties: `RollupKeepsBook`, `EveryOrderIsBooked`.

### OrderWindow: how far back orders are asked for

`OrderSyncWindow` is the function of the same name; the anchors are the oldest
open order and the oldest leased listing, each of whose lookups may fail.
`Segments` is the ECO client's cut of the window, whose pieces must fit the
platform's limit. One time step is much longer than a sync cycle.

Properties: `AnchoredSyncCatchesUp` (a sync asked for with both anchors, and
listed without an error, brings every order known to be open and every lease the
shelf shows up to date: neither the window nor a gap between two segments hides
one), `LongLeaseIsSeen` (the end of an order known to be open, and a lease
the shelf shows, are seen unless older than the hard cap).

### Reprice: Baseline, Decide and the job

Prices are integer cents and ratios are percents, so every rounding of the code
is a rounding of the model (`RoundDiv`, `CeilDiv`). Quotes beyond `TopN` and short
prices beyond the first ten are not looked at, as in the code. `Baseline`, `RentBounds`,
`NewRent`, `TermsFor`, `CapExceeded` and `WithinNoise` are the steps of
`pricing.Baseline` and `Decide`; `PriceOf` tabulates the part that depends on no
state but the quotes, the factor and the rent. The job reads a candidate,
decides, submits and writes back; market, factor and gates drift, answers are
lost after the platform took the terms, write-backs fail, the mirror of the shelf
brings lost prices back, also while a run is under way.

Properties: `SubmittedTermsAreSafe` (to the cent; the change limit applies to a
listing that has a rent, and the ECO deposit cap, where one is set, is tested
before the deposit is rounded, so the rounded deposit may exceed it by half a
cent), `DecisionsApproachTarget` (a decided rent lies between the present one and
the one the rent bounds alone would give, and is closer to it while the change
limit leaves a cent of room), `PriceSettles`;
`RiskAnswerRestsChannel` (refuted, see findings). It also shows the one-shot ECO
sublet backfill: it is part of `PriceSettles`.

### AdminSessions and PanelAuth: logins, password changes, logouts

`AdminSessions` is the promise: a session is opened in one step by whoever knows
the password of that moment; a change of password, or a logout, closes every
session at once and for good. `PanelAuth` is the code: requests whose database
reads and bcrypt comparisons interleave; a hash is named by its password and a
serial, so two hashings of one password differ. `RequireAuth` checks a request's
token and its handler acts later, on a check that may be out of date: of two
overlapping logouts with one token both bump the epoch, and the second closes
sessions opened after the first, or none. The refinement maps the open
sessions to the tokens `requireAuth` would accept: a login that was overtaken by a
change signs a token that is dead already, which is a stutter.

Properties: `SessionsAreAtomic` (the refinement) and, following from the same
invariant and therefore only proved, `LiveTokenMatchesPassword`.

### StrategyTable and Strategies: overlapping edits

`StrategyTable` is the promise: the global row and the overrides change by one
whole edit at a time, validated against the very rows it changes. `Strategies` is
the code: overlapping edits of the global row and of template overrides, each a
transaction that takes the global row's lock, validates what it reads and commits
later; a begun or abandoned transaction is a stutter, a commit is the edit.
Parameters are a lower and an upper rent bound, enough for two edits that are
valid alone and invalid together.

Properties: `EditsAreAtomic` (the refinement), `CheckedStaysValid`.

### Bootstrap: the first password

`Bootstrap`: the password file and the stored hash, with a crash or an error at
every write and an operator who reads and removes the file. Only the process
crashes; the file system keeps what was written. Property:
`PasswordIsDelivered`.

### MCServices and MCLive

The scheduler's liveness has a run of its own (`sched_live`). The components of
these two modules, nine services in MCServices, the instance guard, the factor loop
and the reconciler in MCLive, share no variable, so interleaving them
would only multiply states. `part` picks one component at the start; the others
stay at one of their initial states. A liveness property carries the fairness of
its own component as a hypothesis (`XFairness => ...`), so that no component's
assumption is in force for another; the guard's fairness is part of MCLive's
specification, and is about nothing that is enabled before a process boots. The interactions that do share state are
inside the modules: shelf sync, reconcile and reprice in ShelfListings, delivery
and the other jobs' risk reports in Delivery, order sync and rollup in Ledger,
guard and jobs in InstanceGuard. That the composition of MCServices implements
each component's own specification is a theorem (`ServicesImplementParts`).

## 3. The runs

| Run | Instance | Shows |
|---|---|---|
| `shelf_eco` | 2 goods, 2 syncers, 5 instants, ECO feed | `Converged`, `SnapshotKeepsOwnWrites` |
| `shelf_lease` | 2 goods, 1 syncer, 6 instants | violation of `EndedLeaseIsReevaluated` |
| `sched` | an interval and a daily job, 2 goroutines each, 2 time units | the safety of the scheduler |
| `sched_live` | an interval and a daily job, 1 goroutine each, 2 time units | `ShutdownEnds`, `RunningClears`, `DueJobsStart` |
| `sched_cut` | one interval job | violation of `NoWriteCutAtShutdown` |
| `factor` | 2 orders, 2 listings, 2 executions, 2 order syncs | the safety of the fold |
| `recon` | 2 copies, grace of 2, 2 disturbances | the safety of the plan |
| `recon_copies` | 2 copies, grace of 1, 1 disturbance | violation of `RoutedCopyIsListed` |
| `live` | 2 processes, 2 jobs; 2 orders, 1 execution, batch of 1; 1 copy, grace of 1, 2 disturbances | safety and liveness of the guard; `FoldableIsFolded`; `MisplacedIsDelisted` |
| `services` | the nine services below, one at a time | their type invariant, 7 safety invariants, the refinements of account, sessions and strategy table, 3 action properties, 5 liveness properties |
| `steam_mixed` | 2 accounts | violation of `HandedSessionIsWhole` |
| `reprice_risk` | 1 listing, markets of no, one or three quotes of which two are read | violation of `RiskAnswerRestsChannel` |

Instances of `services`: 2 Steam accounts; 2 UU tokens, 1 ECO credential,
2 Steam ids, 2 master keys, back-off up to 2 minutes; 1 sale order and 1 rent order or 1 order
and 1 foreign offer, an accepted set of 1, penalties of 1 and 2, 2 faults; 2
orders with 2 amounts, 2 categories and 2 rollups with batches of 1, 1
correction; 2 leases, time up to 4 with a floor of 1 and a cap of 3, segments of
1; rents from 5 to 12 cents with a change limit of 15 percent, factors 100 and
120, 1 drift; 2 passwords, 2 requests, 2 epoch bumps; 2 editors, 1 commodity,
bounds 1 and 2; 2 generated passwords.

Why the bounds are enough for the cases that matter. `MaxClock = 5`: a boundary,
a platform change, a write-back stamp, a second boundary and another change, the
longest chain a violation of either property needs; the theorems remove the
bound. `MaxTime = 2` with an interval of 1 and jitter 2: a scheduled and a manual
run with a stale tick between them; two slots let an execution start while the
previous one is still leaving. `sched_live` needs two jobs, one to hang and one to
be due, and one slot each: there a new execution waits for the goroutine of the
last one to leave, which is fair. `MaxSync = 2`: an order arrives and is corrected,
or two orders arrive. `MaxChanges = 2`: a disturbance between the planner's reads
and another between its write and the next cycle. `AcceptedMax = 1`: the second accepted order resets the set. `MaxFaults = 2`: a
risk error and a restart, or two risk errors of different length. In `live` the factor's two bounds coincide, since nothing the fold does depends on
its value. A batch of one
with two orders keeps a backlog; one correction lands between any two steps of a
rollup. Time 4 with a floor of 1 and a cap of 3 lets a lease outlive the default
lookback and then the hard cap, and the segments number three; at rents of a few cents the change limit falls between two
cents, and the nearest cent is often outside it. Two requests and two epoch bumps put a password change and a logout inside a
login, or one logout inside another. Symmetry is used for goods,
syncers, copies and executions in runs that check safety only; the actions treat
them alike.

`CHECK_DEADLOCK FALSE` is used where the model runs into its bound (clock, time,
order syncs) or the process exits; `live`, `services` and the Reconcile runs
check deadlock.

### Fairness

* JobScheduler: the Go runtime runs every goroutine that can proceed (one condition
  for the loop, one for `run()`, one for each execution), and Stop's timer fires. Nothing is assumed of job bodies; `RunningClears` adds that they
  end, which the 10-minute context budget provides for calls that respect it.
* InstanceGuard: the watcher ticks every second and its check of a dead session
  or after a noticed loss fails; `run()` reacts to the cancelled context; Stop
  is bounded; bodies end. Nothing is assumed of crashes or dying sessions.
* FactorFold: the job is periodic, and what fails now and then (store, strategy
  lookup) also succeeds now and then (strong fairness on the steps that need it).
* Reconcile: the same, for queries, quotes and platform calls; time passes. A
  reading that fails aborts the cycle, and the next one tries again.
* Registry: `channel_recovery` runs every minute, and UU's lookup and validation
  succeed now and then (strong fairness on a start or retry that installs).
* Delivery: the job runs and time passes; for each order its detail call and its
  acceptance succeed now and then. Nothing is assumed of another order's calls,
  of answers, or of the one-click call.
* Ledger: the job runs; its transaction's statements and commit succeed now and
  then. Order sync is not fair.
* OrderWindow: now and then a cycle reads both anchors and lists the orders. A
  shelf sync is never assumed.
* Reprice: the job runs and cooldowns end; the strategy and quotes are read, a
  submission is accepted and a write-back is complete now and then; the shelf is
  mirrored by a job of its own (weak fairness).
* Strong fairness stands for "a call that is tried again and again does not fail
  for ever", which no retry loop can do without. Where the code does not retry
  there is none: not for `RefreshECO`, nor for `Restore` after a failed start.

## 4. The proofs

Eight modules prove, for every value of the constants, each safety invariant and
each action property that a passing run checks, and the three refinements: of the
income account, the administrator's sessions and the strategy table. The assumptions are the `ASSUME`s of the component modules: a
value that stands for "none" is no real value, bounds are numbers, and where
something is counted or summed (copies, orders, jobs, requests) the set is finite.
`RepriceAssumption` adds what `Params.Validate` enforces and that prices and
parameters are integers, `WindowAssumption` that a segment is not longer than what
the platform answers.

| Module | Theorem | States |
|---|---|---|
| `ShelfListingsProofs` | `SnapshotConverges`, `OldSnapshotOverwritesNothing`, `TypeCorrect` | `Converged`, `SnapshotKeepsOwnWrites`, `TypeOK` |
| `JobSchedulerProofs` | `OneExecutionPerJob`, `ExecutionsArePaced`, `CleanStopQuiesces`, `SchedulerTypeCorrect` | `NoOverlap`, `Paced`, `CleanStopIsQuiet`, `TypeOK` |
| `InstanceGuardProofs` | `OneProcessWorks`, `ChecksAreTruthful`, `GuardTypeCorrect` | `ExclusiveWithoutFaults`, `EntryHoldsLock`, `TypeOK` |
| `FactorFoldProofs` | `NoOrderFoldsTwice`, `BindingsMatch`, `FactorsFollowEvents`, `FactorsStayBounded` | `FoldedAtMostOnce`, `BoundToMatchingListing`, `FactorMatchesEvents`, `TypeOK` |
| `ReconcileProofs` | `ObservationsAreContinuous`, `PlansPublishFreeCopies`, `SettledCyclesAreIdempotent`, `ReconcileTypeCorrect` | `ObservationIsContinuous`, `PublishesAreFree`, `SettledPlanIsEmpty`, `TypeOK` |
| `ChannelProofs` | `AccountsMixOnlyByTornSave`, `ClientsAreStored`, `NothingGivenAway`, `DeliveryIsReal`, `CooldownNeverShortened`, and the three type invariants | `MixedOnlyByTornSave`, `InstalledIsStored`, `OnlyAuthorisedGiven`, `MarkedIsDelivered`, `CooldownIsKept` |
| `MoneyProofs` | `RollupImplementsBook`, `GuardrailsHold`, `RepriceApproachesTarget`, `KnownOrdersCatchUp`, and the three type invariants | `RollupKeepsBook`, `SubmittedTermsAreSafe`, `DecisionsApproachTarget`, `AnchoredSyncCatchesUp` |
| `ServicesProofs` | `RequestsImplementSessions`, `TokensFollowPassword`, `EditsImplementTable`, `ParametersStayValid`, `NobodyIsLockedOut`, and three type invariants | `SessionsAreAtomic`, `LiveTokenMatchesPassword`, `EditsAreAtomic`, `CheckedStaysValid`, `PasswordIsDelivered` |
| `ServicesProofs` | `ServicesImplementParts`, `ServicesTypeCorrect`, `ServicesKeepPromises` | the nine specifications, `ServicesTypeOK`, every safety and action property of `services` |

The last three theorems are about the composition that the run `services` checks:
a step of it is a step of one service and a stutter of the others, so it implements
each service's specification, and the theorems about the single services carry over
to it. The type invariants of ShelfListings, JobScheduler, InstanceGuard and
Reconcile are proved and not checked by a run, and so is
`LiveTokenMatchesPassword`, which `SessionsAreAtomic` includes.

### The inductive invariants

**ShelfListings.** `Converged` says nothing about a snapshot that is still being
fetched. `IInv` adds

* `StampsPast`: no stamp is later than the clock, so a write-back is stamped
  after every boundary already taken;
* `OwnWritesStamped`: a row's stamp is at least as late as the own write it
  records, which is what makes the SQL condition on stamps protect the write;
* `TargetsExist`: a job in the middle of a delist or reprice works on an existing
  row (rows are never deleted), so its write-back cannot miss;
* `PagesAfterBoundary`: a page was read at or after its boundary, and if the
  goods has not changed since before the boundary the page still says what the
  shelf says.

`ApplyStep` is the heart: a row the snapshot may write has no stamp after the
boundary and takes what its page says; a row it may not write has a later stamp
and is not settled by it. Platform changes unsettle their goods
(`PlatformStep`), write-backs stamp after the boundary (`WriteBackStep`).
`SnapshotKeepsOwnWrites` then follows from `OwnWritesStamped` and
`PagesAfterBoundary`.

**InstanceGuard.** `ExclusiveWithoutFaults` talks about jobs only; `GInv` ties
them to the lock: a session is live exactly when it holds the lock
(`LiveSessionHolds`), a process without faults keeps its session until `Close`
(`SessionKept`), and has no job left by then (`JobsEnded`, which is where the order
"Stop, then Close" is needed).

**JobScheduler.** Three invariants. `NInv` names the executions that have `running`
still to clear (`Holding`: all that are in or before the recording section, and
manual ones until their deferred function has run): the mark is set while there is
one, and there is never a second, so no execution clears the mark of another.
`ScheduleInv` says that an entry's next run was computed from the end of its last
execution and that a tick is never early, though it may be old; with `NInv`, which
makes that last execution the only one, this is `Paced`. `StopInv` says the wait
group is never below the number of executions that have still to leave it
(`WaitGroupCovers`) and that after `Stop` closes the channel nothing is admitted
(`StopIsFinal`), so a wait that has ended has ended for good.

**FactorFold.** `FoldInv` relates an execution's plan to the rows: a snapshot whose
version the row still has is the row (`SnapshotsHold`), so the check inside the
transaction suffices; the factors read before the transaction are the current ones
while executions do not overlap (`BaseIsCurrent`); every fold marks its order
(`MarkedOnce`). `RangeInv` adds that plans are finite and factors in range; a fold
keeps the range because every step clamps (`FoldWithin`).

**Reconcile.** `ReconcileInv` keeps the observation's reason equal to the history's
unbroken run, its age equal to the run's age plus the planning before its first
write, and the plan within the budget of the rows that were read. `SettledInv` is the
argument for idempotence: in an undisturbed cycle what was read is still true
(`ReadsHold`), the table after the remaining actions is calm (`PlanCalms`: no free
copy within the budget, nothing misplaced), and a settled table is calm
(`SettledIsCalm`). `ChannelCalms` does the counting: on a wanted channel
the rows that are kept and the copies that are published fill the budget or use
every free copy.

**PanelAuth, Strategies, Bootstrap.** Nothing is signed for an epoch that has not
begun, and a login that carries the present epoch carries the hash in force
(`LoginsOfThePast`): it reads the epoch before the hash. For the refinement of the
sessions `HashOfThePast` adds that the hash in force was made in an epoch that has
begun, so that a change of password always brings a hash that is a new one. Nothing
is needed of a request that has passed `requireAuth`: what it does is allowed of
anyone who had a session. What a
transaction validated at its start is still true of the rows when it commits,
because it holds the global row's lock (`OneEditor`, `GlobalChecked`,
`UpsertChecked`); the refinement of the strategy table also needs that an override
to be deleted is still there (`DeleteChecked`). A start that
is about to store a hash has its password in the file, or the operator has read it
(`StartHoldsPassword`).

**SteamSession, Registry, Delivery.** Between saves, and unless one was torn, memory
and database name one account (`OneAccount`). A process that is down has no client
(`DownIsEmpty`). What the zero-cost job has listed takes nothing from us, and an
accepted set is reset as soon as it outgrows its cap (`WorldTypeOK`). An
acceptance reports success only for an offer that is accepted, and leaves an
accepted one as it is (`AcceptReports`); an order ECO still takes for unsent has no
offer (`UnsentHasNoOffer`), so that sending one never replaces an accepted one.

**Ledger.** The rollup that holds the advisory lock is the one with an open
transaction (`LockIsOpenTx`); what it has staged is what the locked orders say
(`StagedEntriesHold`); committed and staged totals are each the sums of their
ledger (`SumsHold`). `DeltasMoveSums` shows that subtracting the old entry and
adding the new one moves the sums as the account wants, also when an order changes
its day or category. Picking a batch, opening, projecting and failing map to
stuttering, a commit to `Post`.

**Reprice.** `RepriceInv` says that a decision is safe for the rent of the candidate
it was made for and is kept until its answer is written back, whatever drifts
meanwhile. `OffersAreSafe` is the arithmetic: bounds are quantised inwards
(`BoundsHold`), a clamped rent is within them, hence within the change limit
(`ChangeWithin`); the long price and the deposit follow the rent (`TermsWithin`);
`Baseline` always yields natural numbers (`BaselineType`). `RepriceApproachesTarget`
needs that clamping to a narrower interval around the present rent
(`CapAroundRent`) lands between that rent and what the wider interval gives
(`ClampApproaches`, `Narrowed`), to the cent.

**OrderWindow.** Nothing is known of a lease before it began (`KnownHasBegun`). A
window with both anchors reaches back to every known lease's start unless it is
older than the cap (`WindowReaches`), and the segments cover the window without a
gap, each within the platform's limit (`SegmentsCover`, `SegmentsFit`).

### Sums and folds

The income sums and the factor fold are folds of the community modules over finite
sets. The library's induction theorems cannot be used here, so what these folds
compute is proved through the smallest counterexample: if a fact fails for some
finite set it fails for one of least cardinality (`MinimalSubset`,
`SmallestSubset`, from the well-ordering of the naturals), and taking an element
off that set contradicts it. That gives the existence and uniqueness of the fold's
function (`SumExists`, `SumUnique`, `FoldExists`, `FoldUnique`), its one-step
unfolding, and the facts above.

### What is only model-checked

All liveness: `ShutdownEnds`, `RunningClears`, `DueJobsStart`, `FoldableIsFolded`,
`MisplacedIsDelisted`, `OverlapEnds`, `NoticedLossFreesLock`,
`StoredTokenIsInstalled`, `DeliveredInTheEnd`, `EveryOrderIsBooked`,
`LongLeaseIsSeen`, `PriceSettles`. They rest on fairness and ENABLED, which the
prover does not handle. `AnchoredSyncCatchesUp` is the safety half of
`LongLeaseIsSeen`: what remains for TLC is that such a sync happens.

## 5. Findings

1. A listing that leaves the shelf while leased stays `leased` in the table for
   ever: `markMissingListings` only looks at active rows. ADR-0005 says a leased
   listing is re-evaluated in the cycle after its lease ends; its asset is in
   fact excluded from routing from then on (`shelf_lease`).
2. `Stop`'s comment says a platform write cut mid-shutdown is impossible;
   `run()` cancels the root context, and with it every job's context, before it
   calls `Stop` (`sched_cut`).
3. The functional spec says the reconciler guarantees that the routing intent is
   eventually met. The publish budget counts the live row of a copy that is
   leased on the other channel, and the delist pass may keep that row, so that a
   routable copy is never listed (`recon_copies`): both copies listed on both
   channels, the first leased on ECO; on UU one row is surplus, and if it is the
   second copy's row that is taken off, the first copy's row fills the budget. (The
   other way round does not happen: UU's feed reports no leased rows.)
4. `penalize` is documented to put a channel into cooldown when the platform
   signals risk control. Both adapters' `RepriceLease` answer a failed call with
   `ErrPartialFailure` alone, because the length check comes before the client's
   error is looked at, so a rate limit or block met by the reprice job never
   rests the channel, and the job goes on with the next listing
   (`reprice_risk`). The integration test uses a fake adapter that passes the
   error through.
5. `EnsureSession` is documented to return a live session. `Session.Login` stores
   the new tokens before `finalize` sets the cookies; when `finalize` fails the
   error is returned once, and the next call sees a fresh access token and hands
   out the session with the cookies of the former login until that token ages
   (`steam_mixed`).

Smaller observations, not checked as findings: the UU branch of `Decide` drops
the long price for fewer than 8 days where its comment says 8 or fewer; a
`Restore` that fails at start-up is not retried; `SetECOCreds` with an empty Steam
id keeps the former account's id; an acceptance whose answer is lost is recorded
only if ECO still lists the order at the next run; a grace observation is stamped
with the clock value from before the planner's reads, so a listing that left and
returned while the plan was made gets a grace that is short by up to the time the
planning took, where ADR-0009 speaks of a fresh full period; a lease that begins and ends
while the server is down for longer than the lookback is never seen; a rent so
low that the change limit is less than one cent cannot move.

## 6. What is not modelled, and the plan

Left out for good: HTTP, signing, encryption, the Steam login protocol's
cryptography, logging, rendering (I/O without a protocol of its own), dashboards
(read-only queries), the web panel, schema migrations (a loop over SQL files under
one lock; what it does is in the SQL), the rate limiter (a library's bucket),
market snapshot rotation, the one-click delivery and zero-CD calls of UU (each one
platform call behind a button), the body of the inventory replacement (one
transaction).

Abstractions to know of: pages of the shelf do not shift while they are read;
one strategy at a time in FactorFold, Reconcile and Reprice; a listing's asset
does not change while an order is bound to it; one listing in Reprice (the races
of two jobs on one row are in ShelfListings); the audit trail and `price_actions`
are no state; prices are exact cents, so the finite-number guards and the
1e-9 slack of float arithmetic have no counterpart; a hash and a token are
unforgeable names; a save of Steam credentials or tokens that reports an error has
not committed.

No safety property of the runs is without a proof. What could follow: shelf pages
that shift while they are read, which needs a model of how the platforms order
them (the one hazard without a property); several strategies in FactorFold, so
that listings with different controllers share a batch; and further bounds on
what `Baseline` computes, such as its monotony in the quotes.
