------------------------------ MODULE Reprice ------------------------------
(***************************************************************************)
(* pricing.Baseline and pricing.Decide, and the job that carries their     *)
(* decisions to the platform: RunReprice, repriceChannel and the adapters' *)
(* RepriceLease, for one listing whose market, factor and gate change.     *)
(*                                                                         *)
(* Money is in cents and ratios are in percent; a product of the two is in *)
(* hundredths of a cent until it is rounded.  A run reads its candidate,   *)
(* decides, submits and writes back in separate steps; the platform call   *)
(* may fail with or without its effect and every write may be lost.        *)
(***************************************************************************)
EXTENDS Integers, Sequences, FiniteSets, FiniteSetsExt

CONSTANTS
  Params,       \* pricing.Params of the listing's strategy
  Value,        \* the template's value anchor V
  Markets,      \* quote lists a market snapshot may hold
  Factors,      \* factors the controller may set
  StartRents,   \* rents the listing may have when the model starts
  NoRun,        \* no candidate, no decision
  MaxDrifts     \* bound on changes of market and factor

Quotes == [short : Int, long : Int, dep : Int]

\* The first three conjuncts are Params.Validate; the other parameters may have any value.
ASSUME RepriceAssumption ==
  /\ Params.minRent \in Nat /\ Params.maxRent \in Nat /\ Params.minRent <= Params.maxRent
  /\ Params.fmin <= Params.fmax /\ Params.maxChange \in Nat /\ Params.noise \in Nat
  /\ Params.depFloor \in Nat /\ Params.depCap \in Nat
  /\ \A x \in {"topN", "k1", "k2", "k3", "minLease", "fmin", "fmax", "ecoDays", "uuDays",
              "dayMin", "dayMax", "longFrom"} : Params[x] \in Int
  /\ Value \in Nat \ {0} /\ StartRents \subseteq Nat /\ MaxDrifts \in Nat
  /\ Factors \subseteq Int /\ \A q \in Markets : q \in Seq(Quotes)

VARIABLES
  channel,      \* "eco" or "uu"
  quotes, factorNow, drifts,
  real,         \* dry-run off and both strategy gates on
  shelfTerms,   \* what the platform offers
  rowTerms,     \* listings: rent_price, long_rent_price, deposit, max_days
  subletRow,    \* listings.sublet_applied
  recent,       \* last_reprice_at is within the listing's cooldown
  resting,      \* the channel's risk cooldown
  cand,         \* the candidate a run works on
  sending,      \* its decision, once made
  result,       \* what RepriceLease returned, while it is written back
  sent,         \* history: last submitted terms and the rent they were derived from
  answer        \* history: what the platform answered last

marketVars  == <<channel, quotes, factorNow, drifts, real>>
repriceVars == <<channel, quotes, factorNow, drifts, real, shelfTerms, rowTerms, subletRow,
                 recent, resting, cand, sending, result, sent, answer>>

-----------------------------------------------------------------------------
(* Rounding *)

RoundDiv(n, d) == (2 * n + d) \div (2 * d)   \* Round2: half up
CeilDiv(n, d)  == (n + d - 1) \div d
Clamp(x, lo, hi) == Min({Max({x, lo}), hi})

-----------------------------------------------------------------------------
(* Baseline *)

\* Quotes beyond the first TopN (15 unless set), and short prices beyond the
\* first ten, are not looked at; a quote counts where its price is present.
TopN == IF Params.topN > 0 THEN Params.topN ELSE 15
ShortWindow == 10

Shown(q)    == {i \in 1 .. Len(q) : i <= TopN}
Shorts(q)   == {i \in Shown(q) : i <= ShortWindow /\ q[i].short > 0}
Longs(q)    == {i \in Shown(q) : q[i].long > 0}
Deposits(q) == {i \in Shorts(q) : q[i].dep > 0}

\* A sum and the first of the prices at some places of the list.
Total(q, S, field) == SumFunctionOnSet([i \in S |-> q[i][field]], S)
FirstOne(q, S, field) == q[Min(S)][field]

\* The unrounded short price is the largest of these fractions.
ShortParts(q) ==
  {<<Total(q, Shorts(q), "short") * Params.k1, 100 * Cardinality(Shorts(q))>>,
   <<FirstOne(q, Shorts(q), "short"), 1>>, <<1, 1>>, <<Params.minLease * Value, 100>>}

RoundedMax(parts, percent) == Max({RoundDiv(p[1] * percent, p[2] * 100) : p \in parts})

HasBase(q) == Shorts(q) # {}

LongBase(q) ==
  IF Longs(q) = {} THEN Max({RoundedMax(ShortParts(q), 100) - 1, 1})
  ELSE Max({Min({RoundedMax(ShortParts(q), 98),
                 RoundDiv(Total(q, Longs(q), "long") * Params.k2, 100 * Cardinality(Longs(q)))}),
            FirstOne(q, Longs(q), "long"), 1})

DepBase(q) ==
  IF Deposits(q) = {} THEN 0
  ELSE Max({RoundDiv(Total(q, Deposits(q), "dep") * Params.k3, 100 * Cardinality(Deposits(q))),
            Min({q[i].dep : i \in Deposits(q)})})

Baseline(q) ==
  LET short == RoundedMax(ShortParts(q), 100)
  IN  [short |-> short, long |-> Min({LongBase(q), short}), dep |-> DepBase(q)]

-----------------------------------------------------------------------------
(* Decide *)

\* Fault: the bounds are rounded to the nearest cent.
NearestBounds(cur) ==
  [floor |-> Max({Params.minRent, RoundDiv(cur * (100 - Params.maxChange), 100)}),
   ceil  |-> Min({Params.maxRent, RoundDiv(cur * (100 + Params.maxChange), 100)})]

\* Fault: the cap is computed in whole units of the rent.
TruncatedCap(cur) ==
  LET room == (cur \div 100) * Params.maxChange
  IN  [floor |-> Max({Params.minRent, CeilDiv(Params.minLease * Value, 100), cur - room}),
       ceil  |-> Min({Params.maxRent, cur + room})]

\* The absolute bounds, the lease-ratio floor and the change-rate cap around the
\* current rent, quantised inwards.
RentBounds(cur) ==
  [floor |-> Max({Params.minRent, CeilDiv(Params.minLease * Value, 100)}
                 \cup (IF cur > 0 THEN {CeilDiv(cur * (100 - Params.maxChange), 100)} ELSE {})),
   ceil  |-> Min({Params.maxRent}
                 \cup (IF cur > 0 THEN {(cur * (100 + Params.maxChange)) \div 100} ELSE {}))]

NewRent(base, f, bounds) ==
  Clamp(RoundDiv(base.short * Clamp(f, Params.fmin, Params.fmax), 100), bounds.floor, bounds.ceil)

\* Days, long price and deposit that go with a rent, by channel; the last two
\* are in hundredths of a cent.
DaysOf(ch) == IF ch = "eco" THEN Clamp(Params.ecoDays, Params.dayMin, Params.dayMax) ELSE Params.uuDays

LongOf(base, rent) == Min({rent * 98, base.long * 100})

DepositOf(ch, base, rent) ==
  IF ch = "eco" THEN Max({Value * 140, rent * DaysOf(ch) * 100, LongOf(base, rent) * DaysOf(ch)})
  ELSE Max({base.dep * 100, Params.depFloor * Value})

TermsFor(ch, base, rent) ==
  [rent |-> rent,
   long |-> IF ch = "uu" /\ DaysOf(ch) < Params.longFrom THEN 0 ELSE RoundDiv(LongOf(base, rent), 100),
   dep  |-> RoundDiv(DepositOf(ch, base, rent), 100),
   days |-> DaysOf(ch)]

\* The ECO deposit before rounding is above the cap.
CapExceeded(ch, base, rent) ==
  ch = "eco" /\ Params.depCap > 0 /\ DepositOf(ch, base, rent) > Params.depCap * Value

Abs(x) == IF x < 0 THEN -x ELSE x

\* Fault: the noise floor holds for the sublet backfill too.
NoiseAlways(old, new, ignoreNoise) ==
  old.rent > 0 /\ Abs(new.rent - old.rent) * 100 < Params.noise * old.rent
    /\ [new EXCEPT !.rent = old.rent] = old

WithinNoise(old, new, ignoreNoise) ==
  /\ old.rent > 0 /\ ~ignoreNoise
  /\ Abs(new.rent - old.rent) * 100 < Params.noise * old.rent
  /\ [new EXCEPT !.rent = old.rent] = old

\* No baseline, or no price within all bounds.
Blocked(q, cur) ==
  \/ ~HasBase(q)
  \/ RentBounds(cur).floor > RentBounds(cur).ceil

Skip(why) == [skip |-> why, terms |-> NoRun]
Offer(t)  == [skip |-> "none", terms |-> t]

\* The decision up to the deposit cap; it depends on nothing else, and is tabulated.
Price(ch, q, f, cur) ==
  IF Blocked(q, cur) THEN Skip("blocked")
  ELSE LET base == Baseline(q)
           rent == NewRent(base, f, RentBounds(cur))
       IN  IF CapExceeded(ch, base, rent) THEN Skip("blocked") ELSE Offer(TermsFor(ch, base, rent))

Rents == StartRents \cup (Params.minRent .. Params.maxRent)
PriceOf ==
  [ch \in {"eco", "uu"} |-> [q \in Markets |-> [f \in Factors |-> [cur \in Rents |-> Price(ch, q, f, cur)]]]]

Decide(ch, q, f, old, ignoreNoise, cooling) ==
  LET d == PriceOf[ch][q][f][old.rent]
  IN  IF d.skip = "blocked" THEN d
      ELSE IF cooling THEN Skip("cooldown")
      ELSE IF WithinNoise(old, d.terms, ignoreNoise) THEN Skip("noise")
      ELSE d

-----------------------------------------------------------------------------
Idle == cand = NoRun

RepriceTypeOK ==
  /\ channel \in {"eco", "uu"} /\ quotes \in Markets /\ factorNow \in Factors
  /\ drifts \in 0 .. MaxDrifts /\ real \in BOOLEAN
  /\ subletRow \in BOOLEAN /\ recent \in BOOLEAN /\ resting \in BOOLEAN
  /\ \A t \in {shelfTerms, rowTerms} : t.rent \in Nat /\ t.long \in Nat /\ t.dep \in Nat /\ t.days \in Int
  /\ result \in {"none", "accepted", "failed"} /\ answer \in {"none", "ok", "error", "risk"}
  /\ (sending # NoRun \/ result # "none") => cand # NoRun

RepriceInit ==
  /\ channel \in {"eco", "uu"} /\ quotes \in Markets /\ factorNow \in Factors
  /\ drifts = 0 /\ real = TRUE /\ recent = FALSE /\ resting = FALSE
  /\ \E r \in StartRents : rowTerms = [rent |-> r, long |-> 0, dep |-> Value, days |-> Params.dayMin]
  /\ shelfTerms = rowTerms /\ subletRow = FALSE
  /\ cand = NoRun /\ sending = NoRun /\ result = "none" /\ sent = NoRun /\ answer = "none"

-----------------------------------------------------------------------------
(* The job *)

Candidate == [terms |-> rowTerms, sublet |-> subletRow, cooling |-> recent, factor |-> factorNow]

\* ListRepriceCandidates, once the channel has served its cooldown.
ReadCandidate ==
  /\ Idle /\ ~resting /\ cand' = Candidate
  /\ UNCHANGED <<marketVars, shelfTerms, rowTerms, subletRow, recent, resting, sending, result, sent, answer>>

EndOfRun == cand' = NoRun /\ sending' = NoRun /\ result' = "none"

IgnoreNoise == channel = "eco" /\ ~cand.sublet

DecideCandidate ==
  /\ cand # NoRun /\ sending = NoRun /\ ~resting
  /\ LET d == Decide(channel, quotes, cand.factor, cand.terms, IgnoreNoise, cand.cooling)
     IN  IF d.skip # "none" \/ ~real THEN EndOfRun            \* skip, or dry run
         ELSE sending' = d.terms /\ UNCHANGED <<cand, result>>
  /\ UNCHANGED <<marketVars, shelfTerms, rowTerms, subletRow, recent, resting, sent, answer>>

\* The channel rests, or the strategy or the quotes cannot be read.
RepriceStops ==
  /\ cand # NoRun /\ result = "none" /\ EndOfRun
  /\ UNCHANGED <<marketVars, shelfTerms, rowTerms, subletRow, recent, resting, sent, answer>>

\* The adapters report a batch without its per-item results as a partial
\* failure, whatever the client's error was.
AdapterError(err) == "partial"

\* penalize: only the risk errors rest the channel.
RiskCooldown(err) == err = "risk"

SubmitStep ==
  /\ sending # NoRun /\ result = "none" /\ ~resting
  /\ sent' = [terms |-> sending, from |-> cand.terms.rent]

\* RepriceLease: the item is accepted.
SubmitAccepted ==
  /\ SubmitStep /\ result' = "accepted" /\ answer' = "ok" /\ shelfTerms' = sending
  /\ UNCHANGED <<marketVars, rowTerms, subletRow, recent, resting, cand, sending>>

\* The item is refused, the answer has no result for it, or the call fails,
\* possibly after the platform has taken the terms.
SubmitFails(err) ==
  /\ SubmitStep /\ result' = "failed" /\ answer' = err
  /\ shelfTerms' \in (IF err = "risk" THEN {shelfTerms} ELSE {shelfTerms, sending})
  /\ resting' = RiskCooldown(AdapterError(err))
  /\ UNCHANGED <<marketVars, rowTerms, subletRow, recent, cand, sending>>

\* UpdateListingDecision and MarkListingSubletApplied; each may fail.
WriteBack ==
  /\ result = "accepted" /\ EndOfRun
  /\ \/ rowTerms' = sending /\ recent' = TRUE
     \/ UNCHANGED <<rowTerms, recent>>
  /\ subletRow' \in {subletRow, subletRow \/ IgnoreNoise}
  /\ UNCHANGED <<marketVars, shelfTerms, resting, sent, answer>>

RecordFailure ==
  /\ result = "failed" /\ EndOfRun
  /\ UNCHANGED <<marketVars, shelfTerms, rowTerms, subletRow, recent, resting, sent, answer>>

-----------------------------------------------------------------------------
(* Everything else *)

\* The shelf sync mirrors the platform's terms, during a run too.
MirrorTerms ==
  /\ rowTerms' = shelfTerms
  /\ UNCHANGED <<marketVars, shelfTerms, subletRow, recent, resting, cand, sending, result, sent, answer>>

CooldownEnds ==
  /\ \/ recent /\ recent' = FALSE /\ UNCHANGED <<resting, answer>>
     \/ resting /\ resting' = FALSE /\ answer' = "none" /\ UNCHANGED recent
  /\ UNCHANGED <<marketVars, shelfTerms, rowTerms, subletRow, cand, sending, result, sent>>

Drift ==
  /\ drifts < MaxDrifts /\ drifts' = drifts + 1
  /\ \/ quotes' \in Markets /\ UNCHANGED <<factorNow, real>>
     \/ factorNow' \in Factors /\ UNCHANGED <<quotes, real>>
     \/ real' = ~real /\ UNCHANGED <<quotes, factorNow>>
  /\ UNCHANGED <<channel, shelfTerms, rowTerms, subletRow, recent, resting, cand, sending, result, sent, answer>>

RepriceNext ==
  \/ ReadCandidate \/ DecideCandidate \/ RepriceStops
  \/ SubmitAccepted \/ \E err \in {"error", "risk"} : SubmitFails(err)
  \/ WriteBack \/ RecordFailure
  \/ MirrorTerms \/ CooldownEnds \/ Drift

RepriceSpec == RepriceInit /\ [][RepriceNext]_repriceVars

\* Writes that succeed (strongly fair: the database works now and then).
FullWriteBack == WriteBack /\ rowTerms' = sending /\ subletRow' = (subletRow \/ IgnoreNoise)

RepriceFairness ==
  /\ WF_repriceVars(ReadCandidate) /\ WF_repriceVars(RecordFailure \/ WriteBack)
  /\ WF_repriceVars(CooldownEnds) /\ WF_repriceVars(MirrorTerms)
  /\ SF_repriceVars(DecideCandidate)
  /\ SF_repriceVars(SubmitAccepted) /\ SF_repriceVars(FullWriteBack)

-----------------------------------------------------------------------------
(* Properties *)

\* Terms derived from a rent leave no guardrail; the deposit cap is tested before
\* the deposit is rounded to the cent.
WithinGuardrails(ch, t, from) ==
  /\ t.rent \in Params.minRent .. Params.maxRent /\ t.long <= t.rent
  /\ from > 0 => Abs(t.rent - from) * 100 <= Params.maxChange * from
  /\ ch = "eco" => /\ t.rent * t.days <= t.dep
                   /\ Params.depCap > 0 => t.dep * 100 <= Params.depCap * Value + 50

\* Decide: "a price satisfying all bounds", exact to the cent: no submitted rent
\* leaves the absolute bounds or moves further than the change-rate cap, the long
\* price never exceeds it, and the ECO deposit covers the rent of the term within
\* the cap, whatever the market, the factor and earlier lost answers were.
SubmittedTermsAreSafe == sent # NoRun => WithinGuardrails(channel, sent.terms, sent.from)

\* Where the guardrails alone would put the rent for a market and a factor.
RentFloor == Max({Params.minRent, CeilDiv(Params.minLease * Value, 100)})
Target(q, f) == NewRent(Baseline(q), f, [floor |-> RentFloor, ceil |-> Params.maxRent])

Between(x, a, b) == (a <= x /\ x <= b) \/ (b <= x /\ x <= a)

\* Decide, "target rent from baseline x factor": the change-rate cap makes a large
\* move several small ones.  No decision passes the target or turns away from it,
\* whatever rent the mirror shows, and while the cap leaves a cent of room it gets
\* closer, which is why the price settles.
DecisionsApproachTarget ==
  [][LET cur == cand.terms.rent
         goal == Target(quotes, cand.factor)
     IN  DecideCandidate /\ sending' # NoRun /\ cur > 0 =>
           /\ Between(sending'.rent, cur, goal)
           /\ sending'.rent = cur => cur = goal \/ Params.maxChange * cur < 100]_repriceVars

\* "one-shot policy backfills ... where the payload must reach the platform even
\* when the computed price is unchanged", "Leaving the flag false is safe: the
\* next cycle retries": once the market is quiet the listing settles at a price
\* within the noise floor, mirrored and with its sublet policy applied, although
\* answers and writes are lost; unless the guardrails leave no price.
Settled ==
  LET d == PriceOf[channel][quotes][factorNow][rowTerms.rent]
  IN  \/ d.skip = "blocked"
      \/ /\ shelfTerms = rowTerms /\ (channel = "eco" => subletRow)
         /\ Abs(d.terms.rent - rowTerms.rent) * 100 < Params.noise * rowTerms.rent
PriceSettles == RepriceFairness => []<>(real => Settled)

\* penalize: it "puts a channel into cooldown when the platform signalled risk
\* control (rate limit / block / UK expiry / auth expiry)".
RiskAnswerRestsChannel == answer = "risk" => resting
=============================================================================
