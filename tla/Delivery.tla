------------------------------ MODULE Delivery ------------------------------
(***************************************************************************)
(* Fulfilment of ECO orders: RunECODelivery (sale pass, rent pass, one     *)
(* click), the Steam offers it accepts and confirms, the job that accepts  *)
(* zero-cost offers, and ECO's risk cooldown.                              *)
(*                                                                         *)
(* A platform call is a step: it may fail without or with its effect, and  *)
(* a risk error ends the pass and sets the cooldown.  steam.Session.mu is  *)
(* held over one acceptTradeOffer, which is one step.  An order's offer    *)
(* carries the order's name.                                               *)
(***************************************************************************)
EXTENDS Naturals, FiniteSets

CONSTANTS
  SaleOrders, RentOrders, \* ECO orders
  Foreign,                \* offers ECO knows nothing of
  NoOrder,
  AcceptedMax,            \* acceptedSetMax
  Penalties,              \* riskCooldown's lengths
  MaxFaults               \* bound on risk errors and restarts together

Orders    == SaleOrders \cup RentOrders
AllOffers == Orders \cup Foreign

ASSUME DeliveryAssumption ==
  /\ SaleOrders \cap RentOrders = {} /\ Orders \cap Foreign = {} /\ NoOrder \notin Orders
  /\ AcceptedMax \in Nat /\ MaxFaults \in Nat
  /\ Penalties \subseteq Nat \ {0}

VARIABLES
  ordState,   \* ECO: unsent, sent (id not visible), ready (visible), gone
  offer,      \* Steam: none, active, confirm, accepted, dead
  costly,     \* the foreign offers that take something from us
  given,      \* history: offers this program brought to "accepted"
  accepted,   \* EcoDeliveryDeps.accepted
  recorded,   \* history: orders with an order.delivered audit entry
  pass,       \* the run: idle, sale or rent
  todoSet,    \* orders of the pass still to do
  unsentSeen, \* orders the list showed as not sent
  curOrder, stage, \* the order being worked on and its next call
  failed,     \* the run collected an error
  zeroList,   \* zero-cost offers AcceptZeroCostOffers still has to accept
  cool, risks, restarts

runVars      == <<pass, todoSet, unsentSeen, curOrder, stage, failed>>
riskVars     == <<cool, risks>>
deliveryVars == <<ordState, offer, costly, given, accepted, recorded, pass, todoSet,
                  unsentSeen, curOrder, stage, failed, zeroList, cool, risks, restarts>>

DeliveryTypeOK ==
  /\ ordState \in [Orders -> {"unsent", "sent", "ready", "gone"}]
  /\ offer \in [AllOffers -> {"none", "active", "confirm", "accepted", "dead"}]
  /\ costly \subseteq Foreign /\ given \subseteq AllOffers /\ zeroList \subseteq Foreign \ costly
  /\ accepted \subseteq Orders /\ recorded \subseteq Orders
  /\ Cardinality(accepted) <= AcceptedMax \/ Cardinality(accepted) = 1
  /\ pass \in {"idle", "sale", "rent"} /\ stage \in {"next", "send", "detail", "accept"}
  /\ todoSet \subseteq Orders /\ unsentSeen \subseteq Orders /\ curOrder \in Orders \cup {NoOrder}
  /\ failed \in BOOLEAN /\ cool \in {0} \cup UNION {0 .. p : p \in Penalties}
  /\ risks \in Nat /\ restarts \in Nat /\ risks + restarts <= MaxFaults

\* Some orders wait for delivery; a stranger's offer may be there too, and the
\* operator may have accepted it in the Steam app, which leaves its confirmation
\* pending.
DeliveryInit ==
  /\ ordState \in [Orders -> {"unsent", "gone"}]
  /\ offer \in [AllOffers -> {"none", "active", "confirm"}]
  /\ \A o \in Orders : offer[o] = "none"
  /\ costly \in SUBSET Foreign /\ given = {} /\ accepted = {} /\ recorded = {}
  /\ pass = "idle" /\ todoSet = {} /\ unsentSeen = {} /\ curOrder = NoOrder /\ stage = "next"
  /\ failed = FALSE /\ zeroList = {} /\ cool = 0 /\ risks = 0 /\ restarts = 0

-----------------------------------------------------------------------------
(* Cooldown *)

\* Fault: the last error wins.
PenalizeOverwrites(p) ==
  /\ risks + restarts < MaxFaults /\ risks' = risks + 1
  /\ cool' = p

\* penalize: the later end wins.
Penalize(p) ==
  /\ risks + restarts < MaxFaults /\ risks' = risks + 1
  /\ cool' = IF p > cool THEN p ELSE cool

ChannelReady == cool = 0

\* A risk error of the platform, or ErrRateLimited from liveECOClient: the run
\* returns; `ErrRateLimited` itself was not penalised again.
RunReturns ==
  /\ pass' = "idle" /\ todoSet' = {} /\ unsentSeen' = {} /\ curOrder' = NoOrder
  /\ stage' = "next" /\ failed' = FALSE

\* The next call of the run meets the cooldown or draws a risk error.
RiskEndsRun ==
  /\ pass # "idle" /\ stage # "accept"
  /\ \/ ~ChannelReady /\ UNCHANGED riskVars
     \/ ChannelReady /\ \E p \in Penalties : Penalize(p)
  /\ RunReturns
  /\ UNCHANGED <<ordState, offer, costly, given, accepted, recorded, zeroList, restarts>>

\* Reprice, reconcile and sync report ECO errors too.
OtherJobPenalizes(p) ==
  /\ Penalize(p)
  /\ UNCHANGED <<ordState, offer, costly, given, accepted, recorded, runVars, zeroList, restarts>>

TimePasses ==
  /\ cool > 0 /\ cool' = cool - 1
  /\ UNCHANGED <<ordState, offer, costly, given, accepted, recorded, runVars, zeroList, risks, restarts>>

-----------------------------------------------------------------------------
(* The run *)

\* Continue with the next order.
Continue(o, err) ==
  /\ todoSet' = todoSet \ {o} /\ curOrder' = NoOrder /\ stage' = "next"
  /\ failed' = (failed \/ err)
  /\ UNCHANGED <<pass, unsentSeen>>

Listed(os) == {o \in os : ordState[o] # "gone"}

\* SellerOrderList; ecoDeliveryFn has checked the gate and the cooldown.
ListSaleOrders ==
  /\ pass = "idle" /\ ChannelReady
  /\ pass' = "sale" /\ todoSet' = Listed(SaleOrders)
  /\ unsentSeen' = {o \in Listed(SaleOrders) : ordState[o] = "unsent"}
  /\ UNCHANGED <<ordState, offer, costly, given, accepted, recorded, curOrder, stage, failed,
                 zeroList, riskVars, restarts>>

\* SellerRentOrderList; an ordinary error only skips the pass.
ListRentOrders ==
  /\ pass = "sale" /\ todoSet = {} /\ ChannelReady
  /\ \/ pass' = "rent" /\ todoSet' = Listed(RentOrders) /\ UNCHANGED failed
     \/ pass' = "rent" /\ todoSet' = {} /\ failed' = TRUE
  /\ unsentSeen' = {}
  /\ UNCHANGED <<ordState, offer, costly, given, accepted, recorded, curOrder, stage, zeroList,
                 riskVars, restarts>>

\* RunECODelivery returns; OneClickResolveOffer follows only a run without
\* errors, and asks ECO to send what is not sent.
FinishRun ==
  /\ pass = "rent" /\ todoSet = {}
  /\ RunReturns
  /\ \/ UNCHANGED <<ordState, offer>>
     \/ /\ ~failed /\ ChannelReady
        /\ \E os \in SUBSET {o \in Orders : ordState[o] = "unsent"} :
             /\ ordState' = [o \in Orders |-> IF o \in os THEN "sent" ELSE ordState[o]]
             /\ offer' = [x \in AllOffers |-> IF x \in os THEN "active" ELSE offer[x]]
  /\ UNCHANGED <<costly, given, accepted, recorded, zeroList, riskVars, restarts>>

\* SendOffer reaches ECO: the offer exists on Steam.
OfferSent(o) ==
  /\ ordState[o] = "unsent" /\ ordState' = [ordState EXCEPT ![o] = "sent"]
  /\ \E s \in {"active", "confirm"} : offer' = [offer EXCEPT ![o] = s]

\* Sale orders: SendOffer, then the detail of the same order.
SaleSend(o) ==
  /\ pass = "sale" /\ stage = "next" /\ o \in todoSet \cap unsentSeen /\ ChannelReady
  /\ \/ OfferSent(o) /\ curOrder' = o /\ stage' = "detail" /\ UNCHANGED <<pass, todoSet, unsentSeen, failed>>
     \/ OfferSent(o) /\ Continue(o, TRUE)
     \/ UNCHANGED <<ordState, offer>> /\ Continue(o, TRUE)
  /\ UNCHANGED <<costly, given, accepted, recorded, zeroList, riskVars, restarts>>

\* What the loop does with a visible offer id.
Resolve(o) ==
  IF o \in accepted THEN Continue(o, FALSE)
  ELSE curOrder' = o /\ stage' = "accept" /\ UNCHANGED <<pass, todoSet, unsentSeen, failed>>

SaleDetail(o) ==
  /\ pass = "sale" /\ ChannelReady
  /\ \/ stage = "next" /\ o \in todoSet \ unsentSeen
     \/ stage = "detail" /\ curOrder = o
  /\ \/ Continue(o, TRUE)
     \/ ordState[o] = "ready" /\ Resolve(o)
     \/ ordState[o] # "ready" /\ Continue(o, FALSE)
  /\ UNCHANGED <<ordState, offer, costly, given, accepted, recorded, zeroList, riskVars, restarts>>

\* Rent orders: the detail first; SendOffer when the seller has to send it.
RentDetail(o) ==
  /\ pass = "rent" /\ stage = "next" /\ o \in todoSet /\ ChannelReady
  /\ \/ Continue(o, TRUE)
     \/ ordState[o] = "ready" /\ Resolve(o)
     \/ ordState[o] = "unsent" /\ curOrder' = o /\ stage' = "send"
        /\ UNCHANGED <<pass, todoSet, unsentSeen, failed>>
     \/ ordState[o] \notin {"ready", "unsent"} /\ Continue(o, FALSE)
  /\ UNCHANGED <<ordState, offer, costly, given, accepted, recorded, zeroList, riskVars, restarts>>

RentSend(o) ==
  /\ pass = "rent" /\ stage = "send" /\ curOrder = o /\ ChannelReady
  /\ \/ OfferSent(o) /\ \E err \in BOOLEAN : Continue(o, err)
     \/ UNCHANGED <<ordState, offer>> /\ Continue(o, TRUE)
  /\ UNCHANGED <<costly, given, accepted, recorded, zeroList, riskVars, restarts>>

-----------------------------------------------------------------------------
(* steam.Session *)

\* Fault: a confirmation of some other trade matches.
AnyConfirmation(x, offs) == {y \in AllOffers : offs[y] = "confirm"}

\* confirmTradeOffer: the pending confirmation whose creator_id is the offer id.
MatchingConfirmation(x, offs) == {y \in AllOffers : offs[y] = "confirm" /\ y = x}

\* allowConfirmation
Allowed(y, offs) == [offs EXCEPT ![y] = "accepted"]

\* Fault: the error of the confirmation is dropped.
ConfirmUnchecked(x, offs) ==
  {<<offs, TRUE>>} \cup ({Allowed(y, offs) : y \in MatchingConfirmation(x, offs)} \X {TRUE})

\* The confirmation fails, or is allowed with the answer seen (TRUE) or lost.
ConfirmOutcomes(x, offs) ==
  {<<offs, FALSE>>} \cup ({Allowed(y, offs) : y \in MatchingConfirmation(x, offs)} \X BOOLEAN)

\* acceptTradeOffer: the offers afterwards and the result.
AcceptOutcomes(x) ==
  CASE offer[x] = "accepted" -> {<<offer, TRUE>>, <<offer, FALSE>>}
    [] offer[x] = "confirm"  -> ConfirmOutcomes(x, offer)
    [] offer[x] = "active"   ->
         {<<offer, FALSE>>}
           \cup {<<[offer EXCEPT ![x] = "accepted"], ok>> : ok \in BOOLEAN}
           \cup ConfirmOutcomes(x, [offer EXCEPT ![x] = "confirm"])
    [] OTHER -> {<<offer, FALSE>>}

Given(offs) == given \cup {x \in AllOffers : offs[x] = "accepted" /\ offer[x] # "accepted"}

\* Fault: an order is marked as handled although the acceptance failed.
MarkAttempted(o) == accepted' = accepted \cup {o}

NotMarked(o) == UNCHANGED accepted

\* Fault: the set is never reset.
MarkAcceptedForever(o) == accepted' = accepted \cup {o} /\ recorded' = recorded \cup {o}

\* markAccepted: the set is reset when it outgrows its cap.
MarkAccepted(o) ==
  /\ accepted' = IF Cardinality(accepted \cup {o}) > AcceptedMax THEN {o} ELSE accepted \cup {o}
  /\ recorded' = recorded \cup {o}

AcceptOrder(o) ==
  /\ stage = "accept" /\ curOrder = o
  /\ \E r \in AcceptOutcomes(o) :
       /\ offer' = r[1] /\ given' = Given(r[1])
       /\ IF r[2] THEN MarkAccepted(o) ELSE NotMarked(o) /\ UNCHANGED recorded
       /\ Continue(o, ~r[2])
  /\ UNCHANGED <<ordState, costly, zeroList, riskVars, restarts>>

\* AcceptZeroCostOffers: the offers that take nothing from us.
ListReceivedOffers ==
  /\ zeroList = {}
  /\ zeroList' = {f \in Foreign \ costly : offer[f] \in {"active", "confirm"}}
  /\ UNCHANGED <<ordState, offer, costly, given, accepted, recorded, runVars, riskVars, restarts>>

\* The offer is checked again before it is accepted; an error ends the job.
AcceptZeroCost(f) ==
  /\ f \in zeroList
  /\ \E r \in AcceptOutcomes(f) :
       /\ offer' = r[1] /\ given' = Given(r[1])
       /\ zeroList' = IF r[2] THEN zeroList \ {f} ELSE {}
  /\ UNCHANGED <<ordState, costly, accepted, recorded, runVars, riskVars, restarts>>

-----------------------------------------------------------------------------
(* ECO, Steam and the trade partners *)

OfferIdVisible(o) ==
  /\ ordState[o] = "sent" /\ ordState' = [ordState EXCEPT ![o] = "ready"]
  /\ UNCHANGED <<offer, costly, given, accepted, recorded, runVars, zeroList, riskVars, restarts>>

\* The trade is settled, or the offer was withdrawn and the order cancelled.
OrderLeaves(o) ==
  /\ ordState[o] = "ready" /\ ordState' = [ordState EXCEPT ![o] = "gone"]
  /\ offer' = [offer EXCEPT ![o] = IF @ = "accepted" THEN @ ELSE "dead"]
  /\ UNCHANGED <<costly, given, accepted, recorded, runVars, zeroList, riskVars, restarts>>

\* The process restarts: the run and the accepted set are lost.
Restart ==
  /\ risks + restarts < MaxFaults /\ restarts' = restarts + 1
  /\ RunReturns /\ accepted' = {} /\ zeroList' = {} /\ cool' = 0
  /\ UNCHANGED <<ordState, offer, costly, given, recorded, risks>>

DeliveryNext ==
  \/ ListSaleOrders \/ ListRentOrders \/ FinishRun \/ RiskEndsRun
  \/ \E o \in Orders : SaleSend(o) \/ SaleDetail(o) \/ RentDetail(o) \/ RentSend(o) \/ AcceptOrder(o)
  \/ ListReceivedOffers \/ \E f \in Foreign : AcceptZeroCost(f)
  \/ \E p \in Penalties : OtherJobPenalizes(p)
  \/ TimePasses \/ Restart
  \/ \E o \in Orders : OfferIdVisible(o) \/ OrderLeaves(o)

\* The job's own steps (weakly fair: the scheduler starts it every few minutes).
JobStep ==
  \/ ListSaleOrders \/ ListRentOrders \/ FinishRun \/ RiskEndsRun
  \/ \E o \in Orders : SaleSend(o) \/ SaleDetail(o) \/ RentDetail(o) \/ RentSend(o) \/ AcceptOrder(o)

\* Calls that succeed now and then (strongly fair), order by order.
RentListed  == ListRentOrders /\ todoSet' = Listed(RentOrders)
Resolved(o) == (SaleDetail(o) \/ RentDetail(o)) /\ stage' = "accept"
Accepted(o) == AcceptOrder(o) /\ recorded' = recorded \cup {o}

DeliveryFairness ==
  /\ WF_deliveryVars(TimePasses) /\ WF_deliveryVars(JobStep) /\ SF_deliveryVars(RentListed)
  /\ \A o \in Orders : SF_deliveryVars(Resolved(o)) /\ SF_deliveryVars(Accepted(o))

DeliverySpec == DeliveryInit /\ [][DeliveryNext]_deliveryVars

-----------------------------------------------------------------------------
(* Properties *)

\* acceptTradeOffer, confirmTradeOffer: an offer that takes something from us is
\* brought to acceptance only when ECO named it; a confirmation pending for
\* another trade is never allowed, whatever runs at the same time.
OnlyAuthorisedGiven == given \cap costly = {}

\* penalize: a shorter penalty of one job never cuts a longer one of another.
CooldownIsKept ==
  [][cool' < cool => \/ cool' = cool - 1 /\ risks' = risks
                     \/ restarts' > restarts]_deliveryVars

\* markAccepted, order.delivered: an order is skipped as handled, and its delivery
\* is on record, only when its own Steam offer really was accepted, although an
\* answer may be lost, ECO resends unsent offers and the accepted set is reset.
MarkedIsDelivered == accepted \subseteq recorded /\ \A o \in recorded : offer[o] = "accepted"

\* RunECODelivery: "continue" after an ordinary error, "not marked as handled:
\* retried on the next cycle" after a failed acceptance.  An order whose own
\* calls succeed now and then is accepted and recorded, although another order
\* fails every time, answers are lost, the accepted set overflows and the process
\* restarts; unless ECO takes it off the list first.
DeliveredInTheEnd ==
  DeliveryFairness =>
    []<>(\A o \in Orders : ordState[o] = "ready" => o \in recorded)
=============================================================================
