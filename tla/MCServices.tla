----------------------------- MODULE MCServices -----------------------------
(* The services around the reconciler and the scheduler for TLC, each on its *)
(* own small instance: `part` picks one at the start, and the others stay at *)
(* one of their initial states.  A liveness property carries the fairness of *)
(* its own component.                                                        *)
EXTENDS SteamSession, Registry, Delivery, Ledger, OrderWindow, MCReprice, PanelAuth,
        Strategies, Bootstrap

VARIABLE part

Parts == {"steam", "registry", "delivery", "ledger", "window", "reprice", "panel",
          "strategies", "bootstrap"}

\* Bounds on the initial states: two orders, or one order and a foreign offer;
\* the ledger's orders begin with one amount and one category.
DeliveryStarts ==
  \/ \A f \in Foreign : offer[f] = "none" /\ costly = {} /\ \A o \in Orders : ordState[o] = "unsent"
  \/ \A o \in Orders : ordState[o] = "gone" <=> o \in RentOrders
LedgerStarts ==
  \A i, j \in OrderIds : leaseRow[i].amount = 1 /\ tplCat[i] = tplCat[j]

ServicesInit ==
  /\ part \in Parts
  /\ SteamInit /\ (part = "steam" \/ dbCreds = NoAccount)
  /\ RegistryInit /\ (part = "registry" \/ dbUU = None)
  /\ DeliveryInit /\ IF part = "delivery" THEN DeliveryStarts
                     ELSE costly = Foreign /\ \A x \in AllOffers : offer[x] = "none" /\ (x \in Orders => ordState[x] = "gone")
  /\ LedgerInit /\ LedgerStarts
  /\ (part = "ledger" \/ \A i \in OrderIds : leaseRow[i].status = "open" /\ tplCat[i] = CHOOSE c \in Categories : TRUE)
  /\ WindowInit /\ (part = "window" \/ \A o \in Leases : lease[o] = "none")
  /\ RepriceInit
  /\ (part = "reprice" \/ (channel = "uu" /\ quotes = <<>> /\ factorNow = 100 /\ rowTerms.rent = 10))
  /\ PanelInit /\ (part = "panel" \/ adminHash.pw = CHOOSE p \in Passwords : TRUE)
  /\ StrategyInit /\ (part = "strategies" \/ (globalRow.params = [min |-> 1, max |-> 1] /\ ~globalRow.real))
  /\ BootInit

\* Every part but p stands still.
Only(p) ==
  /\ part = p /\ part' = part
  /\ IF p = "steam" THEN TRUE ELSE UNCHANGED steamVars
  /\ IF p = "registry" THEN TRUE ELSE UNCHANGED registryVars
  /\ IF p = "delivery" THEN TRUE ELSE UNCHANGED deliveryVars
  /\ IF p = "ledger" THEN TRUE ELSE UNCHANGED ledgerVars
  /\ IF p = "window" THEN TRUE ELSE UNCHANGED windowVars
  /\ IF p = "reprice" THEN TRUE ELSE UNCHANGED repriceVars
  /\ IF p = "panel" THEN TRUE ELSE UNCHANGED panelVars
  /\ IF p = "strategies" THEN TRUE ELSE UNCHANGED strategyVars
  /\ IF p = "bootstrap" THEN TRUE ELSE UNCHANGED bootVars

ServicesNext ==
  \/ part = "steam" /\ SteamNext /\ Only("steam")
  \/ part = "registry" /\ RegistryNext /\ Only("registry")
  \/ part = "delivery" /\ DeliveryNext /\ Only("delivery")
  \/ part = "ledger" /\ LedgerNext /\ Only("ledger")
  \/ part = "window" /\ WindowNext /\ Only("window")
  \/ part = "reprice" /\ RepriceNext /\ Only("reprice")
  \/ part = "panel" /\ PanelNext /\ Only("panel")
  \/ part = "strategies" /\ StrategyNext /\ Only("strategies")
  \/ part = "bootstrap" /\ BootNext /\ Only("bootstrap")

servicesVars == <<part, steamVars, registryVars, deliveryVars, ledgerVars, windowVars,
                  repriceVars, panelVars, strategyVars, bootVars>>

ServicesSpec == ServicesInit /\ [][ServicesNext]_servicesVars

\* Every service keeps its state well formed.
ServicesTypeOK ==
  /\ SteamTypeOK /\ RegistryTypeOK /\ DeliveryTypeOK /\ LedgerTypeOK /\ WindowTypeOK
  /\ RepriceTypeOK /\ PanelTypeOK /\ StrategyTypeOK /\ BootTypeOK
=============================================================================
