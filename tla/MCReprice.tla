----------------------------- MODULE MCReprice -----------------------------
(* Reprice for TLC: prices of a few cents, so that rounding and the change- *)
(* rate cap decide; no market, one quote, and three of which two are read.  *)
EXTENDS Reprice

CheapParams ==
  [topN |-> 2, k1 |-> 97, k2 |-> 95, k3 |-> 98, minLease |-> 0, fmin |-> 85, fmax |-> 125,
   minRent |-> 5, maxRent |-> 12, maxChange |-> 15, noise |-> 10, depFloor |-> 30,
   depCap |-> 200, ecoDays |-> 2, uuDays |-> 2, dayMin |-> 4, dayMax |-> 9, longFrom |-> 3]

Quote(short, long, dep) == [short |-> short, long |-> long, dep |-> dep]

SmallMarkets == {<<>>, <<Quote(7, 0, 20)>>, <<Quote(11, 10, 0), Quote(14, 0, 0), Quote(5, 9, 9)>>}
=============================================================================
