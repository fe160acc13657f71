CONSTANTS
  Goods = {g1, g2}
  NoGoods = NoGoods
  Syncers = {s1, s2}
  FeedShowsLeased = TRUE
  MaxClock = 5
SPECIFICATION Spec
SYMMETRY Symmetry
INVARIANT Converged
PROPERTY SnapshotKeepsOwnWrites
CHECK_DEADLOCK FALSE
