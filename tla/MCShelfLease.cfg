CONSTANTS
  Goods = {g1, g2}
  NoGoods = NoGoods
  Syncers = {s1}
  FeedShowsLeased = TRUE
  MaxClock = 6
SPECIFICATION Spec
INVARIANT EndedLeaseIsReevaluated
CHECK_DEADLOCK FALSE
