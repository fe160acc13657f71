CONSTANTS
  Procs = {p1, p2}
  NoProc = NoProc
  Jobs = {j1, j2}
  l1 = l1
  l2 = l2
  NoListing = NoListing
  f1 = f1
  a1 = a1
SPECIFICATION LiveSpec
INVARIANTS ExclusiveWithoutFaults
PROPERTIES EntryHoldsLock OverlapEnds NoticedLossFreesLock FoldableIsFolded MisplacedIsDelisted
