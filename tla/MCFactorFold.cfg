CONSTANTS
  l1 = l1
  l2 = l2
  NoListing = NoListing
  Orders = {1, 2}
  Listings <- TwoListings
  Identities <- OneOrBoth
  Folders = {f1, f2}
  Batch = 2
  FMin = 0
  FMax = 2
  MaxSync = 2
SPECIFICATION Spec
SYMMETRY Symmetry
INVARIANTS TypeOK FoldedAtMostOnce FactorMatchesEvents BoundToMatchingListing
CHECK_DEADLOCK FALSE
