CONSTANTS
  Assets = {a1, a2}
  Grace = 1
  MaxChanges = 1
SPECIFICATION FairSpec
PROPERTY RoutedCopyIsListed
