CONSTANTS
  Assets = {a1, a2}
  Grace = 2
  MaxChanges = 2
SPECIFICATION Spec
SYMMETRY Symmetry
INVARIANTS ObservationIsContinuous PublishesAreFree
PROPERTY SettledPlanIsEmpty
