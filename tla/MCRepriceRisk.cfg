CONSTANTS
  Params <- CheapParams
  Value = 22
  Markets <- SmallMarkets
  Factors = {100, 120}
  StartRents = {4, 10}
  NoRun = NoRun
  MaxDrifts = 1
SPECIFICATION RepriceSpec
INVARIANT RiskAnswerRestsChannel
