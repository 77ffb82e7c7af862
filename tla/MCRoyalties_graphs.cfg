\* Every graph of three assets.  3600 divides evenly along all their paths.
CONSTANTS
  NumIds = 3
  NumCreators = 2
  Creator <- Creators
  BaseRoyalties = {0, 90}
  Lineages <- Lists
  Payment = 3600
CHECK_DEADLOCK FALSE
SPECIFICATION GraphSpec
INVARIANTS ValidationExact EstimateWithinPayment ContractPaysEstimate
