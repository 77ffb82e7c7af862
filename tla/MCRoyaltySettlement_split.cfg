\* A fee that does not divide evenly, a ratio that is accepted and one that is not,
\* and a contract that registers parents
\* and changes ratios whenever it is paid.
CONSTANTS
  NumKB = 3
  Account = {ann, bob}
  Zero = zero
  ParentLists <- SomeParents
  Contract = {ann}
  Fees = {7}
  Ratios = {5000, 20000}
  EtherSupply = 10
SPECIFICATION Spec
INVARIANTS SpendsOwnFee EstimateHonoured
