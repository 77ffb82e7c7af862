\* A parent whose curator is a contract that refuses ether.
CONSTANTS
  NumKB = 2
  Account = {ann, bob}
  Zero = zero
  ParentLists <- OneParent
  Contract = {ann}
  Fees = {10}
  Ratios = {}
  EtherSupply = 10
SPECIFICATION Spec
INVARIANTS AllParentsPaid
