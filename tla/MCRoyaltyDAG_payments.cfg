\* Three assets: chains, a parent with two descendants, a loop above another asset.
\* Rates of a third and of more than the whole; amounts that leave a remainder.
CONSTANTS
  Asset = {a1, a2, a3}
  NumAccounts = 1
  Whole = 3
  Rates = {1, 4}
  ParentLists <- Lists
  Amounts = {2, 3}
  MaxEther = 5
  MaxCalls = 6
SYMMETRY Ids
CHECK_DEADLOCK FALSE
SPECIFICATION Spec
INVARIANTS Solvent OnlySelfLoops
PROPERTIES SelfParentTakesNoPayment
