\* Two curators, three Knowledge Blocks, one of which may be fought over;
\* penalties that take a part of a pool and more than all of it.
CONSTANTS
  NumKB = 3
  Account = {ann, bob}
  Zero = zero
  ParentLists <- NoParents
  Amounts = {1, 2}
  Penalties = {1, 9}
  LockPeriod = 1
  EtherSupply = 4
  MaxTime = 2
SPECIFICATION Spec
INVARIANTS AllocationsExact StakedIsCovered
PROPERTIES EtherLeavesFreed
\* The owner may forfeit all the ether of the instance: nobody can add more then.
CHECK_DEADLOCK FALSE
