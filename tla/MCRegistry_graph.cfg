\* Three hashes published in every order with every list of at most two parents;
\* scores under queries, endorsements, outcomes and the queries of derived blocks
\* while at most two are published.
CONSTANTS
  NumKB = 3
  Account = {alice, bob}
  Contract = {}
  Self = self
  Zero = zero
  Owner = alice
  LinkLists <- GraphLinkLists
  QueryFees = {10}
  Deposits = {0}
  KBTypes = {practice, rubric}
  Domains = {software}
  FeeChoices = {}
  SlashChoices = {}
  MinStakeChoices = {0}
  LockPeriod = 0
  UInt16Max = 65535
  UInt32Max = 3
  EtherSupply = 10
  MaxTime = 0
  MaxOpinions = 2
CONSTRAINT CountedInPairs
SPECIFICATION Spec
INVARIANTS ProvenanceAcyclic IndexesExact ScoreLagsOnlyInVolume
