\* A curator's contract is paid, and calls back, in the middle of settlements and
\* withdrawals (ByCallbacks: EtherSupply is the fee and two deposits); or deposits,
\* lock periods, slashing at two rates and withdrawals (ByStakes).
CONSTANTS
  NumKB = 2
  Account = {alice, bob}
  Contract = {bob}
  Self = self
  Zero = zero
  Owner = bob
  LinkLists <- FeeLinkLists
  QueryFees = {0, 10}
  Deposits = {3}
  KBTypes = {practice}
  Domains = {software}
  FeeChoices = {1000}
  SlashChoices = {5000}
  MinStakeChoices = {0, 3, 6}
  LockPeriod = 1
  UInt16Max = 65535
  UInt32Max = 2
  EtherSupply = 16
  MaxTime = 2
  MaxOpinions = 0
CONSTRAINT PaymentsOrStakes
SPECIFICATION Spec
INVARIANTS TypeOK Solvent PaymentsCovered
PROPERTIES SettlementIsAtomic SlashedStakeStays StakeLeavesLawfully
