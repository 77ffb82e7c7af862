\* Two clients, two roots that others publish, and one block more; the fee is
\* lowered to nothing and raised above 200, the minimum stake is raised from the
\* default of --stake, one curator refuses ether at times, one of these at a time, and
\* a counter is full at 3; a query sees two blocks at most.
CONSTANTS
  NumKB = 3
  LowHashes = 0
  Body = {"text", "bare"}
  Domainless = {"bare"}
  Bps = 10000
  MaxFeeBps = 1000
  Client = {c1, c2}
  Inputs <- DerivedInputs
  Envelopes <- Files
  ParentNames <- TwoParents
  Stakes = {1}
  Intents <- SomeIntents
  Scores = {0, 1}
  FeeLevels = {0, 200, 300}
  FirstMinStake = 1
  MinStakes = {2}
  Refusers = {1}
  UInt32Max = 3
  Price = 100
  MaxCandidates = 2
CONSTRAINTS InOrder OneChange
SPECIFICATION ClientSpec
INVARIANTS SharesByWeight AnswersAreEligible
PROPERTIES DerivedFailsForCause SettleFailsForCause CallsEnd
