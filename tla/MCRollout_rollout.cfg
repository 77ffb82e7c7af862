\* Two seeds, two crashes of either script (so up to three deployments), and a
\* stranger who registers the first seed on one of the contracts.
CONSTANTS
  NumSeeds = 2
  Sources <- SeedSources
  StrangerSeeds = {1}
  Deployer = deployer
  Stranger = stranger
  None = none
  MaxRedeploys = 0
  MaxCrashes = 2
  MaxStrangers = 1
CHECK_DEADLOCK FALSE
SPECIFICATION RolloutSpec
INVARIANTS SeedsFollowSources IndexIsComplete
PROPERTIES RolloutCompletes
