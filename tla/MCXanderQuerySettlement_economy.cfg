\* Two agents, one of them owner, treasury and first slasher; a price with a
\* protocol fee of one unit; allowances that are used up and infinite ones.
CONSTANTS
  NumAgents = 2
  MaxSupply = 50
  Infinite = 1000
  Owner = 1
  KB = {kb}
  NoKB = nokb
  Treasury = 1
  QueryFees = {50}
  Amounts = {25, 50}
  Approvals = {50, 1000}
  SlashCaps = {10000, 10001}
CONSTRAINT OneApproval
SPECIFICATION Spec
INVARIANTS StakesBacked SupplyUnderCeiling
PROPERTIES OnlyOwnTokens
