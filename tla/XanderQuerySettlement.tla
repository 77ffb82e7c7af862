------------------------ MODULE XanderQuerySettlement ------------------------
(***************************************************************************)
(* The token economy: XanderToken, KYAStaking and XanderQuerySettlement    *)
(* (packages/protocol/contracts/XanderQuerySettlement.sol) together, over  *)
(* the prices and curators of the Knowledge Block registry.                *)
(***************************************************************************)
EXTENDS KYAStaking

CONSTANTS
  KB,            \* content hashes
  NoKB,          \* an unregistered hash's entry
  Treasury,      \* the immutable recipient of the protocol fee
  QueryFees,     \* the prices that blocks are published with
  Amounts,       \* the amounts that the functions are called with
  Approvals,     \* the amounts that are approved
  SlashCaps      \* what setMaxSlashPercentBps is called with

ASSUME XanderQuerySettlementAssumption ==
  /\ Treasury \in Agent
  /\ QueryFees \subseteq Nat /\ Amounts \subseteq Nat
  /\ Approvals \subseteq Nat /\ SlashCaps \subseteq Nat
  /\ NoKB \notin [curator : Agent, queryFee : Nat]

VARIABLES
  blocks,        \* what the registry answers: curator and price, written once
  sender         \* who sent the last transaction

vars == << tokenVars, stakingVars, blocks, sender >>

ProtocolFeeBps == 200

Init ==
  /\ InitToken /\ InitStaking
  /\ blocks = [h \in KB |-> NoKB]
  /\ sender = Owner

-----------------------------------------------------------------------------
\* A publication, as far as getKnowledgeBlock shows it: nothing changes the
\* curator or the price of a block afterwards, and slashing does not remove it.
publishKB(h, curator, fee) ==
  /\ blocks[h] = NoKB
  /\ blocks' = [blocks EXCEPT ![h] = [curator |-> curator, queryFee |-> fee]]
  /\ UNCHANGED << tokenVars, stakingVars >>

ProtocolFee(fee) == (fee * ProtocolFeeBps) \div Whole

\* Two movements out of payer's tokens, the second after the first; a
\* movement of nothing changes nothing.
PayFee(payer, curator, fee) ==
  LET protocolFee == ProtocolFee(fee)
      toCurator   == fee - protocolFee
      balances    == Moved(balanceOf, payer, curator, toCurator)
      allowed     == Spent(allowance, payer, Settler, toCurator)
  IN  /\ toCurator <= allowance[payer][Settler] /\ toCurator <= balanceOf[payer]
      /\ protocolFee <= allowed[payer][Settler] /\ protocolFee <= balances[payer]
      /\ balanceOf' = Moved(balances, payer, Treasury, protocolFee)
      /\ allowance' = Spent(allowed, payer, Settler, protocolFee)
      /\ UNCHANGED << totalSupply, totalMinted, stakingVars, blocks >>

\* Mutant: the querier that the caller names pays.
settleQueryAsNamed(caller, h, querier) ==
  /\ blocks[h] # NoKB /\ blocks[h].queryFee > 0
  /\ PayFee(querier, blocks[h].curator, blocks[h].queryFee)

\* The caller pays, whoever is named as the querier.
settleQuery(caller, h, querier) ==
  /\ blocks[h] # NoKB /\ blocks[h].queryFee > 0
  /\ PayFee(caller, blocks[h].curator, blocks[h].queryFee)

-----------------------------------------------------------------------------
\* A transaction of a with the token.
TokenCall(a) ==
  \/ \E y \in Address, v \in Amounts : mint(a, y, v) \/ transfer(a, y, v)
  \/ \E y \in Address, v \in Approvals : approve(a, y, v)
  \/ \E x \in Address, y \in Address, v \in Amounts : transferFrom(a, x, y, v)
  \/ \E v \in Amounts : burn(a, v)
  \/ \E x \in Address, v \in Amounts : burnFrom(a, x, v)

StakingCall(a) ==
  \/ \E v \in Amounts : stake(a, v) \/ unstake(a, v)
  \/ \E x \in Agent, v \in Amounts : slash(a, x, v)
  \/ \E x \in Agent, v \in Amounts, y \in Address : slashAndRedistribute(a, x, v, y)
  \/ \E bps \in SlashCaps : setMaxSlashPercentBps(a, bps)
  \/ \E x \in Agent : setSlasher(a, x)

Next ==
  \E a \in Agent :
    /\ sender' = a
    /\ \/ TokenCall(a) /\ UNCHANGED << stakingVars, blocks >>
       \/ StakingCall(a) /\ UNCHANGED blocks
       \/ \E h \in KB, c \in Agent, fee \in QueryFees : publishKB(h, c, fee)
       \/ \E h \in KB, q \in Agent : settleQuery(a, h, q)

Spec == Init /\ [][Next]_vars

-----------------------------------------------------------------------------
TypeOK ==
  /\ balanceOf \in [Address -> Nat]
  /\ allowance \in [Address -> [Address -> Nat]]
  /\ totalSupply \in Nat /\ totalMinted \in Nat
  /\ stakes \in [Agent -> Nat] /\ totalStaked \in Nat
  /\ slasher \in Agent /\ maxSlashPercentBps \in 0 .. Whole
  /\ blocks \in [KB -> [curator : Agent, queryFee : Nat] \cup {NoKB}]
  /\ sender \in Agent

\* Whatever agents, slashers and settlements do, every stake can be paid out:
\* the stakes add up to totalStaked and the pool holds that many tokens
\* (KYAStaking.sol 53-132, Token.sol 48-69).
StakesBacked ==
  /\ totalStaked = SumTo(stakes, NumAgents)
  /\ totalStaked <= balanceOf[Pool]

\* Tokens are neither lost nor made by moving them, and burning makes no room
\* under the ceiling (Token.sol 37-69).
SupplyUnderCeiling ==
  /\ totalSupply = SumTo(balanceOf, Settler)
  /\ totalSupply <= totalMinted /\ totalMinted <= MaxSupply

\* What a owns, staked or not.
Wealth(a) == balanceOf[a] + stakes[a]

\* Nobody loses tokens by another's transaction, except to a spender who was
\* approved in person, or to the slasher: then only staked tokens, and at most the
\* cap.  In particular the approvals that the two contracts hold, even infinite
\* ones, are of no use to anybody else (KYAStaking.sol 53-132,
\* XanderQuerySettlement.sol 33-48).
OnlyOwnTokens ==
  [][\A a \in Agent :
       Wealth(a)' < Wealth(a) =>
         \/ sender' = a
         \/ allowance[a][sender'] > 0
         \/ /\ sender' \in {slasher, Owner}
            /\ balanceOf'[a] >= balanceOf[a]
            /\ stakes[a] - stakes'[a] <= SlashCap(a)]_vars
=============================================================================
