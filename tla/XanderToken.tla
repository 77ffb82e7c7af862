----------------------------- MODULE XanderToken -----------------------------
(***************************************************************************)
(* XanderToken (packages/protocol/contracts/Token.sol): an OpenZeppelin    *)
(* ERC-20 with a ceiling on what is ever minted, and burning.  The token   *)
(* calls nobody, so a transaction is one action.  Addresses are numbered:  *)
(* the agents, then the two contracts that spend for them.                 *)
(***************************************************************************)
EXTENDS Sums

CONSTANTS
  NumAgents,
  MaxSupply,     \* MAX_SUPPLY
  Infinite,      \* type(uint256).max, the allowance that spending leaves alone
  Owner          \* deployer and owner of the contracts

Agent   == 1 .. NumAgents
Pool    == NumAgents + 1      \* the address of KYAStaking
Settler == NumAgents + 2      \* the address of XanderQuerySettlement
Address == 1 .. NumAgents + 2

ASSUME XanderTokenAssumption ==
  /\ NumAgents \in Nat /\ MaxSupply \in Nat /\ Infinite \in Nat
  /\ Owner \in Agent

VARIABLES balanceOf, allowance, totalSupply, totalMinted

tokenVars == << balanceOf, allowance, totalSupply, totalMinted >>

InitToken ==
  /\ balanceOf = [x \in Address |-> 0]
  /\ allowance = [x \in Address |-> [y \in Address |-> 0]]
  /\ totalSupply = 0 /\ totalMinted = 0

-----------------------------------------------------------------------------
(* The ERC-20.                                                             *)

\* The balances b after a movement from x to y.
Moved(b, x, y, amount) ==
  LET taken == [b EXCEPT ![x] = @ - amount] IN [taken EXCEPT ![y] = @ + amount]

\* The allowances after spender used one of x's.
Spent(allowed, x, spender, amount) ==
  IF allowed[x][spender] = Infinite
  THEN allowed
  ELSE [allowed EXCEPT ![x][spender] = @ - amount]

transfer(x, to, amount) ==
  /\ amount <= balanceOf[x]
  /\ balanceOf' = Moved(balanceOf, x, to, amount)
  /\ UNCHANGED << allowance, totalSupply, totalMinted >>

approve(x, spender, amount) ==
  /\ allowance' = [allowance EXCEPT ![x][spender] = amount]
  /\ UNCHANGED << balanceOf, totalSupply, totalMinted >>

transferFrom(spender, x, to, amount) ==
  /\ amount <= allowance[x][spender] /\ amount <= balanceOf[x]
  /\ allowance' = Spent(allowance, x, spender, amount)
  /\ balanceOf' = Moved(balanceOf, x, to, amount)
  /\ UNCHANGED << totalSupply, totalMinted >>

-----------------------------------------------------------------------------
(* What XanderToken adds.                                                  *)

\* Mutant: the ceiling is on what circulates, so that burning makes room.
mintCirculating(sender, to, amount) ==
  /\ sender = Owner
  /\ totalSupply + amount <= MaxSupply
  /\ totalMinted' = totalMinted + amount
  /\ totalSupply' = totalSupply + amount
  /\ balanceOf' = [balanceOf EXCEPT ![to] = @ + amount]
  /\ UNCHANGED allowance

mint(sender, to, amount) ==
  /\ sender = Owner
  /\ totalMinted + amount <= MaxSupply
  /\ totalMinted' = totalMinted + amount
  /\ totalSupply' = totalSupply + amount
  /\ balanceOf' = [balanceOf EXCEPT ![to] = @ + amount]
  /\ UNCHANGED allowance

burn(x, amount) ==
  /\ amount <= balanceOf[x]
  /\ balanceOf' = [balanceOf EXCEPT ![x] = @ - amount]
  /\ totalSupply' = totalSupply - amount
  /\ UNCHANGED << allowance, totalMinted >>

\* Unlike transferFrom, it lowers an infinite allowance too.
burnFrom(spender, x, amount) ==
  /\ amount <= allowance[x][spender] /\ amount <= balanceOf[x]
  /\ allowance' = [allowance EXCEPT ![x][spender] = @ - amount]
  /\ balanceOf' = [balanceOf EXCEPT ![x] = @ - amount]
  /\ totalSupply' = totalSupply - amount
  /\ UNCHANGED totalMinted
=============================================================================
