------------------------------ MODULE KYAStaking ------------------------------
(***************************************************************************)
(* KYAStaking (packages/protocol/contracts/KYAStaking.sol): agents put     *)
(* XANDER into a common pool, and a slasher burns or redistributes part of *)
(* it.  Its token calls change no other contract and call nobody back, so  *)
(* every function is one action.                                           *)
(***************************************************************************)
EXTENDS XanderToken

VARIABLES stakes, totalStaked, slasher, maxSlashPercentBps

stakingVars == << stakes, totalStaked, slasher, maxSlashPercentBps >>

Whole == 10000
InitialSlashCap == 5000

InitStaking ==
  /\ stakes = [a \in Agent |-> 0]
  /\ totalStaked = 0
  /\ slasher = Owner
  /\ maxSlashPercentBps = InitialSlashCap

-----------------------------------------------------------------------------
\* The books after `amount' of a's stake left the pool.
Unbook(a, amount) ==
  /\ 0 < amount /\ amount <= stakes[a]
  /\ stakes' = [stakes EXCEPT ![a] = @ - amount]
  /\ totalStaked' = totalStaked - amount
  /\ UNCHANGED << slasher, maxSlashPercentBps >>

stake(sender, amount) ==
  /\ amount > 0
  /\ transferFrom(Pool, sender, Pool, amount)
  /\ stakes' = [stakes EXCEPT ![sender] = @ + amount]
  /\ totalStaked' = totalStaked + amount
  /\ UNCHANGED << slasher, maxSlashPercentBps >>

unstake(sender, amount) == Unbook(sender, amount) /\ transfer(Pool, sender, amount)

\* The most that one slash may take of a's stake.
SlashCap(a) == (stakes[a] * maxSlashPercentBps) \div Whole

MaySlash(sender, a, amount) ==
  sender \in {slasher, Owner} /\ amount <= SlashCap(a)

\* Mutant: the burnt part stays on the books.
slashUnbooked(sender, a, amount) ==
  /\ MaySlash(sender, a, amount)
  /\ 0 < amount /\ amount <= stakes[a]
  /\ burn(Pool, amount)
  /\ UNCHANGED stakingVars

slash(sender, a, amount) ==
  MaySlash(sender, a, amount) /\ Unbook(a, amount) /\ burn(Pool, amount)

slashAndRedistribute(sender, a, amount, recipient) ==
  /\ MaySlash(sender, a, amount)
  /\ Unbook(a, amount) /\ transfer(Pool, recipient, amount)

setMaxSlashPercentBps(sender, bps) ==
  /\ sender = Owner /\ bps <= Whole
  /\ maxSlashPercentBps' = bps
  /\ UNCHANGED << tokenVars, stakes, totalStaked, slasher >>

\* To an agent; any other address would send nothing, and only disable the role.
setSlasher(sender, a) ==
  /\ sender = Owner
  /\ slasher' = a
  /\ UNCHANGED << tokenVars, stakes, totalStaked, maxSlashPercentBps >>
=============================================================================
