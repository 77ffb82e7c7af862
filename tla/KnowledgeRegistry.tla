------------------------- MODULE KnowledgeRegistry -------------------------
(***************************************************************************)
(* KnowledgeRegistry (packages/protocol/contracts/KnowledgeRegistry.sol):  *)
(* identity and lineage of Knowledge Blocks in the modular stack.  It is   *)
(* read by StakeManager and RoyaltySettlement, which extend this module.   *)
(*                                                                         *)
(* Content hashes are the numbers 1 .. NumKB, and bytes32(0) is 0.         *)
(***************************************************************************)
EXTENDS Integers, Sequences

CONSTANTS
  NumKB,         \* number of content hashes
  Account,       \* addresses that can send transactions
  Zero,          \* address(0)
  ParentLists    \* the `_parents' arguments that publishers use

Hash == 1 .. NumKB

ASSUME KnowledgeRegistryAssumption ==
  /\ NumKB \in Nat
  /\ Zero \notin Account
  /\ ParentLists \subseteq Seq(Hash)

VARIABLE blocks   \* hash -> [curator, parents]

Block      == [curator : Account \cup {Zero}, parents : Seq(Hash)]
NoBlock    == [curator |-> Zero, parents |-> << >>]
Registered == [curator : Account, parents : Seq(Hash)]

isVerified(h) == blocks[h].curator # Zero
getCurator(h) == blocks[h].curator

InitBlocks == blocks = [h \in Hash |-> NoBlock]

\* Mutant: a hash may be registered again, by somebody else.
registerAgain(sender, h, parents) ==
  blocks' = [blocks EXCEPT ![h] = [curator |-> sender, parents |-> parents]]

\* The registry asks nothing of the parents: they may be unknown, repeated, or
\* the block itself.
registerKB(sender, h, parents) ==
  /\ ~ isVerified(h)
  /\ blocks' = [blocks EXCEPT ![h] = [curator |-> sender, parents |-> parents]]

BlocksOK == blocks \in [Hash -> Block]
=============================================================================
