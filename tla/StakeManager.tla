---------------------------- MODULE StakeManager ----------------------------
(***************************************************************************)
(* StakeManager (packages/protocol/contracts/StakeManager.sol) over        *)
(* KnowledgeRegistry: each curator has one pool of stake, and anchors      *)
(* Knowledge Blocks by allocating parts of the pool to them.               *)
(*                                                                         *)
(* withdrawStake is one action although it pays a curator that may call    *)
(* back: its effects precede the payment and nothing is read after it, so  *)
(* what the curator calls meanwhile has the effect of calling it next, and *)
(* a payment that fails undoes the transaction.                            *)
(***************************************************************************)
EXTENDS KnowledgeRegistry, Sums

CONSTANTS
  Amounts,       \* the amounts that curators add, withdraw and allocate
  Penalties,     \* the penalties that the owner asks for
  LockPeriod,    \* LOCK_PERIOD, 30 days
  EtherSupply,   \* bound: the manager cannot hold more ether than exists
  MaxTime        \* bound on block.timestamp

ASSUME StakeManagerAssumption ==
  /\ Amounts \subseteq Nat /\ Penalties \subseteq Nat
  /\ LockPeriod \in Nat /\ EtherSupply \in Nat /\ MaxTime \in Nat

VARIABLES
  stakes,             \* curator -> [amount, allocated, lockedUntil, slashed]
  allocations,        \* hash -> stake allocated to it
  allocationCurator,  \* hash -> who allocated it
  balance,            \* address(this).balance
  timestamp           \* block.timestamp

vars == << blocks, stakes, allocations, allocationCurator, balance, timestamp >>

Init ==
  /\ InitBlocks
  /\ stakes = [a \in Account |-> [amount |-> 0, allocated |-> 0, lockedUntil |-> 0,
                                  slashed |-> FALSE]]
  /\ allocations = [h \in Hash |-> 0]
  /\ allocationCurator = [h \in Hash |-> Zero]
  /\ balance = 0 /\ timestamp = 0

-----------------------------------------------------------------------------
addStake(sender, amount) ==
  /\ amount > 0 /\ balance + amount <= EtherSupply
  /\ stakes' = [stakes EXCEPT
       ![sender].amount = @ + amount,
       ![sender].lockedUntil =
         IF timestamp + LockPeriod > @ THEN timestamp + LockPeriod ELSE @]
  /\ balance' = balance + amount
  /\ UNCHANGED << blocks, allocations, allocationCurator, timestamp >>

\* `amount - allocated' is checked arithmetic: it reverts if it is negative.
Free(s, amount) ==
  /\ s.allocated <= s.amount
  /\ 0 < amount /\ amount <= s.amount - s.allocated

\* The effects of withdrawStake.
Withdraw(sender, amount) ==
  /\ amount <= balance
  /\ stakes' = [stakes EXCEPT ![sender].amount = @ - amount]
  /\ balance' = balance - amount
  /\ UNCHANGED << blocks, allocations, allocationCurator, timestamp >>

\* Mutant: the lock is forgotten.
withdrawLocked(sender, amount) ==
  Free(stakes[sender], amount) /\ Withdraw(sender, amount)

withdrawStake(sender, amount) ==
  /\ timestamp >= stakes[sender].lockedUntil
  /\ Free(stakes[sender], amount)
  /\ Withdraw(sender, amount)

allocateStake(sender, h, amount) ==
  /\ getCurator(h) = sender
  /\ Free(stakes[sender], amount)
  /\ stakes' = [stakes EXCEPT ![sender].allocated = @ + amount]
  /\ allocations' = [allocations EXCEPT ![h] = @ + amount]
  /\ allocationCurator' = [allocationCurator EXCEPT
       ![h] = IF @ = Zero THEN sender ELSE @]
  /\ UNCHANGED << blocks, balance, timestamp >>

deallocateStake(sender, h) ==
  /\ allocationCurator[h] = sender
  /\ allocations[h] > 0
  /\ allocations[h] <= stakes[sender].allocated
  /\ allocations' = [allocations EXCEPT ![h] = 0]
  /\ allocationCurator' = [allocationCurator EXCEPT ![h] = Zero]
  /\ stakes' = [stakes EXCEPT ![sender].allocated = @ - allocations[h]]
  /\ UNCHANGED << blocks, balance, timestamp >>

\* Mutant: the pool is reduced and the curator not marked.
slashUnmarked(curator, penalty) ==
  /\ stakes[curator].amount > 0
  /\ stakes' = [stakes EXCEPT ![curator].amount = @ - AtMost(penalty, @)]
  /\ UNCHANGED << blocks, allocations, allocationCurator, balance, timestamp >>

\* Only the owner; the ether stays in the contract.
slash(curator, penalty) ==
  /\ stakes[curator].amount > 0
  /\ stakes' = [stakes EXCEPT ![curator].amount = @ - AtMost(penalty, @),
                              ![curator].slashed = TRUE]
  /\ UNCHANGED << blocks, allocations, allocationCurator, balance, timestamp >>

isStaked(h) ==
  /\ allocations[h] # 0
  /\ allocationCurator[h] # Zero
  /\ ~ stakes[allocationCurator[h]].slashed

Register ==
  /\ \E a \in Account, h \in Hash, parents \in ParentLists : registerKB(a, h, parents)
  /\ UNCHANGED << stakes, allocations, allocationCurator, balance, timestamp >>

Tick ==
  /\ timestamp < MaxTime
  /\ timestamp' = timestamp + 1
  /\ UNCHANGED << blocks, stakes, allocations, allocationCurator, balance >>

Next ==
  \/ Register
  \/ \E a \in Account :
       \/ \E v \in Amounts : addStake(a, v) \/ withdrawStake(a, v)
       \/ \E h \in Hash, v \in Amounts : allocateStake(a, h, v)
       \/ \E h \in Hash : deallocateStake(a, h)
       \/ \E p \in Penalties : slash(a, p)
  \/ Tick

Spec == Init /\ [][Next]_vars

-----------------------------------------------------------------------------
StakeRecord == [amount : Nat, allocated : Nat, lockedUntil : Nat, slashed : BOOLEAN]

\* Every variable has its Solidity type.
TypeOK ==
  /\ BlocksOK
  /\ stakes \in [Account -> StakeRecord]
  /\ allocations \in [Hash -> Nat]
  /\ allocationCurator \in [Hash -> Account \cup {Zero}]
  /\ balance \in Nat /\ timestamp \in Nat

\* The allocations that a made, added up over the Knowledge Blocks.
AllocatedBy(a) ==
  SumTo([h \in Hash |-> IF allocationCurator[h] = a THEN allocations[h] ELSE 0], NumKB)

\* The two books of allocations agree: a curator's `allocated' is the sum of the
\* allocations of the Knowledge Blocks that the curator anchors.  It rests on
\* KnowledgeRegistry never giving a block another curator (52, 58, 62-68).
AllocationsExact ==
  /\ \A a \in Account : stakes[a].allocated = AllocatedBy(a)
  /\ \A h \in Hash : allocations[h] > 0 <=> allocationCurator[h] # Zero

\* What isStaked promises is there: all the allocations of an unslashed curator
\* together are covered by the curator's pool (44-46, 54-57, 74-76).
StakedIsCovered ==
  \A h \in Hash :
    isStaked(h) => AllocatedBy(allocationCurator[h]) <= stakes[allocationCurator[h]].amount

\* Ether leaves the manager only to a curator whose lock is over, out of the
\* part of the pool that is not allocated; all pools stay backed by the ether
\* that remains (42-48).
EtherLeavesFreed ==
  [][balance' < balance =>
       \E a \in Account :
         /\ timestamp >= stakes[a].lockedUntil
         /\ stakes[a].amount - stakes'[a].amount = balance - balance'
         /\ stakes'[a].allocated <= stakes'[a].amount
         /\ \A b \in Account \ {a} : stakes'[b] = stakes[b]]_vars
=============================================================================
