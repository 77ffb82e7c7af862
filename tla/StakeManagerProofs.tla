------------------------- MODULE StakeManagerProofs -------------------------
(***************************************************************************)
(* Theorems about StakeManager over KnowledgeRegistry, for every set of    *)
(* curators, any number of Knowledge Blocks and any amounts.               *)
(***************************************************************************)
EXTENDS StakeManager, SumLemmas

\* Only the curator of a Knowledge Block anchors it.
AnchorsOwn ==
  \A h \in Hash : allocationCurator[h] # Zero => allocationCurator[h] = blocks[h].curator

\* The pool of an unslashed curator covers what is allocated.
PoolsCover ==
  \A a \in Account : stakes[a].slashed \/ stakes[a].allocated <= stakes[a].amount

Inv == TypeOK /\ AllocationsExact /\ AnchorsOwn /\ PoolsCover

\* What h contributes to the allocations of a.
Part(a) == [h \in Hash |-> IF allocationCurator[h] = a THEN allocations[h] ELSE 0]

LEMMA PartsAreNaturals ==
  ASSUME TypeOK, NEW a
  PROVE  \A h \in 1 .. NumKB : Part(a)[h] \in Int
BY DEF TypeOK, Part, Hash

LEMMA AllocatedIsSum ==
  ASSUME NEW a
  PROVE  AllocatedBy(a) = SumTo(Part(a), NumKB)
BY DEF AllocatedBy, Part

-----------------------------------------------------------------------------
(* The initial states.                                                     *)

LEMMA InitInv == Init => Inv
<1> SUFFICES ASSUME Init PROVE Inv
  OBVIOUS
<1> USE StakeManagerAssumption, KnowledgeRegistryAssumption
<1>1. TypeOK
  BY DEF Init, InitBlocks, TypeOK, BlocksOK, Block, NoBlock, StakeRecord
<1>2. AllocationsExact
  <2>1. ASSUME NEW a \in Account PROVE stakes[a].allocated = AllocatedBy(a)
    <3>1. \A h \in 1 .. NumKB : Part(a)[h] = 0
      BY DEF Init, Part, Hash
    <3>2. SumTo(Part(a), NumKB) = 0
      BY <3>1, SumOfZeros
    <3> QED BY <3>2, AllocatedIsSum DEF Init
  <2> QED BY <2>1 DEF AllocationsExact, Init
<1> QED BY <1>1, <1>2 DEF Inv, AnchorsOwn, PoolsCover, Init

-----------------------------------------------------------------------------
(* Records of the stake book.                                              *)

\* Changing one field of a record changes that field only.
LEMMA FieldUpdates ==
  ASSUME NEW r \in StakeRecord, NEW n \in Nat
  PROVE  /\ [r EXCEPT !.amount = n] \in StakeRecord
         /\ [r EXCEPT !.amount = n].amount = n
         /\ [r EXCEPT !.amount = n].allocated = r.allocated
         /\ [r EXCEPT !.amount = n].slashed = r.slashed
         /\ [r EXCEPT !.allocated = n] \in StakeRecord
         /\ [r EXCEPT !.allocated = n].allocated = n
         /\ [r EXCEPT !.allocated = n].amount = r.amount
         /\ [r EXCEPT !.allocated = n].slashed = r.slashed
BY DEF StakeRecord

\* Slashing changes two fields.
LEMMA SlashUpdates ==
  ASSUME NEW r \in StakeRecord, NEW n \in Nat
  PROVE  /\ [r EXCEPT !.amount = n, !.slashed = TRUE] \in StakeRecord
         /\ [r EXCEPT !.amount = n, !.slashed = TRUE].slashed = TRUE
         /\ [r EXCEPT !.amount = n, !.slashed = TRUE].allocated = r.allocated
BY DEF StakeRecord

\* Putting a record in a's place keeps the book typed and the others as they are.
LEMMA BookUpdate ==
  ASSUME stakes \in [Account -> StakeRecord], NEW a \in Account, NEW r \in StakeRecord,
         stakes' = [stakes EXCEPT ![a] = r]
  PROVE  /\ stakes' \in [Account -> StakeRecord]
         /\ stakes'[a] = r
         /\ \A b \in Account \ {a} : stakes'[b] = stakes[b]
OBVIOUS

-----------------------------------------------------------------------------
(* Sums of allocations that change in one place.                           *)

\* Nobody's allocations change when both books are left alone.
LEMMA SameAllocations ==
  ASSUME UNCHANGED << allocations, allocationCurator >>
  PROVE  \A a : AllocatedBy(a)' = AllocatedBy(a)
BY DEF AllocatedBy

\* One entry of h, made or withdrawn by a, moves the sum of a by its amount and
\* no other sum.
LEMMA OneAllocationMoves ==
  ASSUME TypeOK, TypeOK', NEW h \in Hash, NEW a,
         \A k \in Hash \ {h} : /\ allocations'[k] = allocations[k]
                              /\ allocationCurator'[k] = allocationCurator[k]
  PROVE  AllocatedBy(a)' = AllocatedBy(a) + (Part(a)'[h] - Part(a)[h])
<1> USE StakeManagerAssumption, KnowledgeRegistryAssumption
<1> DEFINE g == Part(a)
           f == Part(a)'
<1>1. \A k \in 1 .. NumKB : g[k] \in Int
  BY PartsAreNaturals
<1>2. \A k \in 1 .. NumKB : f[k] \in Int
  BY DEF TypeOK, Part, Hash
<1>3. \A k \in 1 .. NumKB : k # h => f[k] = g[k]
  BY DEF Part, Hash
<1>4. AllocatedBy(a) = SumTo(g, NumKB) /\ AllocatedBy(a)' = SumTo(f, NumKB)
  BY DEF AllocatedBy, Part
<1>5. NumKB \in Nat /\ h \in 1 .. NumKB
  BY DEF Hash
<1> HIDE DEF g, f
<1>6. SumTo(f, NumKB) = SumTo(g, NumKB) + (f[h] - g[h])
  BY <1>1, <1>2, <1>3, <1>5, SumUpdate, ZenonT(40)
<1>7. f = Part(a)' /\ g = Part(a)
  BY DEF f, g
<1> QED BY <1>4, <1>6, <1>7

-----------------------------------------------------------------------------
(* Each action preserves the invariant.                                    *)

\* An action that leaves both books of allocations and the registry alone
\* preserves them if it leaves every `allocated' alone.
LEMMA BooksKept ==
  ASSUME Inv, UNCHANGED << blocks, allocations, allocationCurator >>,
         \A a \in Account : stakes'[a].allocated = stakes[a].allocated
  PROVE  AllocationsExact' /\ AnchorsOwn'
BY SameAllocations DEF Inv, AllocationsExact, AnchorsOwn

\* The pools stay covered if one curator's does and the others are as they were.
LEMMA PoolsKept ==
  ASSUME PoolsCover, NEW a \in Account, \A b \in Account \ {a} : stakes'[b] = stakes[b],
         stakes'[a].slashed \/ stakes'[a].allocated <= stakes'[a].amount
  PROVE  PoolsCover'
BY DEF PoolsCover

LEMMA AddStakeInv ==
  ASSUME Inv, NEW a \in Account, NEW v \in Amounts, addStake(a, v)
  PROVE  Inv'
<1> USE StakeManagerAssumption, KnowledgeRegistryAssumption
<1> DEFINE s == stakes[a]
           lock == IF timestamp + LockPeriod > s.lockedUntil THEN timestamp + LockPeriod
                   ELSE s.lockedUntil
<1>1. s \in StakeRecord /\ v \in Nat /\ timestamp \in Nat /\ lock \in Nat
  BY DEF Inv, TypeOK, StakeRecord
<1> DEFINE r == [s EXCEPT !.amount = s.amount + v, !.lockedUntil = lock]
<1>2. /\ stakes' \in [Account -> StakeRecord] /\ stakes'[a] = r
      /\ \A b \in Account \ {a} : stakes'[b] = stakes[b]
      /\ r.amount = s.amount + v /\ r.allocated = s.allocated /\ r.slashed = s.slashed
  <2>1. s.amount + v \in Nat
    BY <1>1 DEF StakeRecord
  <2>2. stakes' = [stakes EXCEPT ![a] = r]
    BY DEF addStake
  <2> HIDE DEF lock
  <2>3. /\ r \in StakeRecord
        /\ r.amount = s.amount + v /\ r.allocated = s.allocated /\ r.slashed = s.slashed
    <3> DEFINE n == s.amount + v
    <3>1. s \in StakeRecord /\ lock \in Nat /\ n \in Nat
      BY <1>1, <2>1
    <3>2. r = [s EXCEPT !.amount = n, !.lockedUntil = lock]
      OBVIOUS
    <3> HIDE DEF s, n, r
    <3>3. r \in StakeRecord /\ r.amount = n /\ r.allocated = s.allocated /\ r.slashed = s.slashed
      BY <3>1, <3>2 DEF StakeRecord
    <3> QED BY <3>3 DEF n
  <2> HIDE DEF r
  <2> QED BY <2>2, <2>3, BookUpdate DEF Inv, TypeOK
<1> HIDE DEF r, lock
<1>3. TypeOK'
  <2>1. balance' \in Nat /\ UNCHANGED << blocks, allocations, allocationCurator, timestamp >>
    BY <1>1 DEF addStake, Inv, TypeOK
  <2> QED BY <1>2, <2>1 DEF Inv, TypeOK, BlocksOK
<1>4. \A b \in Account : stakes'[b].allocated = stakes[b].allocated
  BY <1>2 DEF Inv, TypeOK
<1>5. AllocationsExact' /\ AnchorsOwn'
  BY <1>4, BooksKept DEF addStake
<1>6. PoolsCover'
  <2>1. s.slashed \/ s.allocated <= s.amount
    BY DEF Inv, PoolsCover
  <2>2. s.allocated \in Nat /\ s.amount \in Nat
    BY <1>1 DEF StakeRecord
  <2> HIDE DEF s
  <2>3. r.slashed \/ r.allocated <= r.amount
    BY <2>1, <2>2, <1>1, <1>2
  <2> QED BY <1>2, <2>3, PoolsKept DEF Inv
<1> QED BY <1>3, <1>5, <1>6 DEF Inv

LEMMA WithdrawInv ==
  ASSUME Inv, NEW a \in Account, NEW v \in Amounts, withdrawStake(a, v)
  PROVE  Inv'
<1> USE StakeManagerAssumption, KnowledgeRegistryAssumption
<1> DEFINE s == stakes[a]
<1>1. s \in StakeRecord /\ v \in Nat /\ balance \in Nat
  BY DEF Inv, TypeOK
<1>2. s.allocated + v <= s.amount /\ v <= balance
  BY <1>1 DEF withdrawStake, Withdraw, Free, StakeRecord
<1>4. s.amount - v \in Nat /\ s.allocated <= s.amount - v /\ balance' \in Nat
  <2>1. s.amount \in Nat /\ s.allocated \in Nat
    BY <1>1 DEF StakeRecord
  <2>2. balance' = balance - v
    BY DEF withdrawStake, Withdraw
  <2> HIDE DEF s
  <2> QED BY <1>1, <1>2, <2>1, <2>2
<1> DEFINE r == [s EXCEPT !.amount = s.amount - v]
<1>3. /\ stakes' \in [Account -> StakeRecord] /\ stakes'[a] = r
      /\ \A b \in Account \ {a} : stakes'[b] = stakes[b]
      /\ r.amount = s.amount - v /\ r.allocated = s.allocated /\ r.slashed = s.slashed
  <2>2. stakes' = [stakes EXCEPT ![a] = r]
    BY DEF withdrawStake, Withdraw
  <2>3. /\ r \in StakeRecord
        /\ r.amount = s.amount - v /\ r.allocated = s.allocated /\ r.slashed = s.slashed
    BY <1>1, <1>4, FieldUpdates
  <2> HIDE DEF r
  <2> QED BY <2>2, <2>3, BookUpdate DEF Inv, TypeOK
<1> HIDE DEF r
<1>5. TypeOK'
  <2>1. UNCHANGED << blocks, allocations, allocationCurator, timestamp >>
    BY DEF withdrawStake, Withdraw
  <2> QED BY <1>3, <1>4, <2>1 DEF Inv, TypeOK, BlocksOK
<1>6. \A b \in Account : stakes'[b].allocated = stakes[b].allocated
  BY <1>3 DEF Inv, TypeOK
<1>7. AllocationsExact' /\ AnchorsOwn'
  BY <1>6, BooksKept DEF withdrawStake, Withdraw
<1>8. PoolsCover'
  BY <1>3, <1>4, PoolsKept DEF Inv
<1> QED BY <1>5, <1>7, <1>8 DEF Inv

LEMMA SlashInv ==
  ASSUME Inv, NEW a \in Account, NEW p \in Penalties, slash(a, p)
  PROVE  Inv'
<1> USE StakeManagerAssumption, KnowledgeRegistryAssumption
<1> DEFINE s == stakes[a]
           left == s.amount - AtMost(p, s.amount)
<1>1. s \in StakeRecord /\ p \in Nat /\ left \in Nat
  BY DEF Inv, TypeOK, StakeRecord, AtMost
<1> DEFINE r == [s EXCEPT !.amount = left, !.slashed = TRUE]
<1>2. /\ stakes' \in [Account -> StakeRecord] /\ stakes'[a] = r
      /\ \A b \in Account \ {a} : stakes'[b] = stakes[b]
      /\ r.allocated = s.allocated /\ r.slashed = TRUE
  <2>2. stakes' = [stakes EXCEPT ![a] = r]
    BY DEF slash
  <2> HIDE DEF left
  <2>3. r \in StakeRecord /\ r.allocated = s.allocated /\ r.slashed = TRUE
    BY <1>1, SlashUpdates
  <2> HIDE DEF r
  <2> QED BY <2>2, <2>3, BookUpdate DEF Inv, TypeOK
<1> HIDE DEF r, left
<1>3. TypeOK'
  BY <1>2 DEF slash, Inv, TypeOK, BlocksOK
<1>4. \A b \in Account : stakes'[b].allocated = stakes[b].allocated
  BY <1>2 DEF Inv, TypeOK
<1>5. AllocationsExact' /\ AnchorsOwn'
  BY <1>4, BooksKept DEF slash
<1>6. PoolsCover'
  BY <1>2, PoolsKept DEF Inv
<1> QED BY <1>3, <1>5, <1>6 DEF Inv

LEMMA AllocateInv ==
  ASSUME Inv, NEW a \in Account, NEW h \in Hash, NEW v \in Amounts, allocateStake(a, h, v)
  PROVE  Inv'
<1> USE StakeManagerAssumption, KnowledgeRegistryAssumption
<1> DEFINE s == stakes[a]
<1>1. /\ s \in StakeRecord /\ v \in Nat /\ allocations[h] \in Nat
      /\ s.allocated + v <= s.amount /\ v > 0
  BY DEF Inv, TypeOK, StakeRecord, allocateStake, Free
<1> DEFINE r == [s EXCEPT !.allocated = s.allocated + v]
<1>2. /\ stakes' \in [Account -> StakeRecord] /\ stakes'[a] = r
      /\ \A b \in Account \ {a} : stakes'[b] = stakes[b]
      /\ r.amount = s.amount /\ r.allocated = s.allocated + v /\ r.slashed = s.slashed
  <2>1. s.allocated + v \in Nat
    BY <1>1 DEF StakeRecord
  <2>2. stakes' = [stakes EXCEPT ![a] = r]
    BY DEF allocateStake
  <2>3. /\ r \in StakeRecord
        /\ r.amount = s.amount /\ r.allocated = s.allocated + v /\ r.slashed = s.slashed
    BY <1>1, <2>1, FieldUpdates
  <2> HIDE DEF r
  <2> QED BY <2>2, <2>3, BookUpdate DEF Inv, TypeOK
<1> HIDE DEF r
<1>3. /\ allocations' = [allocations EXCEPT ![h] = allocations[h] + v]
      /\ allocationCurator' = [allocationCurator EXCEPT ![h] = a]
  \* an anchor of h is its curator, and that is a
  BY DEF allocateStake, Inv, TypeOK, AnchorsOwn, getCurator
<1>4. TypeOK'
  <2>1. /\ allocations' \in [Hash -> Nat]
        /\ allocationCurator' \in [Hash -> Account \cup {Zero}]
    BY <1>1, <1>3 DEF Inv, TypeOK
  <2> QED BY <1>2, <2>1 DEF allocateStake, Inv, TypeOK, BlocksOK
<1>5. allocationCurator[h] \in {a, Zero} /\ (allocationCurator[h] = Zero => allocations[h] = 0)
  BY <1>1 DEF allocateStake, Inv, AnchorsOwn, AllocationsExact, getCurator
<1>6. \A b \in Account : AllocatedBy(b)' = AllocatedBy(b) + (Part(b)'[h] - Part(b)[h])
  BY <1>3, <1>4, OneAllocationMoves DEF Inv, TypeOK
<1>7. Part(a)[h] = allocations[h] /\ Part(a)'[h] = allocations[h] + v
  BY <1>3, <1>5 DEF Part, Inv, TypeOK
<1>8. \A b \in Account \ {a} : Part(b)[h] = 0 /\ Part(b)'[h] = 0
  BY <1>3, <1>5 DEF Part, Inv, TypeOK
<1>9. \A b \in Account : stakes[b].allocated = AllocatedBy(b) /\ stakes[b].allocated \in Nat
  BY DEF Inv, AllocationsExact, TypeOK, StakeRecord
<1>10. \A b \in Account : stakes'[b].allocated = AllocatedBy(b)'
  <2> TAKE b \in Account
  <2>1. CASE b = a
    <3>1. stakes'[a].allocated = s.allocated + v
      BY <1>2 DEF Inv, TypeOK
    <3>2. AllocatedBy(a)' = AllocatedBy(a) + ((allocations[h] + v) - allocations[h])
      BY <1>6, <1>7
    <3>3. AllocatedBy(a) = s.allocated /\ s.allocated \in Nat
      BY <1>9
    <3> QED BY <2>1, <3>1, <3>2, <3>3, <1>1
  <2>2. CASE b # a
    <3>1. stakes'[b] = stakes[b]
      BY <1>2, <2>2 DEF Inv, TypeOK
    <3>2. AllocatedBy(b)' = AllocatedBy(b) + (0 - 0)
      BY <1>6, <1>8, <2>2
    <3>3. AllocatedBy(b) = stakes[b].allocated /\ stakes[b].allocated \in Nat
      BY <1>9
    <3> QED BY <3>1, <3>2, <3>3
  <2> QED BY <2>1, <2>2
<1>11. \A k \in Hash : allocations'[k] > 0 <=> allocationCurator'[k] # Zero
  BY <1>1, <1>3 DEF Inv, AllocationsExact, TypeOK
<1>12. AnchorsOwn'
  BY <1>3 DEF allocateStake, getCurator, Inv, AnchorsOwn, TypeOK
<1>13. PoolsCover'
  BY <1>1, <1>2, PoolsKept DEF Inv
<1> QED BY <1>4, <1>10, <1>11, <1>12, <1>13 DEF Inv, AllocationsExact

LEMMA DeallocateInv ==
  ASSUME Inv, NEW a \in Account, NEW h \in Hash, deallocateStake(a, h)
  PROVE  Inv'
<1> USE StakeManagerAssumption, KnowledgeRegistryAssumption
<1> DEFINE s == stakes[a]
           v == allocations[h]
<1>1. /\ s \in StakeRecord /\ v \in Nat /\ v > 0 /\ v <= s.allocated
      /\ allocationCurator[h] = a
  BY DEF Inv, TypeOK, deallocateStake
<1> DEFINE r == [s EXCEPT !.allocated = s.allocated - v]
<1>2. /\ stakes' \in [Account -> StakeRecord] /\ stakes'[a] = r
      /\ \A b \in Account \ {a} : stakes'[b] = stakes[b]
      /\ r.amount = s.amount /\ r.allocated = s.allocated - v /\ r.slashed = s.slashed
  <2>1. s.allocated - v \in Nat
    BY <1>1 DEF StakeRecord
  <2>2. stakes' = [stakes EXCEPT ![a] = r]
    BY DEF deallocateStake
  <2>3. /\ r \in StakeRecord
        /\ r.amount = s.amount /\ r.allocated = s.allocated - v /\ r.slashed = s.slashed
    <3> DEFINE n == s.allocated - v
    <3>1. s \in StakeRecord /\ n \in Nat /\ r = [s EXCEPT !.allocated = n]
      BY <1>1, <2>1
    <3> HIDE DEF s, n, r
    <3>2. r \in StakeRecord /\ r.amount = s.amount /\ r.allocated = n /\ r.slashed = s.slashed
      BY <3>1, FieldUpdates, Zenon
    <3> QED BY <3>2 DEF n
  <2> HIDE DEF r
  <2> QED BY <2>2, <2>3, BookUpdate DEF Inv, TypeOK
<1> HIDE DEF r
<1>3. /\ allocations' = [allocations EXCEPT ![h] = 0]
      /\ allocationCurator' = [allocationCurator EXCEPT ![h] = Zero]
  BY DEF deallocateStake
<1>5. TypeOK'
  <2>1. /\ allocations' \in [Hash -> Nat]
        /\ allocationCurator' \in [Hash -> Account \cup {Zero}]
    BY <1>3 DEF Inv, TypeOK
  <2> QED BY <1>2, <2>1 DEF deallocateStake, Inv, TypeOK, BlocksOK
<1>6. \A b \in Account : AllocatedBy(b)' = AllocatedBy(b) + (Part(b)'[h] - Part(b)[h])
  BY <1>3, <1>5, OneAllocationMoves DEF Inv, TypeOK
<1>7. Part(a)[h] = v
  BY <1>1 DEF Part
<1>8. \A b \in Account : Part(b)'[h] = 0 /\ (b # a => Part(b)[h] = 0)
  BY <1>1, <1>3 DEF Part, Inv, TypeOK
<1>9. \A b \in Account : stakes[b].allocated = AllocatedBy(b) /\ stakes[b].allocated \in Nat
  BY DEF Inv, AllocationsExact, TypeOK, StakeRecord
<1>10. \A b \in Account : stakes'[b].allocated = AllocatedBy(b)'
  <2> TAKE b \in Account
  <2>1. CASE b = a
    <3>1. stakes'[a].allocated = s.allocated - v
      BY <1>2 DEF Inv, TypeOK
    <3>2. AllocatedBy(a)' = AllocatedBy(a) + (0 - v)
      BY <1>6, <1>7, <1>8
    <3>3. AllocatedBy(a) = s.allocated /\ s.allocated \in Nat
      BY <1>9
    <3> QED BY <2>1, <3>1, <3>2, <3>3, <1>1
  <2>2. CASE b # a
    <3>1. stakes'[b] = stakes[b]
      BY <1>2, <2>2 DEF Inv, TypeOK
    <3>2. AllocatedBy(b)' = AllocatedBy(b) + (0 - 0)
      BY <1>6, <1>8, <2>2
    <3>3. AllocatedBy(b) = stakes[b].allocated /\ stakes[b].allocated \in Nat
      BY <1>9
    <3> QED BY <3>1, <3>2, <3>3
  <2> QED BY <2>1, <2>2
<1>11. \A k \in Hash : allocations'[k] > 0 <=> allocationCurator'[k] # Zero
  BY <1>3 DEF Inv, AllocationsExact, TypeOK
<1>12. AnchorsOwn'
  BY <1>3 DEF deallocateStake, Inv, AnchorsOwn, TypeOK
<1>13. PoolsCover'
  <2>1. s.slashed \/ s.allocated <= s.amount
    BY DEF Inv, PoolsCover
  <2>2. s.allocated \in Nat /\ s.amount \in Nat
    BY <1>1 DEF StakeRecord
  <2> HIDE DEF s
  <2>3. r.slashed \/ r.allocated <= r.amount
    BY <2>1, <2>2, <1>1, <1>2
  <2> QED BY <1>2, <2>3, PoolsKept DEF Inv
<1> QED BY <1>5, <1>10, <1>11, <1>12, <1>13 DEF Inv, AllocationsExact

\* A registration disturbs no anchor: the block was not registered before.
LEMMA RegisterInv ==
  ASSUME Inv, Register
  PROVE  Inv'
<1> USE StakeManagerAssumption, KnowledgeRegistryAssumption
<1>1. PICK a \in Account, h \in Hash, parents \in ParentLists : registerKB(a, h, parents)
  BY DEF Register
<1>2. parents \in Seq(Hash)
  OBVIOUS
<1>3. TypeOK'
  BY <1>1, <1>2 DEF registerKB, Register, Inv, TypeOK, BlocksOK, Block
<1>4. AnchorsOwn'
  BY <1>1 DEF registerKB, isVerified, Register, Inv, TypeOK, BlocksOK, AnchorsOwn
<1>5. AllocationsExact' /\ PoolsCover'
  BY SameAllocations DEF Register, Inv, AllocationsExact, PoolsCover
<1> QED BY <1>3, <1>4, <1>5 DEF Inv

LEMMA QuietInv ==
  ASSUME Inv, UNCHANGED << blocks, stakes, allocations, allocationCurator, balance >>,
         timestamp' \in Nat
  PROVE  Inv'
BY SameAllocations DEF Inv, TypeOK, BlocksOK, AllocationsExact, AnchorsOwn, PoolsCover

LEMMA NextInv == Inv /\ [Next]_vars => Inv'
<1> SUFFICES ASSUME Inv, [Next]_vars PROVE Inv'
  OBVIOUS
<1>1. CASE Register
  BY <1>1, RegisterInv
<1>2. ASSUME NEW a \in Account, NEW v \in Amounts, addStake(a, v) PROVE Inv'
  BY <1>2, AddStakeInv
<1>3. ASSUME NEW a \in Account, NEW v \in Amounts, withdrawStake(a, v) PROVE Inv'
  BY <1>3, WithdrawInv
<1>4. ASSUME NEW a \in Account, NEW h \in Hash, NEW v \in Amounts, allocateStake(a, h, v)
      PROVE  Inv'
  BY <1>4, AllocateInv
<1>5. ASSUME NEW a \in Account, NEW h \in Hash, deallocateStake(a, h) PROVE Inv'
  BY <1>5, DeallocateInv
<1>6. ASSUME NEW a \in Account, NEW p \in Penalties, slash(a, p) PROVE Inv'
  BY <1>6, SlashInv
<1>7. CASE Tick
  BY <1>7, QuietInv DEF Tick, Inv, TypeOK
<1>8. CASE UNCHANGED vars
  BY <1>8, QuietInv DEF vars, Inv, TypeOK
<1> QED BY <1>1, <1>2, <1>3, <1>4, <1>5, <1>6, <1>7, <1>8 DEF Next

LEMMA Invariant == Spec => []Inv
BY InitInv, NextInv, PTL DEF Spec

-----------------------------------------------------------------------------
(* The theorems.                                                           *)

\* Every variable of StakeManager and of the registry it reads keeps its type.
THEOREM StakeTypeCorrect == Spec => []TypeOK
BY Invariant, PTL DEF Inv

\* The two books of allocations always agree (51-69), whoever registers what.
THEOREM BooksAgree == Spec => []AllocationsExact
BY Invariant, PTL DEF Inv

\* isStaked never promises stake that the pool does not hold (80-85).
THEOREM StakedMeansCovered == Spec => []StakedIsCovered
<1>1. Inv => StakedIsCovered
  BY DEF Inv, TypeOK, AllocationsExact, PoolsCover, StakedIsCovered, isStaked
<1> QED BY <1>1, Invariant, PTL

\* Ether leaves the manager only unlocked and unallocated (41-49).
THEOREM OnlyFreedEtherLeaves == Spec => EtherLeavesFreed
<1> DEFINE Leaves ==
      balance' < balance =>
       \E a \in Account :
         /\ timestamp >= stakes[a].lockedUntil
         /\ stakes[a].amount - stakes'[a].amount = balance - balance'
         /\ stakes'[a].allocated <= stakes'[a].amount
         /\ \A b \in Account \ {a} : stakes'[b] = stakes[b]
<1>1. Inv /\ Next => Leaves
  <2> SUFFICES ASSUME Inv, Next, balance' < balance
               PROVE  \E a \in Account :
                        /\ timestamp >= stakes[a].lockedUntil
                        /\ stakes[a].amount - stakes'[a].amount = balance - balance'
                        /\ stakes'[a].allocated <= stakes'[a].amount
                        /\ \A b \in Account \ {a} : stakes'[b] = stakes[b]
    OBVIOUS
  <2>1. PICK a \in Account, v \in Amounts : withdrawStake(a, v)
    <3>1. balance \in Nat /\ \A v \in Amounts : v \in Nat
      BY StakeManagerAssumption DEF Inv, TypeOK
    <3>2. balance' # balance
      BY <3>1
    <3>3. \A a \in Account, v \in Amounts : ~ addStake(a, v)
      BY <3>1 DEF addStake
    <3>4. \A a \in Account, h \in Hash :
            ~ deallocateStake(a, h) /\ \A v \in Amounts : ~ allocateStake(a, h, v)
      BY <3>2 DEF allocateStake, deallocateStake
    <3>5. ~ Register /\ ~ Tick /\ \A a \in Account, p \in Penalties : ~ slash(a, p)
      BY <3>2 DEF Register, Tick, slash
    <3> QED BY <3>3, <3>4, <3>5 DEF Next
  <2>2. stakes[a] \in StakeRecord /\ v \in Nat /\ balance \in Nat
    BY StakeManagerAssumption DEF Inv, TypeOK
  <2>3. /\ stakes'[a].amount = stakes[a].amount - v
        /\ stakes'[a].allocated = stakes[a].allocated
        /\ \A b \in Account \ {a} : stakes'[b] = stakes[b]
        /\ balance' = balance - v
    BY <2>1, <2>2 DEF withdrawStake, Withdraw, Inv, TypeOK, StakeRecord
  <2>4. stakes[a].allocated <= stakes[a].amount - v /\ timestamp >= stakes[a].lockedUntil
    BY <2>1, <2>2 DEF withdrawStake, Free, StakeRecord
  <2> QED BY <2>2, <2>3, <2>4 DEF StakeRecord
<1>2. Inv /\ [Next]_vars => [Leaves]_vars
  BY <1>1
<1> QED BY <1>2, Invariant, PTL DEF Spec, EtherLeavesFreed
=============================================================================
