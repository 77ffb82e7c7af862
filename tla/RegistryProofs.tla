--------------------------- MODULE RegistryProofs ---------------------------
(***************************************************************************)
(* Theorems about Registry, for every number of Knowledge Blocks, every    *)
(* set of accounts and contracts, and every argument of every call.        *)
(*                                                                         *)
(*   TypeCorrect             the types, ranges and the frame of a call     *)
(*   ProvenanceIsAcyclic     the attribution DAG                           *)
(*   RegistryIsSolvent, EveryPaymentIsCovered                       ether  *)
(*   SlashedStakesStay, StakesLeaveLawfully       the committed stakes     *)
(*   IndexesAreExact         the lookup indexes                            *)
(*   ScoresLagOnlyInVolume   the reputation scores                         *)
(*   SettlementImplementsAtomic     the refinement of AtomicSettlement     *)
(*                                                                         *)
(* Each part has an invariant of its own that rests on those of the parts  *)
(* before it: TypeOK, DagInv, EtherInv, FreshInv and StakesSinceSaved,     *)
(* IndexInv, ScoreInv, ProgressInv.                                        *)
(***************************************************************************)
EXTENDS Registry, SumLemmas

-----------------------------------------------------------------------------
(* Arithmetic of shares and scores.                                        *)

\* A part of an amount, in basis points, is a natural and at most the amount.
LEMMA PartOfAmount ==
  ASSUME NEW v \in Nat, NEW b \in 0 .. Bps
  PROVE  (v * b) \div Bps \in 0 .. v
<1> DEFINE w == v * b
<1>1. w \in Nat /\ w <= v * 10000
  BY DEF Bps
<1> HIDE DEF w
<1>2. w \div 10000 \in 0 .. v
  BY <1>1
<1> QED BY <1>2 DEF w, Bps

\* Rounding a share down never gives more than the share.
LEMMA ShareRoundsDown ==
  ASSUME NEW v \in Nat, NEW b \in Nat
  PROVE  (v * b) \div Bps \in Nat /\ Bps * ((v * b) \div Bps) <= v * b
<1> DEFINE w == v * b
<1>1. w \in Nat
  OBVIOUS
<1> HIDE DEF w
<1>2. w \div 10000 \in Nat /\ 10000 * (w \div 10000) <= w
  BY <1>1
<1> QED BY <1>2 DEF w, Bps

LEMMA QuotientIsNat ==
  ASSUME NEW a \in Nat, NEW b \in Nat, b # 0
  PROVE  a \div b \in Nat
OBVIOUS

\* The score always fits its range 0-1000 (Registry.sol:98).
LEMMA ScoreInRange ==
  ASSUME NEW r \in ReputationRecord
  PROVE  ScoreOf(r) \in 0 .. MaxScore
<1> DEFINE ow == IF r.queryVolume = 0 THEN 0
                 ELSE AtMost(400, (r.positiveOutcomes * 400) \div r.queryVolume)
<1>1. r.queryVolume \in Nat /\ r.positiveOutcomes \in Nat /\ r.endorsements \in Nat
  BY DEF ReputationRecord
<1>2. ow \in 0 .. 400
  <2>1. CASE r.queryVolume = 0 BY <2>1
  <2>2. CASE r.queryVolume # 0
    <3>1. r.positiveOutcomes * 400 \in Nat BY <1>1
    <3>2. (r.positiveOutcomes * 400) \div r.queryVolume \in Nat
      BY <1>1, <2>2, <3>1, QuotientIsNat
    <3> QED BY <3>2, <2>2 DEF AtMost
  <2> QED BY <2>1, <2>2
<1> DEFINE qw == AtMost(500, 2 * r.queryVolume)
           ew == AtMost(100, 20 * r.endorsements)
<1>3. qw \in 0 .. 500 /\ ew \in 0 .. 100
  BY <1>1 DEF AtMost
<1>4. ScoreOf(r) = AtMost(MaxScore, qw + ow + ew)
  BY DEF ScoreOf
<1> HIDE DEF ow, qw, ew
<1> QED BY <1>2, <1>3, <1>4 DEF AtMost, MaxScore

-----------------------------------------------------------------------------
(* Type correctness.                                                       *)

LEMMA IdleIsFrame == Idle \in Frame /\ Idle.op = "idle"
BY DEF Idle, Frame

LEMMA SnapshotIsSaved ==
  ASSUME StakesOK, ReputationOK, EtherOK, SettingsOK
  PROVE  Snapshot \in SavedState
BY DEF Snapshot, SavedState, StakesOK, ReputationOK, EtherOK, SettingsOK

\* What an action leaves alone keeps its type.
LEMMA SamePublished == ASSUME PublishedOK, UNCHANGED published PROVE PublishedOK'
BY DEF PublishedOK, published

LEMMA SameStakes == ASSUME StakesOK, UNCHANGED stakes PROVE StakesOK'
BY DEF StakesOK

LEMMA SameReputation == ASSUME ReputationOK, UNCHANGED reputation PROVE ReputationOK'
BY DEF ReputationOK

LEMMA SameSettings == ASSUME SettingsOK, UNCHANGED settings PROVE SettingsOK'
BY DEF SettingsOK, settings

LEMMA SameCall == ASSUME CallOK, UNCHANGED << published, call >> PROVE CallOK'
BY DEF CallOK, published

LEMMA StakeUpdates ==
  ASSUME NEW s \in StakeRecord, NEW a \in Nat, NEW t \in Nat
  PROVE  /\ [s EXCEPT !.amount = a, !.lockedUntil = t] \in StakeRecord
         /\ [s EXCEPT !.amount = a, !.slashed = TRUE] \in StakeRecord
         /\ [s EXCEPT !.amount = a] \in StakeRecord
BY DEF StakeRecord

\* A counter that was increased and still fits keeps the record's type.
LEMMA CounterUpdates ==
  ASSUME NEW s \in ReputationRecord
  PROVE  /\ [s EXCEPT !.positiveOutcomes = @ + 1].positiveOutcomes <= UInt32Max =>
              [s EXCEPT !.positiveOutcomes = @ + 1] \in ReputationRecord
         /\ [s EXCEPT !.endorsements = @ + 1].endorsements <= UInt32Max =>
              [s EXCEPT !.endorsements = @ + 1] \in ReputationRecord
         /\ [s EXCEPT !.queryVolume = @ + 1].queryVolume <= UInt32Max =>
              [s EXCEPT !.queryVolume = @ + 1] \in ReputationRecord
<1>1. ASSUME NEW n \in 0 .. UInt32Max
      PROVE  /\ [s EXCEPT !.positiveOutcomes = n] \in ReputationRecord
             /\ [s EXCEPT !.endorsements = n] \in ReputationRecord
             /\ [s EXCEPT !.queryVolume = n] \in ReputationRecord
  BY DEF ReputationRecord
<1>2. ASSUME NEW n
      PROVE  /\ [s EXCEPT !.positiveOutcomes = n].positiveOutcomes = n
             /\ [s EXCEPT !.endorsements = n].endorsements = n
             /\ [s EXCEPT !.queryVolume = n].queryVolume = n
  BY DEF ReputationRecord
<1>3. /\ s.positiveOutcomes + 1 \in Nat
      /\ s.endorsements + 1 \in Nat
      /\ s.queryVolume + 1 \in Nat
  BY RegistryAssumption DEF ReputationRecord
<1>4. ASSUME NEW n \in Nat, n <= UInt32Max PROVE n \in 0 .. UInt32Max
  BY <1>4, RegistryAssumption
<1> QED BY <1>1, <1>2, <1>3, <1>4, Zenon

LEMMA LinkFields ==
  ASSUME NEW l \in Link
  PROVE  l.parent \in Hash /\ l.bps \in Nat
<1>1. l.parent \in Hash
  BY DEF Link
<1>2. l.bps \in 0 .. UInt16Max
  BY DEF Link
<1>3. l.bps \in Nat
  BY <1>2, RegistryAssumption
<1> QED BY <1>1, <1>3

LEMMA FrameUpdates ==
  ASSUME NEW c \in Frame, NEW i \in Nat, NEW p \in Nat, NEW to \in Payee \cup {Zero}
  PROVE  /\ [c EXCEPT !.callee = to, !.i = i] \in Frame
         /\ [c EXCEPT !.callee = to, !.paid = p] \in Frame
BY DEF Frame

LEMMA TypeInit == Init => TypeOK
<1> SUFFICES ASSUME Init PROVE TypeOK
  OBVIOUS
<1>1. PublishedOK
  <2>1. Unpublished \in KnowledgeBlock
    BY RegistryAssumption DEF Unpublished, KnowledgeBlock
  <2> QED BY <2>1 DEF Init, PublishedOK
<1>2. StakesOK
  BY DEF Init, StakesOK, StakeRecord
<1>3. ReputationOK
  BY RegistryAssumption DEF Init, ReputationOK, ReputationRecord, MaxScore
<1>4. EtherOK
  BY DEF Init, EtherOK
<1>5. SettingsOK
  BY RegistryAssumption DEF Init, SettingsOK, InitialFeeBps, InitialSlashBps, MaxFeeBps, MaxSlashBps
<1>6. CallOK
  BY IdleIsFrame DEF Init, CallOK
<1> QED BY <1>1, <1>2, <1>3, <1>4, <1>5, <1>6 DEF TypeOK, Init

\* The setters, receive and the clock.
LEMMA TypeSetters ==
  ASSUME TypeOK,
         \/ \E b \in FeeChoices : setProtocolFee(b)
         \/ \E b \in SlashChoices : setSlashRate(b)
         \/ \E m \in MinStakeChoices : setMinStake(m)
  PROVE  TypeOK'
<1>1. SettingsOK'
  <2>1. SettingsOK BY DEF TypeOK
  <2>2. ASSUME NEW b \in FeeChoices, setProtocolFee(b) PROVE SettingsOK'
    BY <2>1, <2>2, RegistryAssumption DEF SettingsOK, setProtocolFee, MaxFeeBps
  <2>3. ASSUME NEW b \in SlashChoices, setSlashRate(b) PROVE SettingsOK'
    BY <2>1, <2>3, RegistryAssumption DEF SettingsOK, setSlashRate, MaxSlashBps
  <2>4. ASSUME NEW m \in MinStakeChoices, setMinStake(m) PROVE SettingsOK'
    BY <2>1, <2>4, RegistryAssumption DEF SettingsOK, setMinStake
  <2> QED BY <2>2, <2>3, <2>4
<1>2. UNCHANGED << published, stakes, reputation, treasuryBalance, balance, royaltyPaid,
                   timestamp, call >>
  BY DEF setProtocolFee, setSlashRate, setMinStake
<1> QED BY <1>1, <1>2, SamePublished, SameStakes, SameReputation, SameCall DEF TypeOK, EtherOK

LEMMA TypeReceive ==
  ASSUME TypeOK, NEW a \in Account, NEW v \in Deposits, receive(a, v)
  PROVE  TypeOK'
<1>1. EtherOK'
  BY RegistryAssumption DEF TypeOK, EtherOK, receive
<1> QED BY <1>1, SamePublished, SameStakes, SameReputation, SameSettings, SameCall DEF TypeOK, receive

LEMMA TypeTick ==
  ASSUME TypeOK, Tick
  PROVE  TypeOK'
<1>1. timestamp' \in Nat
  BY DEF TypeOK, Tick
<1> QED BY <1>1, SamePublished, SameStakes, SameReputation, SameSettings, SameCall DEF TypeOK, EtherOK, Tick

LEMMA TypeWithdrawDone ==
  ASSUME TypeOK, WithdrawDone
  PROVE  TypeOK'
<1>1. CallOK'
  BY IdleIsFrame DEF WithdrawDone, CallOK
<1> QED BY <1>1, SamePublished, SameStakes, SameReputation, SameSettings
        DEF TypeOK, EtherOK, WithdrawDone

LEMMA TypeRevert ==
  ASSUME TypeOK, Revert
  PROVE  TypeOK'
<1>1. call.saved \in SavedState
  BY DEF TypeOK, CallOK, Revert
<1> DEFINE s == call.saved
<1> HIDE DEF s
<1>0. /\ s.stakes \in [Hash -> StakeRecord] /\ s.reputation \in [Hash -> ReputationRecord]
       /\ s.protocolFeesBps \in 0 .. MaxFeeBps /\ s.slashRateBps \in 0 .. MaxSlashBps
       /\ s.minStakeAmount \in Nat /\ s.treasuryBalance \in Nat
       /\ s.balance \in Nat /\ s.royaltyPaid \in [Hash -> Nat]
  <2>1. s \in SavedState BY <1>1 DEF s
  <2> QED BY <2>1 DEF SavedState
<1>2. StakesOK' /\ ReputationOK' /\ EtherOK' /\ SettingsOK'
  <2>1. /\ stakes' = s.stakes /\ reputation' = s.reputation /\ balance' = s.balance
        /\ protocolFeesBps' = s.protocolFeesBps /\ slashRateBps' = s.slashRateBps
        /\ minStakeAmount' = s.minStakeAmount /\ treasuryBalance' = s.treasuryBalance
        /\ royaltyPaid' = s.royaltyPaid
    BY DEF s, Revert
  <2>2. StakesOK' BY <1>0, <2>1 DEF StakesOK
  <2>3. ReputationOK' BY <1>0, <2>1 DEF ReputationOK
  <2>4. EtherOK' BY <1>0, <2>1 DEF EtherOK
  <2>5. SettingsOK' BY <1>0, <2>1 DEF SettingsOK
  <2> QED BY <2>2, <2>3, <2>4, <2>5
<1>3. CallOK'
  BY IdleIsFrame DEF Revert, CallOK
<1> QED BY <1>2, <1>3, SamePublished DEF TypeOK, Revert

LEMMA TypeAddStake ==
  ASSUME TypeOK, NEW a \in Account, NEW h \in Hash, NEW v \in Deposits, addStake(a, h, v)
  PROVE  TypeOK'
<1>1. stakes[h] \in StakeRecord /\ v \in Nat /\ timestamp + LockPeriod \in Nat
  BY RegistryAssumption DEF TypeOK, StakesOK
<1> DEFINE r == [stakes[h] EXCEPT !.amount = @ + v, !.lockedUntil = timestamp + LockPeriod]
<1>2. r \in StakeRecord
  <2>1. stakes[h].amount + v \in Nat BY <1>1 DEF StakeRecord
  <2> QED BY <1>1, <2>1, StakeUpdates
<1>3. stakes' = [stakes EXCEPT ![h] = r]
  BY DEF addStake, TypeOK, StakesOK
<1> HIDE DEF r
<1>4. StakesOK'
  BY <1>2, <1>3 DEF TypeOK, StakesOK
<1>5. EtherOK'
  BY <1>1 DEF TypeOK, EtherOK, addStake
<1> QED BY <1>4, <1>5, SamePublished, SameReputation, SameSettings, SameCall DEF TypeOK, addStake

LEMMA SlashRateIsPart ==
  ASSUME SettingsOK
  PROVE  slashRateBps \in 0 .. Bps
BY DEF SettingsOK, Bps, MaxSlashBps

LEMMA TypeSlash ==
  ASSUME TypeOK, NEW h \in Hash, slash(h)
  PROVE  TypeOK'
<1> DEFINE taken == (stakes[h].amount * slashRateBps) \div Bps
           r     == [stakes[h] EXCEPT !.amount = @ - taken, !.slashed = TRUE]
<1>1. stakes[h] \in StakeRecord /\ stakes[h].amount \in Nat /\ slashRateBps \in 0 .. Bps
  BY SlashRateIsPart DEF TypeOK, StakesOK, StakeRecord
<1>2. taken \in 0 .. stakes[h].amount
  BY <1>1, PartOfAmount, Zenon
<1>3. stakes' = [stakes EXCEPT ![h] = r] /\ treasuryBalance' = treasuryBalance + taken
  BY DEF slash
<1> HIDE DEF taken
<1>4. r \in StakeRecord
  <2>1. stakes[h].amount - taken \in Nat BY <1>1, <1>2
  <2> QED BY <1>1, <2>1, StakeUpdates, Zenon
<1> HIDE DEF r
<1>5. StakesOK'
  BY <1>3, <1>4 DEF TypeOK, StakesOK
<1>6. EtherOK'
  BY <1>1, <1>2, <1>3 DEF TypeOK, EtherOK, slash
<1> QED BY <1>5, <1>6, SamePublished, SameReputation, SameSettings, SameCall DEF TypeOK, slash

LEMMA TypeWithdrawStake ==
  ASSUME TypeOK, NEW a \in Account, NEW h \in Hash, withdrawStake(a, h)
  PROVE  TypeOK'
<1>1. stakes[h] \in StakeRecord /\ stakes[h].amount \in Nat
  BY DEF TypeOK, StakesOK, StakeRecord
<1>2. [stakes[h] EXCEPT !.amount = 0] \in StakeRecord
  BY <1>1, StakeUpdates
<1>3. StakesOK'
  BY <1>2 DEF TypeOK, StakesOK, withdrawStake, TakeStake
<1>4. EtherOK'
  BY <1>1 DEF TypeOK, EtherOK, withdrawStake, TakeStake
<1>5. Snapshot \in SavedState
  BY SnapshotIsSaved DEF TypeOK
<1>6. CallOK'
  <2>1. call' \in Frame /\ call'.op = "withdraw" /\ call'.saved \in SavedState
    BY <1>5 DEF withdrawStake, TakeStake, Frame, Idle, Payee
  <2> QED BY <2>1 DEF CallOK
<1> QED BY <1>3, <1>4, <1>6, SamePublished, SameReputation, SameSettings DEF TypeOK, withdrawStake, TakeStake

LEMMA TypeWithdrawTreasury ==
  ASSUME TypeOK, NEW a \in Payee, withdrawTreasury(a)
  PROVE  TypeOK'
<1>1. EtherOK'
  BY DEF TypeOK, EtherOK, withdrawTreasury, BalanceAfter, TreasuryAfter
<1>2. Snapshot \in SavedState
  BY SnapshotIsSaved DEF TypeOK
<1>3. CallOK'
  <2>1. call' \in Frame /\ call'.op = "withdraw" /\ call'.saved \in SavedState
    BY <1>2 DEF withdrawTreasury, Frame, Idle
  <2> QED BY <2>1 DEF CallOK
<1> QED BY <1>1, <1>3, SamePublished, SameStakes, SameReputation, SameSettings
        DEF TypeOK, withdrawTreasury

\* Counting a call in the counters and recomputing the score keeps the ranges.
LEMMA CountersOK ==
  ASSUME NEW h \in Hash, ReputationOK, NEW r \in ReputationRecord,
         \/ reputation' = [reputation EXCEPT ![h] = r]
         \/ reputation' = [reputation EXCEPT ![h] = RecomputeScore(r)]
  PROVE  ReputationOK'
<1>1. RecomputeScore(r) \in ReputationRecord
  <2>1. ScoreOf(r) \in 0 .. MaxScore BY ScoreInRange
  <2> QED BY <2>1 DEF RecomputeScore, ReputationRecord
<1> QED BY <1>1 DEF ReputationOK

LEMMA TypeReputation ==
  ASSUME TypeOK, Reputation
  PROVE  TypeOK'
<1>1. ASSUME NEW h \in Hash, recordPositiveOutcome(h) PROVE ReputationOK'
  <2> DEFINE r == [reputation[h] EXCEPT !.positiveOutcomes = @ + 1]
  <2>1. reputation[h] \in ReputationRecord BY DEF TypeOK, ReputationOK
  <2>2. r.positiveOutcomes <= UInt32Max /\ reputation' = [reputation EXCEPT ![h] = RecomputeScore(r)]
    BY <1>1 DEF recordPositiveOutcome
  <2>3. r \in ReputationRecord
    BY <2>1, <2>2, CounterUpdates
  <2> HIDE DEF r
  <2> QED BY <2>2, <2>3, CountersOK DEF TypeOK
<1>2. ASSUME NEW h \in Hash, NEW a \in Account, endorse(a, h) PROVE ReputationOK'
  <2> DEFINE r == [reputation[h] EXCEPT !.endorsements = @ + 1]
  <2>1. reputation[h] \in ReputationRecord BY DEF TypeOK, ReputationOK
  <2>2. r.endorsements <= UInt32Max /\ reputation' = [reputation EXCEPT ![h] = RecomputeScore(r)]
    BY <1>2 DEF endorse
  <2>3. r \in ReputationRecord
    BY <2>1, <2>2, CounterUpdates
  <2> HIDE DEF r
  <2> QED BY <2>2, <2>3, CountersOK DEF TypeOK
<1>3. ReputationOK'
  BY <1>1, <1>2 DEF Reputation
<1>4. UNCHANGED << published, stakes, settings, treasuryBalance, balance, royaltyPaid,
                   timestamp, call >>
  BY DEF Reputation, recordPositiveOutcome, endorse
<1> QED BY <1>3, <1>4, SamePublished, SameStakes, SameSettings, SameCall DEF TypeOK, EtherOK

-----------------------------------------------------------------------------
(* Type correctness of the settlement.                                     *)

\* What is known of the frame while a fee is settled.
LEMMA SettlingFrame ==
  ASSUME TypeOK, call.op = "settle"
  PROVE  /\ call.hash \in Hash /\ settledLinks \in Seq(Link)
         /\ call.i \in 1 .. Len(settledLinks) + 1 /\ Len(settledLinks) \in Nat
         /\ call.paid \in Nat /\ call.distributable \in Nat
         /\ Recipient \in Hash /\ Due \in Int
         /\ call.saved \in SavedState
<1>1. /\ call.hash \in Hash /\ call.paid \in Nat /\ call.distributable \in Nat
      /\ call.saved \in SavedState /\ call.i \in 1 .. Len(settledLinks) + 1
  BY DEF TypeOK, CallOK, Frame, settledLinks
<1>2. settledLinks \in Seq(Link) /\ Len(settledLinks) \in Nat
  BY <1>1 DEF settledLinks, TypeOK, PublishedOK
<1>3. ~ AtCurator => settledLinks[call.i] \in Link
  BY <1>1, <1>2 DEF AtCurator
<1>4. ~ AtCurator => /\ settledLinks[call.i].parent \in Hash
                     /\ settledLinks[call.i].bps \in Nat
  BY <1>3, LinkFields
<1>5. Recipient \in Hash
  BY <1>1, <1>4 DEF Recipient
<1>6. ~ AtCurator => (call.distributable * settledLinks[call.i].bps) \div Bps \in Nat
  BY <1>1, <1>4, ShareRoundsDown, Zenon
<1>7. call.distributable - call.paid \in Int
  BY <1>1
<1>8. Due \in Int
  <2>1. CASE AtCurator BY <2>1, <1>7 DEF Due
  <2>2. CASE ~ AtCurator BY <2>2, <1>6 DEF Due
  <2> QED BY <2>1, <2>2
<1> QED BY <1>1, <1>2, <1>5, <1>8

LEMMA TypeSettleQuery ==
  ASSUME TypeOK, NEW h \in Hash, settleQuery(h)
  PROVE  TypeOK'
<1> DEFINE value == knowledgeBlocks[h].queryFee
           fee   == (value * protocolFeesBps) \div Bps
<1>1. value \in Nat /\ protocolFeesBps \in 0 .. Bps
  <2>1. knowledgeBlocks[h] \in KnowledgeBlock BY DEF TypeOK, PublishedOK
  <2>2. protocolFeesBps \in 0 .. Bps BY DEF TypeOK, SettingsOK, Bps, MaxFeeBps
  <2> QED BY <2>1, <2>2 DEF KnowledgeBlock
<1>2. fee \in 0 .. value
  BY <1>1, PartOfAmount, Zenon
<1>3. /\ treasuryBalance' = treasuryBalance + fee /\ balance' = balance + value
      /\ call' = [op |-> "settle", hash |-> h, i |-> 1, callee |-> Zero, paid |-> 0,
                  distributable |-> value - fee, saved |-> Snapshot]
      /\ UNCHANGED << published, stakes, reputation, settings, royaltyPaid, timestamp >>
  BY DEF settleQuery
<1> HIDE DEF value, fee
<1>4. EtherOK'
  BY <1>1, <1>2, <1>3 DEF TypeOK, EtherOK
<1>5. Snapshot \in SavedState
  BY SnapshotIsSaved DEF TypeOK
<1>6. CallOK'
  <2>1. value - fee \in Nat BY <1>1, <1>2
  <2>2. call' \in Frame
    BY <2>1, <1>3, <1>5 DEF Frame
  <2>3. call'.op = "settle" /\ call'.saved \in SavedState /\ call'.hash = h /\ call'.i = 1
    BY <1>3, <1>5
  <2>4. attributionDAG'[h] \in Seq(Link)
    BY <1>3 DEF published, TypeOK, PublishedOK
  <2>5. 1 \in 1 .. Len(attributionDAG'[h]) + 1
    BY <2>4
  <2> QED BY <2>2, <2>3, <2>5 DEF CallOK
<1> QED BY <1>3, <1>4, <1>6, SamePublished, SameStakes, SameReputation, SameSettings DEF TypeOK

LEMMA TypeSettleSkip ==
  ASSUME TypeOK, SettleSkip
  PROVE  TypeOK'
<1>1. call.op = "settle" /\ ~ AtCurator /\ call' = [call EXCEPT !.i = @ + 1]
  BY DEF SettleSkip
<1>2. CallOK'
  <2>1. call.i + 1 \in 1 .. Len(settledLinks) + 1
    BY <1>1, SettlingFrame DEF AtCurator
  <2>2. call' \in Frame /\ call'.i = call.i + 1 /\ call'.hash = call.hash
        /\ call'.op = "settle" /\ call'.saved = call.saved
    BY <1>1, <2>1 DEF TypeOK, CallOK, Frame
  <2>3. attributionDAG' = attributionDAG BY DEF SettleSkip, published
  <2> QED BY <2>1, <2>2, <2>3, <1>1, SettlingFrame DEF CallOK, settledLinks
<1> QED BY <1>2, SamePublished, SameStakes, SameReputation, SameSettings DEF TypeOK, EtherOK, SettleSkip

LEMMA TypeSettlePay ==
  ASSUME TypeOK, SettlePay
  PROVE  TypeOK'
<1> DEFINE to == knowledgeBlocks[Recipient].curator
<1>1. /\ call.op = "settle" /\ Due > 0 /\ Due <= balance
      /\ call' = [call EXCEPT !.callee = to, !.paid = @ + Due]
      /\ balance' = BalanceAfter(to, Due)
      /\ treasuryBalance' = TreasuryAfter(treasuryBalance, to, Due)
      /\ royaltyPaid' = [royaltyPaid EXCEPT ![Recipient] = @ + Due]
  BY DEF SettlePay
<1>2. Recipient \in Hash /\ Due \in Nat
  BY <1>1, SettlingFrame
<1>3. to \in Payee \cup {Zero}
  BY <1>2 DEF TypeOK, PublishedOK, KnowledgeBlock
<1> HIDE DEF to
<1>4. EtherOK'
  BY <1>1, <1>2 DEF TypeOK, EtherOK, BalanceAfter, TreasuryAfter
<1>5. CallOK'
  <2>1. /\ call'.i = call.i /\ call'.hash = call.hash
        /\ call'.op = "settle" /\ call'.saved = call.saved
    BY <1>1 DEF TypeOK, CallOK, Frame
  <2>2. attributionDAG' = attributionDAG BY DEF SettlePay, published
  <2>3. call' \in Frame
    <3>1. call \in Frame /\ call.paid + Due \in Nat
      BY <1>1, <1>2, SettlingFrame DEF TypeOK, CallOK
    <3> QED BY <3>1, <1>1, <1>3, FrameUpdates
  <2> QED BY <2>1, <2>2, <2>3, <1>1, SettlingFrame DEF CallOK, settledLinks
<1> QED BY <1>4, <1>5, SamePublished, SameStakes, SameReputation, SameSettings DEF TypeOK, SettlePay

LEMMA TypeSettleLinkPaid ==
  ASSUME TypeOK, SettleLinkPaid
  PROVE  TypeOK'
<1>1. /\ call.op = "settle" /\ ~ AtCurator
      /\ reputation[Recipient].queryVolume < UInt32Max
      /\ reputation' = [reputation EXCEPT ![Recipient].queryVolume = @ + 1]
      /\ call' = [call EXCEPT !.callee = Zero, !.i = @ + 1]
  BY DEF SettleLinkPaid
<1>2. Recipient \in Hash
  BY <1>1, SettlingFrame
<1>3. ReputationOK'
  <2> DEFINE r == [reputation[Recipient] EXCEPT !.queryVolume = @ + 1]
  <2>1. reputation[Recipient] \in ReputationRecord BY <1>2 DEF TypeOK, ReputationOK
  <2>2. r.queryVolume <= UInt32Max
    BY <2>1, <1>1, RegistryAssumption DEF ReputationRecord
  <2>3. r \in ReputationRecord BY <2>1, <2>2, CounterUpdates
  <2>4. reputation' = [reputation EXCEPT ![Recipient] = r]
    BY <1>1, <1>2 DEF TypeOK, ReputationOK
  <2> HIDE DEF r
  <2> QED BY <1>2, <2>3, <2>4, CountersOK DEF TypeOK
<1>4. CallOK'
  <2>1. call.i + 1 \in 1 .. Len(settledLinks) + 1
    BY <1>1, SettlingFrame DEF AtCurator
  <2>2. /\ call'.i = call.i + 1 /\ call'.hash = call.hash
        /\ call'.op = "settle" /\ call'.saved = call.saved
    BY <1>1, <2>1 DEF TypeOK, CallOK, Frame
  <2>3. attributionDAG' = attributionDAG BY DEF SettleLinkPaid, published
  <2>4. call' \in Frame
    <3>1. call \in Frame /\ call.i + 1 \in Nat BY <2>1 DEF TypeOK, CallOK
    <3> QED BY <3>1, <1>1, FrameUpdates
  <2> QED BY <2>1, <2>2, <2>3, <2>4, <1>1, SettlingFrame DEF CallOK, settledLinks
<1> QED BY <1>3, <1>4, SamePublished, SameStakes, SameSettings DEF TypeOK, EtherOK, SettleLinkPaid

LEMMA TypeSettleFinish ==
  ASSUME TypeOK, SettleFinish
  PROVE  TypeOK'
<1> DEFINE r == [reputation[call.hash] EXCEPT !.queryVolume = @ + 1]
<1>1. /\ call.op = "settle" /\ r.queryVolume <= UInt32Max
      /\ reputation' = [reputation EXCEPT ![call.hash] = RecomputeScore(r)]
      /\ call' = Idle
  BY DEF SettleFinish
<1>2. call.hash \in Hash
  BY <1>1, SettlingFrame
<1>3. reputation[call.hash] \in ReputationRecord
  BY <1>2 DEF TypeOK, ReputationOK
<1>4. r \in ReputationRecord
  BY <1>1, <1>3, CounterUpdates
<1> HIDE DEF r
<1>5. ReputationOK'
  BY <1>1, <1>2, <1>4, CountersOK DEF TypeOK
<1>6. CallOK'
  BY <1>1, IdleIsFrame DEF CallOK
<1> QED BY <1>5, <1>6, SamePublished, SameStakes, SameSettings DEF TypeOK, EtherOK, SettleFinish

-----------------------------------------------------------------------------
(* Type correctness of publication, and the theorem.                       *)

LEMMA IsASeq ==
  ASSUME NEW S, NEW x \in S, NEW n \in Nat
  PROVE  [i \in 1 .. n |-> x] \in Seq(S)
OBVIOUS

LEMMA MentionsIsNat ==
  ASSUME NEW links \in Seq(Link), NEW p
  PROVE  Mentions(links, p) \in Nat
<1> DEFINE g == [i \in DOMAIN links |-> IF links[i].parent = p THEN 1 ELSE 0]
<1>1. Len(links) \in Nat /\ DOMAIN links = 1 .. Len(links)
  OBVIOUS
<1>2. \A i \in 1 .. Len(links) : g[i] \in Nat
  BY <1>1
<1> HIDE DEF g
<1>3. SumTo(g, Len(links)) \in Nat
  BY <1>1, <1>2, SumNat, Zenon
<1> QED BY <1>3 DEF g, Mentions

LEMMA TypePublish ==
  ASSUME TypeOK, Publish
  PROVE  TypeOK'
<1>1. PICK h \in Hash, curator \in Payee, t \in KBTypes, d \in Domains, fee \in QueryFees,
           links \in LinkLists, value \in Deposits : publishKB(h, curator, t, d, fee, links, value)
  BY DEF Publish
<1>2. /\ links \in Seq(Link) /\ fee \in Nat /\ value \in Nat /\ timestamp + LockPeriod \in Nat
      /\ minStakeAmount \in Nat
  BY RegistryAssumption DEF TypeOK, SettingsOK
<1>3. PublishedOK'
  <2> USE DEF TypeOK, PublishedOK
  <2>1. knowledgeBlocks' \in [Hash -> KnowledgeBlock]
    <3>1. [curator |-> curator, kbType |-> t, domain |-> d, queryFee |-> fee, exists |-> TRUE]
            \in KnowledgeBlock
      BY <1>2 DEF KnowledgeBlock
    <3> QED BY <1>1, <3>1 DEF publishKB
  <2>2. attributionDAG' \in [Hash -> Seq(Link)]
    BY <1>1, <1>2 DEF publishKB
  <2>3. derivedBlocks' \in [Hash -> Seq(Hash)]
    <3>1. ASSUME NEW p \in Hash
          PROVE  derivedBlocks[p] \o [i \in 1 .. Mentions(links, p) |-> h] \in Seq(Hash)
      <4>1. Mentions(links, p) \in Nat BY <1>2, MentionsIsNat
      <4>2. [i \in 1 .. Mentions(links, p) |-> h] \in Seq(Hash) BY <4>1, IsASeq, Zenon
      <4> QED BY <4>2
    <3>2. derivedBlocks' = [p \in Hash |-> derivedBlocks[p] \o
                              [i \in 1 .. Mentions(links, p) |-> h]]
      BY <1>1 DEF publishKB
    <3> QED BY <3>1, <3>2
  <2>4. curatorBlocks' \in [Payee -> Seq(Hash)]
    BY <1>1 DEF publishKB
  <2>5. blocksByType' \in [KBTypes -> Seq(Hash)] /\ blocksByDomain' \in [Domains -> Seq(Hash)]
    BY <1>1 DEF publishKB
  <2> QED BY <2>1, <2>2, <2>3, <2>4, <2>5
<1>4. StakesOK'
  <2>1. [amount |-> value, lockedUntil |-> timestamp + LockPeriod, slashed |-> FALSE] \in StakeRecord
    BY <1>2 DEF StakeRecord
  <2> QED BY <1>1, <2>1 DEF publishKB, TypeOK, StakesOK
<1>5. ReputationOK'
  <2>1. [queryVolume |-> 0, positiveOutcomes |-> 0, endorsements |-> 0, score |-> 0]
          \in ReputationRecord
    BY RegistryAssumption DEF ReputationRecord, MaxScore
  <2> QED BY <1>1, <2>1 DEF publishKB, TypeOK, ReputationOK
<1>6. EtherOK'
  BY <1>1, <1>2 DEF publishKB, TypeOK, EtherOK
<1>7. UNCHANGED << settings, timestamp, call >> /\ call.op = "idle"
  BY <1>1 DEF publishKB, NonReentrant
<1>8. CallOK'
  BY <1>7 DEF TypeOK, CallOK
<1> QED BY <1>3, <1>4, <1>5, <1>6, <1>7, <1>8, SameSettings DEF TypeOK

LEMMA TypeStep ==
  ASSUME TypeOK, [Next]_vars
  PROVE  TypeOK'
<1>1. CASE Publish
  BY <1>1, TypePublish
<1>2. CASE Reputation
  BY <1>2, TypeReputation
<1>3. CASE Staking
  BY <1>3, TypeSlash, TypeWithdrawStake, TypeAddStake DEF Staking
<1>4. CASE Admin
  BY <1>4, TypeSetters, TypeWithdrawTreasury DEF Admin
<1>5. CASE \E h \in Hash : settleQuery(h)
  BY <1>5, TypeSettleQuery
<1>6. CASE Settle
  BY <1>6, TypeSettleSkip, TypeSettlePay, TypeSettleLinkPaid, TypeSettleFinish DEF Settle
<1>7. CASE \E a \in Account, v \in Deposits : receive(a, v)
  BY <1>7, TypeReceive
<1>8. CASE WithdrawDone \/ Revert \/ Tick
  BY <1>8, TypeWithdrawDone, TypeRevert, TypeTick
<1>9. CASE UNCHANGED vars
  BY <1>9, SamePublished, SameStakes, SameReputation, SameSettings, SameCall
     DEF vars, TypeOK, EtherOK
<1> QED BY <1>1, <1>2, <1>3, <1>4, <1>5, <1>6, <1>7, <1>8, <1>9 DEF Next

\* Every variable keeps its Solidity type and range, whatever the callbacks do.
THEOREM TypeCorrect == Spec => []TypeOK
BY TypeInit, TypeStep, PTL DEF Spec

-----------------------------------------------------------------------------
(* Provenance.  Only publication touches the DAG, and it adds a fresh hash *)
(* above registered parents.                                               *)

ParentsRegistered ==
  \A h \in Hash : \A i \in DOMAIN attributionDAG[h] : Registered(attributionDAG[h][i].parent)

SharesWithinWhole ==
  \A h \in Hash : TotalBps(attributionDAG[h], Len(attributionDAG[h])) <= Bps

CuratorsKnown == \A h \in Hash : Registered(h) => knowledgeBlocks[h].curator \in Payee

DagInv == ParentsRegistered /\ SharesWithinWhole /\ CuratorsKnown /\ ProvenanceAcyclic

LEMMA OnlyPublishPublishes ==
  ASSUME [Next]_vars
  PROVE  Publish \/ UNCHANGED published
<1>1. CASE Reputation
  BY <1>1 DEF Reputation, recordPositiveOutcome, endorse
<1>2. CASE Staking
  BY <1>2 DEF Staking, slash, withdrawStake, TakeStake, addStake
<1>3. CASE Admin
  BY <1>3 DEF Admin, setProtocolFee, setSlashRate, setMinStake, withdrawTreasury
<1>4. CASE \E h \in Hash : settleQuery(h)
  BY <1>4 DEF settleQuery
<1>5. CASE Settle
  BY <1>5 DEF Settle, SettleSkip, SettlePay, SettleLinkPaid, SettleFinish
<1>6. CASE \E a \in Account, v \in Deposits : receive(a, v)
  BY <1>6 DEF receive
<1>7. CASE WithdrawDone \/ Revert \/ Tick
  BY <1>7 DEF WithdrawDone, Revert, Tick
<1>8. CASE UNCHANGED vars
  BY <1>8 DEF vars
<1> QED BY <1>1, <1>2, <1>3, <1>4, <1>5, <1>6, <1>7, <1>8 DEF Next

LEMMA DagInit == Init => DagInv
<1> SUFFICES ASSUME Init PROVE DagInv
  OBVIOUS
<1>1. \A h \in Hash : ~ Registered(h) /\ attributionDAG[h] = << >>
  BY DEF Init, Registered, Unpublished
<1>2. ASSUME NEW h \in Hash PROVE TotalBps(attributionDAG[h], Len(attributionDAG[h])) <= Bps
  <2>1. TotalBps(attributionDAG[h], Len(attributionDAG[h])) = 0
    BY <1>1, SumZero DEF TotalBps
  <2> QED BY <2>1 DEF Bps
<1>3. ParentsRegistered /\ CuratorsKnown /\ ProvenanceAcyclic
  BY <1>1 DEF ParentsRegistered, CuratorsKnown, ProvenanceAcyclic
<1> QED BY <1>2, <1>3 DEF DagInv, SharesWithinWhole

LEMMA DagPublish ==
  ASSUME TypeOK, DagInv, Publish
  PROVE  DagInv'
<1>1. PICK h \in Hash, curator \in Payee, t \in KBTypes, d \in Domains, fee \in QueryFees,
           links \in LinkLists, value \in Deposits : publishKB(h, curator, t, d, fee, links, value)
  BY DEF Publish
<1> DEFINE kb == [curator |-> curator, kbType |-> t, domain |-> d, queryFee |-> fee, exists |-> TRUE]
<1>2. /\ ~ Registered(h) /\ ValidShares(h, links) /\ links \in Seq(Link)
      /\ knowledgeBlocks' = [knowledgeBlocks EXCEPT ![h] = kb]
      /\ attributionDAG' = [attributionDAG EXCEPT ![h] = links]
  BY <1>1, RegistryAssumption DEF publishKB
<1>3. /\ knowledgeBlocks \in [Hash -> KnowledgeBlock] /\ attributionDAG \in [Hash -> Seq(Link)]
      /\ protocolFeesBps \in 0 .. MaxFeeBps
  BY DEF TypeOK, PublishedOK, SettingsOK
<1>4. /\ Registered(h)' /\ knowledgeBlocks'[h].curator = curator
      /\ \A k \in Hash \ {h} : /\ Registered(k)' = Registered(k)
                               /\ knowledgeBlocks'[k] = knowledgeBlocks[k]
  BY <1>2, <1>3 DEF Registered
<1>5. /\ attributionDAG'[h] = links
      /\ \A k \in Hash \ {h} : attributionDAG'[k] = attributionDAG[k]
  BY <1>2, <1>3
<1>6. \A i \in DOMAIN links : links[i].parent \in Hash \ {h} /\ Registered(links[i].parent)
  <2> TAKE i \in DOMAIN links
  <2>1. links[i] \in Link BY <1>2
  <2> QED BY <2>1, <1>2, LinkFields DEF ValidShares
<1> HIDE DEF kb
<1>7. ParentsRegistered'
  <2> SUFFICES ASSUME NEW k \in Hash, NEW i \in DOMAIN attributionDAG'[k]
               PROVE  knowledgeBlocks'[attributionDAG'[k][i].parent].exists
    BY DEF ParentsRegistered, Registered
  <2>1. CASE k = h
    <3>1. links[i].parent \in Hash \ {h} /\ Registered(links[i].parent) BY <2>1, <1>5, <1>6
    <3> QED BY <2>1, <3>1, <1>4, <1>5 DEF Registered
  <2>2. CASE k # h
    <3>1. attributionDAG'[k] = attributionDAG[k] BY <2>2, <1>5
    <3>2. attributionDAG[k][i] \in Link BY <3>1, <1>3
    <3>3. attributionDAG[k][i].parent \in Hash BY <3>2, LinkFields
    <3>4. Registered(attributionDAG[k][i].parent) BY <3>1 DEF DagInv, ParentsRegistered
    <3>5. attributionDAG[k][i].parent # h BY <3>4, <1>2
    <3> QED BY <3>1, <3>3, <3>4, <3>5, <1>4 DEF Registered
  <2> QED BY <2>1, <2>2
<1>8. SharesWithinWhole'
  <2>1. TotalBps(links, Len(links)) <= Bps
    <3> DEFINE g == [i \in DOMAIN links |-> links[i].bps]
    <3>1. Len(links) \in Nat /\ DOMAIN links = 1 .. Len(links) BY <1>2
    <3>2. \A i \in 1 .. Len(links) : links[i].bps \in Nat BY <1>2, <3>1, LinkFields
    <3>3. \A i \in 1 .. Len(links) : g[i] \in Nat BY <3>1, <3>2
    <3> HIDE DEF g
    <3>4. SumTo(g, Len(links)) \in Nat BY <3>1, <3>3, SumNat, Zenon
    <3>5. SumTo(g, Len(links)) <= Bps - protocolFeesBps
      BY <1>2 DEF g, ValidShares, TotalBps
    <3>6. SumTo(g, Len(links)) <= Bps BY <3>4, <3>5, <1>3 DEF Bps, MaxFeeBps
    <3> QED BY <3>6 DEF g, TotalBps
  <2>2. ASSUME NEW k \in Hash PROVE TotalBps(attributionDAG'[k], Len(attributionDAG'[k])) <= Bps
    <3>1. CASE k = h BY <3>1, <2>1, <1>5
    <3>2. CASE k # h BY <3>2, <1>5 DEF DagInv, SharesWithinWhole
    <3> QED BY <3>1, <3>2
  <2> QED BY <2>2 DEF SharesWithinWhole
<1>9. CuratorsKnown'
  BY <1>4 DEF DagInv, CuratorsKnown
<1>10. ProvenanceAcyclic'
  <2> SUFFICES ASSUME NEW S \in SUBSET {k \in Hash : Registered(k)'}, S # {}
               PROVE  \E k \in S : \A i \in DOMAIN attributionDAG'[k] :
                        attributionDAG'[k][i].parent \notin S
    BY DEF ProvenanceAcyclic
  <2> DEFINE Old == S \ {h}
  <2>1. Old \in SUBSET {k \in Hash : Registered(k)}
    BY <1>4
  <2>2. CASE Old = {}
    <3>1. S = {h} BY <2>2
    <3> QED BY <3>1, <1>5, <1>6
  <2>3. CASE Old # {}
    <3>1. PICK k \in Old : \A i \in DOMAIN attributionDAG[k] : attributionDAG[k][i].parent \notin Old
      BY <2>1, <2>3 DEF DagInv, ProvenanceAcyclic
    <3>2. attributionDAG'[k] = attributionDAG[k] BY <1>5, <2>1
    <3>3. \A i \in DOMAIN attributionDAG[k] : attributionDAG[k][i].parent # h
      BY <2>1, <1>2 DEF DagInv, ParentsRegistered
    <3> QED BY <3>1, <3>2, <3>3
  <2> QED BY <2>2, <2>3
<1> QED BY <1>7, <1>8, <1>9, <1>10 DEF DagInv

LEMMA DagStep ==
  ASSUME TypeOK, DagInv, [Next]_vars
  PROVE  DagInv'
<1>1. CASE Publish
  BY <1>1, DagPublish
<1>2. CASE UNCHANGED published
  BY <1>2 DEF published, DagInv, ParentsRegistered, SharesWithinWhole, CuratorsKnown,
     ProvenanceAcyclic, Registered
<1> QED BY <1>1, <1>2, OnlyPublishPublishes

\* Following parents never leads back: the attribution DAG has no cycle.
THEOREM ProvenanceIsAcyclic == Spec => []ProvenanceAcyclic
<1>1. Init => TypeOK /\ DagInv
  BY TypeInit, DagInit
<1>2. TypeOK /\ DagInv /\ [Next]_vars => (TypeOK /\ DagInv)'
  BY TypeStep, DagStep
<1>3. TypeOK /\ DagInv => ProvenanceAcyclic
  BY DEF DagInv
<1> QED BY <1>1, <1>2, <1>3, PTL DEF Spec

-----------------------------------------------------------------------------
(* Ether.  The books are balanced between transactions, a revert restores  *)
(* balanced books, and what a settlement has paid is covered by the shares *)
(* it has passed.                                                          *)

NoStrayStake(st) == \A h \in Hash : ~ Registered(h) => st[h].amount = 0

Balanced(s) == s.balance = s.treasuryBalance + TotalStaked(s.stakes)

\* The links whose payment has at least been sent.
LinksPaid == IF InControl THEN call.i - 1 ELSE call.i

PaidForLinks ==
  call.op = "settle" =>
    IF LinksPaid <= Len(settledLinks)
    THEN Bps * call.paid <= call.distributable * TotalBps(settledLinks, LinksPaid)
    ELSE call.paid = call.distributable

EtherInv ==
  /\ Solvent
  /\ NoStrayStake(stakes)
  /\ call.op # "idle" => Balanced(call.saved) /\ NoStrayStake(call.saved.stakes)
  /\ call.op = "settle" => Registered(call.hash)
  /\ PaidForLinks

LEMMA TotalStakedIsNat ==
  ASSUME NEW st \in [Hash -> StakeRecord]
  PROVE  TotalStaked(st) \in Nat
<1> DEFINE g == [h \in Hash |-> st[h].amount]
<1>1. \A h \in 1 .. NumKB : g[h] \in Nat
  BY DEF Hash, StakeRecord
<1> HIDE DEF g
<1>2. SumTo(g, NumKB) \in Nat
  BY <1>1, SumNat, RegistryAssumption, Zenon
<1> QED BY <1>2 DEF g, TotalStaked

\* Changing the stake of one block changes the total by the difference.
LEMMA TotalStakedUpdate ==
  ASSUME NEW st \in [Hash -> StakeRecord], NEW h \in Hash, NEW r \in StakeRecord
  PROVE  TotalStaked([st EXCEPT ![h] = r]) = TotalStaked(st) + (r.amount - st[h].amount)
<1> DEFINE new == [st EXCEPT ![h] = r]
           g == [k \in Hash |-> st[k].amount]
           f == [k \in Hash |-> new[k].amount]
<1>1. new \in [Hash -> StakeRecord]
  OBVIOUS
<1>2. \A k \in 1 .. NumKB : g[k] \in Int /\ f[k] \in Int
  BY <1>1 DEF Hash, StakeRecord
<1>3. \A k \in 1 .. NumKB : k # h => f[k] = g[k]
  BY DEF Hash
<1>4. h \in 1 .. NumKB /\ f[h] = r.amount /\ g[h] = st[h].amount
  BY DEF Hash
<1>5. TotalStaked(st) = SumTo(g, NumKB) /\ TotalStaked(new) = SumTo(f, NumKB)
  BY DEF TotalStaked
<1> HIDE DEF g, f, new
<1>6. SumTo(f, NumKB) = SumTo(g, NumKB) + (f[h] - g[h])
  <2>1. /\ NumKB \in Nat /\ h \in 1 .. NumKB
        /\ \A k \in 1 .. NumKB : g[k] \in Int
        /\ \A k \in 1 .. NumKB : f[k] \in Int
    BY <1>2, <1>4, RegistryAssumption
  <2> QED BY <2>1, <1>3, SumUpdate
<1> QED BY <1>4, <1>5, <1>6 DEF new

\* The part of the shares that the first n links take is at most the whole.
LEMMA TotalBpsFacts ==
  ASSUME NEW links \in Seq(Link), NEW n \in 1 .. Len(links)
  PROVE  /\ TotalBps(links, n) = TotalBps(links, n - 1) + links[n].bps
         /\ TotalBps(links, n) <= TotalBps(links, Len(links))
         /\ TotalBps(links, n - 1) \in Nat /\ TotalBps(links, n) \in Nat
         /\ TotalBps(links, Len(links)) \in Nat
<1> DEFINE g == [i \in DOMAIN links |-> links[i].bps]
           N == Len(links)
<1>1. N \in Nat /\ DOMAIN links = 1 .. N
  OBVIOUS
<1>2. \A i \in 1 .. N : links[i].bps \in Nat
  BY <1>1, LinkFields
<1>3. \A i \in 1 .. N : g[i] \in Nat /\ g[i] \in Int
  BY <1>1, <1>2
<1>4. g[n] = links[n].bps
  BY <1>1
<1>5. \A m : TotalBps(links, m) = SumTo(g, m)
  BY DEF TotalBps
<1>6. n - 1 \in 0 .. N - 1 /\ n \in 0 .. N /\ (n - 1) + 1 = n /\ n - 1 \in 0 .. N /\ N \in 0 .. N
  BY <1>1
<1> HIDE DEF g, N
<1>7. SumTo(g, (n - 1) + 1) = SumTo(g, n - 1) + g[(n - 1) + 1]
  BY <1>1, <1>3, <1>6, SumStep, Zenon
<1>8. SumTo(g, n) <= SumTo(g, N)
  BY <1>1, <1>3, <1>6, SumMonotonic, Zenon
<1>9. ASSUME NEW m \in 0 .. N PROVE SumTo(g, m) \in Nat
  <2>1. m \in Nat /\ \A i \in 1 .. m : g[i] \in Nat BY <1>1, <1>3
  <2> QED BY <2>1, SumNat, Zenon
<1> QED BY <1>4, <1>5, <1>6, <1>7, <1>8, <1>9 DEF N

-----------------------------------------------------------------------------
(* The steps that keep the books balanced.                                 *)

LEMMA EtherInit == Init => EtherInv
<1> SUFFICES ASSUME Init PROVE EtherInv
  OBVIOUS
<1> DEFINE g == [h \in Hash |-> stakes[h].amount]
<1>1. \A h \in Hash : stakes[h].amount = 0
  BY DEF Init
<1>2. TotalStaked(stakes) = 0
  <2>1. \A n \in 0 .. NumKB : SumTo(g, n) = 0
    <3> DEFINE T == {n \in 0 .. NumKB : SumTo(g, n) = 0}
    <3>0. NumKB \in Nat /\ \A h \in 1 .. NumKB : g[h] = 0 /\ g[h] \in Int
      BY <1>1, RegistryAssumption DEF Hash
    <3> HIDE DEF g
    <3>1. 0 \in T BY SumZero, <3>0
    <3>2. ASSUME NEW n \in 0 .. NumKB - 1, n \in T PROVE n + 1 \in T
      <4>1. SumTo(g, n + 1) = SumTo(g, n) + g[n + 1] BY <3>0, SumStep
      <4>2. n + 1 \in 1 .. NumKB BY <3>0
      <4> QED BY <4>1, <4>2, <3>0, <3>2
    <3>3. \A n \in 0 .. NumKB : n \in T
      <4> HIDE DEF T
      <4> QED BY <3>0, <3>1, <3>2, UpTo, Zenon
    <3> QED BY <3>3
  <2> QED BY <2>1, RegistryAssumption DEF TotalStaked
<1>3. call.op = "idle"
  BY DEF Init, Idle
<1> QED BY <1>1, <1>2, <1>3
        DEF Init, EtherInv, Solvent, InFlight, NoStrayStake, PaidForLinks

\* Nothing that EtherInv says of the frame moves unless the call does.
LEMMA SameFrame ==
  ASSUME EtherInv, UNCHANGED << published, call >>
  PROVE  /\ InFlight' = InFlight /\ PaidForLinks'
         /\ call.op # "idle" => (Balanced(call.saved) /\ NoStrayStake(call.saved.stakes))'
         /\ call.op = "settle" => Registered(call.hash)'
<1>1. knowledgeBlocks' = knowledgeBlocks /\ attributionDAG' = attributionDAG /\ call' = call
  BY DEF published
<1> QED BY <1>1 DEF EtherInv, InFlight, PaidForLinks, LinksPaid, InControl, settledLinks,
                     Balanced, NoStrayStake, Registered

\* Calls that move no ether and no stake.
LEMMA EtherSame ==
  ASSUME EtherInv, UNCHANGED << published, call, stakes, treasuryBalance, balance >>
  PROVE  EtherInv'
<1>1. UNCHANGED << published, call >>
  OBVIOUS
<1>2. knowledgeBlocks' = knowledgeBlocks
  BY DEF published
<1> QED BY <1>1, <1>2, SameFrame DEF EtherInv, Solvent, NoStrayStake, Registered

LEMMA EtherReceive ==
  ASSUME TypeOK, EtherInv, NEW a \in Account, NEW v \in Deposits, receive(a, v)
  PROVE  EtherInv'
<1>1. /\ UNCHANGED << published, call >> /\ UNCHANGED stakes
      /\ treasuryBalance' = treasuryBalance + v /\ balance' = balance + v /\ v \in Nat
  BY RegistryAssumption DEF receive
<1>2. knowledgeBlocks' = knowledgeBlocks
  BY <1>1 DEF published
<1>3. TotalStaked(stakes) \in Nat /\ InFlight \in Int /\ balance \in Nat /\ treasuryBalance \in Nat
  BY TotalStakedIsNat, SettlingFrame DEF TypeOK, StakesOK, InFlight, EtherOK
<1>4. Solvent'
  BY <1>1, <1>3, SameFrame DEF EtherInv, Solvent
<1> QED BY <1>1, <1>2, <1>4, SameFrame DEF EtherInv, NoStrayStake, Registered

LEMMA EtherAddStake ==
  ASSUME TypeOK, EtherInv, NEW a \in Account, NEW h \in Hash, NEW v \in Deposits, addStake(a, h, v)
  PROVE  EtherInv'
<1> DEFINE r == [stakes[h] EXCEPT !.amount = @ + v, !.lockedUntil = timestamp + LockPeriod]
<1>0. stakes \in [Hash -> StakeRecord] /\ stakes[h] \in StakeRecord /\ v \in Nat
      /\ timestamp + LockPeriod \in Nat
  BY RegistryAssumption DEF TypeOK, StakesOK
<1>1. /\ UNCHANGED << published, call >> /\ Registered(h)
      /\ treasuryBalance' = treasuryBalance /\ balance' = balance + v
      /\ stakes' = [stakes EXCEPT ![h] = r]
  BY <1>0 DEF addStake
<1>2. r.amount = stakes[h].amount + v /\ stakes[h].amount \in Nat /\ r \in StakeRecord
  <2>1. stakes[h].amount \in Nat BY <1>0 DEF StakeRecord
  <2>2. r.amount = stakes[h].amount + v BY <1>0 DEF StakeRecord
  <2>3. stakes[h].amount + v \in Nat BY <2>1, <1>0
  <2> QED BY <2>1, <2>2, <2>3, <1>0, StakeUpdates
<1> HIDE DEF r
<1>3. TotalStaked(stakes') = TotalStaked(stakes) + v
  <2>1. TotalStaked(stakes') = TotalStaked(stakes) + (r.amount - stakes[h].amount)
    BY <1>0, <1>1, <1>2, TotalStakedUpdate
  <2> QED BY <2>1, <1>0, <1>2
<1>4. knowledgeBlocks' = knowledgeBlocks
  BY <1>1 DEF published
<1>5. TotalStaked(stakes) \in Nat /\ InFlight \in Int /\ balance \in Nat /\ treasuryBalance \in Nat
  BY TotalStakedIsNat, SettlingFrame DEF TypeOK, StakesOK, InFlight, EtherOK
<1>6. Solvent'
  BY <1>0, <1>1, <1>3, <1>5, SameFrame DEF EtherInv, Solvent
<1>7. NoStrayStake(stakes)'
  BY <1>0, <1>1, <1>4 DEF EtherInv, NoStrayStake, Registered
<1> QED BY <1>1, <1>6, <1>7, SameFrame DEF EtherInv

LEMMA EtherSlash ==
  ASSUME TypeOK, EtherInv, NEW h \in Hash, slash(h)
  PROVE  EtherInv'
<1> DEFINE taken == (stakes[h].amount * slashRateBps) \div Bps
           r     == [stakes[h] EXCEPT !.amount = @ - taken, !.slashed = TRUE]
<1>0. /\ stakes \in [Hash -> StakeRecord] /\ stakes[h] \in StakeRecord
      /\ stakes[h].amount \in Nat /\ slashRateBps \in 0 .. Bps
  BY SlashRateIsPart DEF TypeOK, StakesOK, StakeRecord
<1>1. taken \in 0 .. stakes[h].amount
  BY <1>0, PartOfAmount, Zenon
<1>2. /\ UNCHANGED << published, call >> /\ Registered(h) /\ balance' = balance
      /\ stakes' = [stakes EXCEPT ![h] = r] /\ treasuryBalance' = treasuryBalance + taken
  BY <1>0 DEF slash
<1> HIDE DEF taken
<1>3. r \in StakeRecord /\ r.amount = stakes[h].amount - taken
  <2>1. stakes[h].amount - taken \in Nat BY <1>0, <1>1
  <2>2. r.amount = stakes[h].amount - taken BY <1>0 DEF StakeRecord
  <2>3. r \in StakeRecord BY <1>0, <2>1, StakeUpdates, Zenon
  <2> QED BY <2>2, <2>3
<1> HIDE DEF r
<1>4. TotalStaked(stakes') = TotalStaked(stakes) - taken
  <2>1. TotalStaked(stakes') = TotalStaked(stakes) + (r.amount - stakes[h].amount)
    BY <1>0, <1>2, <1>3, TotalStakedUpdate
  <2>2. TotalStaked(stakes) \in Nat BY <1>0, TotalStakedIsNat
  <2> QED BY <2>1, <2>2, <1>0, <1>1, <1>3
<1>5. knowledgeBlocks' = knowledgeBlocks
  BY <1>2 DEF published
<1>6. TotalStaked(stakes) \in Nat /\ InFlight \in Int /\ balance \in Nat /\ treasuryBalance \in Nat
  BY TotalStakedIsNat, SettlingFrame DEF TypeOK, StakesOK, InFlight, EtherOK
<1>7. Solvent'
  BY <1>0, <1>1, <1>2, <1>4, <1>6, SameFrame DEF EtherInv, Solvent
<1>8. NoStrayStake(stakes)'
  BY <1>0, <1>2, <1>5 DEF EtherInv, NoStrayStake, Registered
<1> QED BY <1>2, <1>7, <1>8, SameFrame DEF EtherInv

LEMMA EtherPublish ==
  ASSUME TypeOK, EtherInv, Publish
  PROVE  EtherInv'
<1>1. PICK h \in Hash, curator \in Payee, t \in KBTypes, d \in Domains, fee \in QueryFees,
           links \in LinkLists, value \in Deposits : publishKB(h, curator, t, d, fee, links, value)
  BY DEF Publish
<1> DEFINE r == [amount |-> value, lockedUntil |-> timestamp + LockPeriod, slashed |-> FALSE]
<1>2. /\ call.op = "idle" /\ call' = call /\ ~ Registered(h)
      /\ stakes' = [stakes EXCEPT ![h] = r]
      /\ balance' = balance + value /\ treasuryBalance' = treasuryBalance
      /\ \A k \in Hash : ~ Registered(k)' => ~ Registered(k) /\ k # h
  <2>1. knowledgeBlocks \in [Hash -> KnowledgeBlock] BY DEF TypeOK, PublishedOK
  <2>2. ASSUME NEW k \in Hash, ~ Registered(k)' PROVE ~ Registered(k) /\ k # h
    BY <1>1, <2>1, <2>2 DEF publishKB, Registered
  <2> QED BY <1>1, <2>2 DEF publishKB, NonReentrant
<1>3. value \in Nat /\ stakes \in [Hash -> StakeRecord] /\ r \in StakeRecord
  BY RegistryAssumption DEF TypeOK, StakesOK, StakeRecord
<1>4. r.amount = value /\ stakes[h].amount = 0
  BY <1>2 DEF EtherInv, NoStrayStake
<1> HIDE DEF r
<1>5. TotalStaked(stakes') = TotalStaked(stakes) + value
  <2>1. TotalStaked(stakes') = TotalStaked(stakes) + (r.amount - stakes[h].amount)
    BY <1>2, <1>3, TotalStakedUpdate
  <2> QED BY <2>1, <1>3, <1>4
<1>6. Solvent'
  <2>1. TotalStaked(stakes) \in Nat /\ balance \in Nat /\ treasuryBalance \in Nat
    BY <1>3, TotalStakedIsNat DEF TypeOK, EtherOK
  <2>2. InFlight = 0 /\ InFlight' = 0
    BY <1>2 DEF InFlight
  <2> QED BY <1>2, <1>3, <1>5, <2>1, <2>2 DEF EtherInv, Solvent
<1>7. NoStrayStake(stakes)'
  BY <1>2, <1>3 DEF EtherInv, NoStrayStake
<1> QED BY <1>2, <1>6, <1>7 DEF EtherInv, PaidForLinks

\* Between transactions the snapshot is balanced.
LEMMA SnapshotBalanced ==
  ASSUME TypeOK, EtherInv, call.op = "idle"
  PROVE  /\ Balanced(Snapshot) /\ NoStrayStake(Snapshot.stakes)
         /\ balance = treasuryBalance + TotalStaked(stakes)
         /\ balance \in Nat /\ treasuryBalance \in Nat /\ TotalStaked(stakes) \in Nat
<1>1. TotalStaked(stakes) \in Nat /\ balance \in Nat /\ treasuryBalance \in Nat
  BY TotalStakedIsNat DEF TypeOK, StakesOK, EtherOK
<1>2. InFlight = 0
  BY DEF InFlight
<1>3. balance = treasuryBalance + TotalStaked(stakes)
  BY <1>1, <1>2 DEF EtherInv, Solvent
<1>4. Snapshot.balance = balance /\ Snapshot.treasuryBalance = treasuryBalance
      /\ Snapshot.stakes = stakes
  BY DEF Snapshot
<1> QED BY <1>1, <1>3, <1>4 DEF Balanced, EtherInv

LEMMA EtherWithdrawStake ==
  ASSUME TypeOK, EtherInv, NEW a \in Account, NEW h \in Hash, withdrawStake(a, h)
  PROVE  EtherInv'
<1> DEFINE r == [stakes[h] EXCEPT !.amount = 0]
<1>1. /\ call.op = "idle" /\ UNCHANGED << published, treasuryBalance >>
      /\ stakes' = [stakes EXCEPT ![h] = r] /\ balance' = balance - stakes[h].amount
      /\ call' = [Idle EXCEPT !.op = "withdraw", !.callee = a, !.saved = Snapshot]
  BY DEF withdrawStake, TakeStake, IsCuratorOf, NonReentrant, TypeOK, StakesOK
<1>2. /\ stakes \in [Hash -> StakeRecord] /\ stakes[h] \in StakeRecord
      /\ stakes[h].amount \in Nat
  BY DEF TypeOK, StakesOK, StakeRecord
<1>3. r \in StakeRecord /\ r.amount = 0
  BY <1>2, StakeUpdates DEF StakeRecord
<1> HIDE DEF r
<1>4. TotalStaked(stakes') = TotalStaked(stakes) - stakes[h].amount
  <2>1. TotalStaked(stakes') = TotalStaked(stakes) + (r.amount - stakes[h].amount)
    BY <1>1, <1>2, <1>3, TotalStakedUpdate
  <2>2. TotalStaked(stakes) \in Nat BY <1>2, TotalStakedIsNat
  <2> QED BY <2>1, <2>2, <1>2, <1>3
<1>5. call'.op = "withdraw" /\ call'.saved = Snapshot
  BY <1>1 DEF Idle
<1>6. knowledgeBlocks' = knowledgeBlocks
  BY <1>1 DEF published
<1>7. Solvent'
  <2>1. InFlight' = 0 BY <1>5 DEF InFlight
  <2> QED BY <2>1, <1>1, <1>2, <1>4, SnapshotBalanced DEF Solvent
<1>8. NoStrayStake(stakes)' /\ NoStrayStake(Snapshot.stakes)
  <2>1. \A k \in Hash : ~ Registered(k) => stakes'[k].amount = 0
    BY <1>1, <1>2, <1>3 DEF EtherInv, NoStrayStake
  <2> QED BY <2>1, <1>1, <1>6, SnapshotBalanced DEF NoStrayStake, Registered
<1>9. (Balanced(call.saved) /\ NoStrayStake(call.saved.stakes))'
  BY <1>1, <1>5, <1>6, <1>8, SnapshotBalanced DEF Balanced, NoStrayStake, Registered
<1> QED BY <1>5, <1>7, <1>8, <1>9 DEF EtherInv, PaidForLinks

LEMMA EtherWithdrawTreasury ==
  ASSUME TypeOK, EtherInv, NEW a \in Payee, withdrawTreasury(a)
  PROVE  EtherInv'
<1>1. /\ call.op = "idle" /\ UNCHANGED << published, stakes >>
      /\ balance' = BalanceAfter(a, treasuryBalance)
      /\ treasuryBalance' = TreasuryAfter(0, a, treasuryBalance)
      /\ call' = [Idle EXCEPT !.op = "withdraw", !.callee = a, !.saved = Snapshot]
  BY DEF withdrawTreasury, NonReentrant
<1>2. call'.op = "withdraw" /\ call'.saved = Snapshot
  BY <1>1 DEF Idle
<1>3. knowledgeBlocks' = knowledgeBlocks
  BY <1>1 DEF published
<1>4. Solvent'
  <2>1. InFlight' = 0 BY <1>2 DEF InFlight
  <2>2. TotalStaked(stakes') = TotalStaked(stakes) BY <1>1
  <2> QED BY <2>1, <2>2, <1>1, SnapshotBalanced DEF Solvent, BalanceAfter, TreasuryAfter
<1>5. NoStrayStake(stakes)'
  BY <1>1, <1>3 DEF EtherInv, NoStrayStake, Registered
<1>6. (Balanced(call.saved) /\ NoStrayStake(call.saved.stakes))'
  BY <1>1, <1>2, <1>3, SnapshotBalanced DEF Balanced, NoStrayStake, Registered
<1> QED BY <1>2, <1>4, <1>5, <1>6 DEF EtherInv, PaidForLinks

\* The end of a transaction: committed as it is, or restored.
LEMMA EtherWithdrawDone ==
  ASSUME TypeOK, EtherInv, WithdrawDone
  PROVE  EtherInv'
<1>1. /\ call.op = "withdraw" /\ call' = Idle
      /\ UNCHANGED << published, stakes, treasuryBalance, balance >>
  BY DEF WithdrawDone
<1>2. InFlight = 0 /\ InFlight' = 0 /\ call'.op = "idle"
  BY <1>1, IdleIsFrame DEF InFlight
<1>3. knowledgeBlocks' = knowledgeBlocks
  BY <1>1 DEF published
<1>4. Solvent' /\ NoStrayStake(stakes)'
  BY <1>1, <1>2, <1>3 DEF EtherInv, Solvent, NoStrayStake, Registered
<1> QED BY <1>2, <1>4 DEF EtherInv, PaidForLinks

LEMMA EtherRevert ==
  ASSUME TypeOK, EtherInv, Revert
  PROVE  EtherInv'
<1>1. /\ call.op # "idle" /\ call' = Idle /\ UNCHANGED published
      /\ stakes' = call.saved.stakes /\ balance' = call.saved.balance
      /\ treasuryBalance' = call.saved.treasuryBalance
  BY DEF Revert
<1>2. InFlight' = 0 /\ call'.op = "idle"
  BY <1>1, IdleIsFrame DEF InFlight
<1>3. knowledgeBlocks' = knowledgeBlocks
  BY <1>1 DEF published
<1>4. call.saved \in SavedState /\ Balanced(call.saved) /\ NoStrayStake(call.saved.stakes)
  BY <1>1 DEF EtherInv, TypeOK, CallOK
<1>5. /\ call.saved.balance \in Nat /\ call.saved.treasuryBalance \in Nat
      /\ TotalStaked(call.saved.stakes) \in Nat
  BY <1>4, TotalStakedIsNat DEF SavedState
<1>6. Solvent' /\ NoStrayStake(stakes)'
  BY <1>1, <1>2, <1>3, <1>4, <1>5 DEF Balanced, Solvent, NoStrayStake, Registered
<1> QED BY <1>2, <1>6 DEF EtherInv, PaidForLinks

-----------------------------------------------------------------------------
(* The settlement, payment by payment.                                     *)

LEMMA EtherSettleQuery ==
  ASSUME TypeOK, EtherInv, NEW h \in Hash, settleQuery(h)
  PROVE  EtherInv'
<1> DEFINE value == knowledgeBlocks[h].queryFee
           fee   == (value * protocolFeesBps) \div Bps
<1>1. value \in Nat /\ protocolFeesBps \in 0 .. Bps
  <2>1. knowledgeBlocks[h] \in KnowledgeBlock BY DEF TypeOK, PublishedOK
  <2>2. protocolFeesBps \in 0 .. Bps BY DEF TypeOK, SettingsOK, Bps, MaxFeeBps
  <2> QED BY <2>1, <2>2 DEF KnowledgeBlock
<1>2. fee \in 0 .. value
  BY <1>1, PartOfAmount, Zenon
<1>3. /\ call.op = "idle" /\ Registered(h) /\ UNCHANGED << published, stakes >>
      /\ treasuryBalance' = treasuryBalance + fee /\ balance' = balance + value
      /\ call' = [op |-> "settle", hash |-> h, i |-> 1, callee |-> Zero, paid |-> 0,
                  distributable |-> value - fee, saved |-> Snapshot]
  BY DEF settleQuery, NonReentrant
<1> HIDE DEF value, fee
<1>4. /\ call'.op = "settle" /\ call'.hash = h /\ call'.i = 1 /\ call'.callee = Zero
      /\ call'.paid = 0 /\ call'.distributable = value - fee /\ call'.saved = Snapshot
  BY <1>3
<1>5. knowledgeBlocks' = knowledgeBlocks /\ attributionDAG' = attributionDAG
  BY <1>3 DEF published
<1>6. Solvent'
  <2>1. InFlight' = value - fee BY <1>1, <1>2, <1>4 DEF InFlight
  <2>2. TotalStaked(stakes') = TotalStaked(stakes) BY <1>3
  <2> QED BY <2>1, <2>2, <1>1, <1>2, <1>3, SnapshotBalanced DEF Solvent
<1>7. NoStrayStake(stakes)'
  BY <1>3, <1>5 DEF EtherInv, NoStrayStake, Registered
<1>8. (Balanced(call.saved) /\ NoStrayStake(call.saved.stakes))'
  BY <1>3, <1>4, <1>5, SnapshotBalanced DEF Balanced, NoStrayStake, Registered
<1>9. PaidForLinks'
  <2>1. LinksPaid' = 0 BY <1>4 DEF LinksPaid, InControl
  <2>2. Len(attributionDAG[h]) \in Nat BY DEF TypeOK, PublishedOK
  <2>3. settledLinks' = attributionDAG[h] BY <1>4, <1>5 DEF settledLinks
  <2>4. TotalBps(attributionDAG[h], 0) = 0 BY SumZero DEF TotalBps
  <2>5. Bps * 0 <= (value - fee) * 0 BY <1>1, <1>2 DEF Bps
  <2> QED BY <2>1, <2>2, <2>3, <2>4, <2>5, <1>4 DEF PaidForLinks
<1> QED BY <1>3, <1>4, <1>5, <1>6, <1>7, <1>8, <1>9 DEF EtherInv, Registered

\* A payment of a settlement that has control stays within the fee.
LEMMA DueIsCovered ==
  ASSUME TypeOK, DagInv, EtherInv, call.op = "settle", InControl
  PROVE  /\ 0 <= Due /\ Due <= call.distributable - call.paid /\ Due <= balance
         /\ ~ AtCurator => Bps * (call.paid + Due) <= call.distributable * TotalBps(settledLinks, call.i)
<1> DEFINE n     == call.i
           D     == call.distributable
           P     == call.paid
           links == settledLinks
<1>1. /\ call.hash \in Hash /\ links \in Seq(Link) /\ n \in 1 .. Len(links) + 1
      /\ Len(links) \in Nat /\ P \in Nat /\ D \in Nat
  BY SettlingFrame
<1>2. TotalBps(links, Len(links)) <= Bps
  BY <1>1 DEF DagInv, SharesWithinWhole, settledLinks
<1>3. Bps * P <= D * TotalBps(links, n - 1)
  BY <1>1 DEF EtherInv, PaidForLinks, LinksPaid
<1>4. Due <= D - P => Due <= balance
  <2>1. TotalStaked(stakes) \in Nat /\ balance \in Nat /\ treasuryBalance \in Nat
    BY TotalStakedIsNat DEF TypeOK, StakesOK, EtherOK
  <2>2. balance = treasuryBalance + TotalStaked(stakes) + (D - P)
    BY DEF EtherInv, Solvent, InFlight
  <2>3. Due \in Int BY SettlingFrame
  <2> QED BY <1>1, <2>1, <2>2, <2>3
<1>5. CASE AtCurator
  <2>1. n - 1 = Len(links) BY <1>1, <1>5 DEF AtCurator
  <2>2. TotalBps(links, Len(links)) \in Nat
    <3>1. CASE Len(links) = 0 BY <3>1, SumZero DEF TotalBps
    <3>2. CASE Len(links) # 0
      <4>1. Len(links) \in 1 .. Len(links) BY <1>1, <3>2
      <4> QED BY <4>1, <1>1, TotalBpsFacts
    <3> QED BY <3>1, <3>2
  <2> DEFINE T == TotalBps(links, Len(links))
  <2>3. Bps * P <= D * T /\ T \in Nat /\ T <= Bps BY <1>2, <1>3, <2>1, <2>2
  <2> HIDE DEF T, D, P
  <2>4. D * T <= D * Bps BY <1>1, <2>3 DEF Bps
  <2>5. P <= D BY <1>1, <2>3, <2>4 DEF Bps
  <2>6. Due = D - P BY <1>5 DEF Due, D, P
  <2>7. 0 <= Due /\ Due <= D - P BY <1>1, <2>5, <2>6 DEF D, P
  <2>8. 0 <= Due /\ Due <= call.distributable - call.paid /\ Due <= balance
    BY <1>4, <2>7, Zenon DEF D, P
  <2> QED BY <1>5, <2>8, Zenon
<1>6. CASE ~ AtCurator
  <2>1. n \in 1 .. Len(links) BY <1>1, <1>6 DEF AtCurator
  <2> DEFINE b == links[n].bps
             T == TotalBps(links, n - 1)
  <2>2. /\ TotalBps(links, n) = T + b /\ T + b <= Bps /\ T \in Nat
    BY <2>1, <1>1, <1>2, TotalBpsFacts DEF Bps
  <2>3. b \in Nat BY <2>1, <1>1, LinkFields
  <2>4. Due \in Nat /\ Bps * Due <= D * b
    <3>1. (D * b) \div Bps \in Nat /\ Bps * ((D * b) \div Bps) <= D * b
      BY <1>1, <2>3, ShareRoundsDown, Zenon
    <3>2. D * b \in Nat BY <1>1, <2>3
    <3>3. CASE Registered(Recipient)
      <4>1. Due = (D * b) \div Bps BY <1>6, <3>3 DEF Due
      <4> QED BY <4>1, <3>1
    <3>4. CASE ~ Registered(Recipient)
      <4>1. Due = 0 BY <1>6, <3>4 DEF Due
      <4> QED BY <4>1, <3>2 DEF Bps
    <3> QED BY <3>3, <3>4
  <2>5. Bps * P <= D * T BY <1>3
  <2>6. P \in Nat /\ D \in Nat BY <1>1
  <2> HIDE DEF b, T, D, P
  <2>7. Bps * (P + Due) <= D * (T + b)
    <3>1. Bps * (P + Due) = Bps * P + Bps * Due BY <2>4, <2>6 DEF Bps
    <3>2. D * (T + b) = D * T + D * b BY <2>2, <2>3, <2>6
    <3>3. D * T \in Nat /\ D * b \in Nat BY <2>2, <2>3, <2>6
    <3>4. Bps * P \in Nat /\ Bps * Due \in Nat BY <2>4, <2>6 DEF Bps
    <3> QED BY <3>1, <3>2, <3>3, <3>4, <2>4, <2>5
  <2>8. D * (T + b) <= D * Bps BY <2>2, <2>3, <2>6 DEF Bps
  <2>9. P + Due <= D
    <3>1. D * (T + b) \in Nat BY <2>2, <2>3, <2>6
    <3> QED BY <3>1, <2>4, <2>6, <2>7, <2>8 DEF Bps
  <2>10. Bps * (P + Due) <= D * TotalBps(links, n)
    BY <2>2, <2>7, Zenon
  <2>11. 0 <= Due /\ Due <= D - P
    BY <2>4, <2>6, <2>9
  <2>12. Bps * (call.paid + Due) <= call.distributable * TotalBps(settledLinks, call.i)
    BY <2>10 DEF D, P
  <2>13. 0 <= Due /\ Due <= call.distributable - call.paid /\ Due <= balance
    BY <1>4, <2>11, Zenon DEF D, P
  <2> QED BY <2>12, <2>13
<1> QED BY <1>5, <1>6

LEMMA EtherSettleSkip ==
  ASSUME TypeOK, DagInv, EtherInv, SettleSkip
  PROVE  EtherInv'
<1>1. /\ call.op = "settle" /\ InControl /\ ~ AtCurator /\ Due = 0
      /\ call' = [call EXCEPT !.i = @ + 1]
      /\ UNCHANGED << published, stakes, treasuryBalance, balance >>
  BY DEF SettleSkip
<1>2. /\ call'.op = "settle" /\ call'.hash = call.hash /\ call'.i = call.i + 1
      /\ call'.callee = Zero /\ call'.paid = call.paid
      /\ call'.distributable = call.distributable /\ call'.saved = call.saved
  BY <1>1 DEF TypeOK, CallOK, Frame, InControl
<1>3. knowledgeBlocks' = knowledgeBlocks /\ attributionDAG' = attributionDAG
  BY <1>1 DEF published
<1>4. Solvent' /\ NoStrayStake(stakes)'
  BY <1>1, <1>2, <1>3 DEF EtherInv, Solvent, InFlight, NoStrayStake, Registered
<1>5. PaidForLinks'
  <2>1. LinksPaid' = call.i /\ settledLinks' = settledLinks
    <3>1. call.i \in Nat BY SettlingFrame, <1>1
    <3> QED BY <3>1, <1>2, <1>3 DEF LinksPaid, InControl, settledLinks
  <2>2. call.i <= Len(settledLinks)
    BY <1>1, SettlingFrame DEF AtCurator
  <2>3. Bps * call.paid <= call.distributable * TotalBps(settledLinks, call.i)
    <3>1. call.paid + Due = call.paid BY <1>1, SettlingFrame
    <3> QED BY <3>1, <1>1, DueIsCovered
  <2> QED BY <2>1, <2>2, <2>3, <1>2 DEF PaidForLinks
<1> QED BY <1>1, <1>2, <1>3, <1>4, <1>5 DEF EtherInv, Balanced, NoStrayStake, Registered

LEMMA EtherSettlePay ==
  ASSUME TypeOK, DagInv, EtherInv, SettlePay
  PROVE  EtherInv'
<1> DEFINE to == knowledgeBlocks[Recipient].curator
<1>1. /\ call.op = "settle" /\ InControl /\ Due > 0
      /\ call' = [call EXCEPT !.callee = to, !.paid = @ + Due]
      /\ balance' = BalanceAfter(to, Due)
      /\ treasuryBalance' = TreasuryAfter(treasuryBalance, to, Due)
      /\ UNCHANGED << published, stakes >>
  BY DEF SettlePay
<1>2. Recipient \in Hash /\ Registered(Recipient) /\ to # Zero
  <2>1. Recipient \in Hash BY <1>1, SettlingFrame
  <2>2. CASE AtCurator
    <3>1. Registered(Recipient) BY <1>1, <2>2 DEF Recipient, EtherInv
    <3> QED BY <2>1, <3>1, RegistryAssumption DEF DagInv, CuratorsKnown
  <2>3. CASE ~ AtCurator
    <3>1. Registered(Recipient) BY <1>1, <2>3 DEF Due
    <3> QED BY <2>1, <3>1, RegistryAssumption DEF DagInv, CuratorsKnown
  <2> QED BY <2>2, <2>3
<1> HIDE DEF to
<1>3. /\ call'.op = "settle" /\ call'.hash = call.hash /\ call'.i = call.i
      /\ call'.callee = to /\ call'.paid = call.paid + Due
      /\ call'.distributable = call.distributable /\ call'.saved = call.saved
  BY <1>1 DEF TypeOK, CallOK, Frame
<1>4. knowledgeBlocks' = knowledgeBlocks /\ attributionDAG' = attributionDAG
  BY <1>1 DEF published
<1>5. Due \in Int /\ call.paid \in Nat /\ call.distributable \in Nat /\ call.i \in Nat
  BY <1>1, SettlingFrame
<1>6. Solvent'
  <2>1. TotalStaked(stakes) \in Nat /\ balance \in Nat /\ treasuryBalance \in Nat
    BY TotalStakedIsNat DEF TypeOK, StakesOK, EtherOK
  <2>2. InFlight = call.distributable - call.paid BY <1>1 DEF InFlight
  <2>3. InFlight' = call.distributable - (call.paid + Due) BY <1>3 DEF InFlight
  <2>4. TotalStaked(stakes') = TotalStaked(stakes) BY <1>1
  <2> QED BY <1>1, <1>5, <2>1, <2>2, <2>3, <2>4
          DEF EtherInv, Solvent, BalanceAfter, TreasuryAfter
<1>7. PaidForLinks'
  <2>1. LinksPaid' = call.i /\ settledLinks' = settledLinks
    BY <1>2, <1>3, <1>4 DEF LinksPaid, InControl, settledLinks
  <2>2. CASE AtCurator
    <3>1. ~ (call.i <= Len(settledLinks)) BY <2>2, <1>1, SettlingFrame DEF AtCurator
    <3>2. call.paid + Due = call.distributable BY <2>2, <1>5 DEF Due
    <3> QED BY <2>1, <3>1, <3>2, <1>3 DEF PaidForLinks
  <2>3. CASE ~ AtCurator
    <3>1. call.i <= Len(settledLinks) BY <2>3, <1>1, SettlingFrame DEF AtCurator
    <3>2. Bps * (call.paid + Due) <= call.distributable * TotalBps(settledLinks, call.i)
      BY <2>3, <1>1, DueIsCovered
    <3> QED BY <2>1, <3>1, <3>2, <1>3 DEF PaidForLinks
  <2> QED BY <2>2, <2>3
<1>8. NoStrayStake(stakes)'
  BY <1>1, <1>4 DEF EtherInv, NoStrayStake, Registered
<1> QED BY <1>1, <1>3, <1>4, <1>6, <1>7, <1>8 DEF EtherInv, Balanced, NoStrayStake, Registered

LEMMA EtherSettleLinkPaid ==
  ASSUME TypeOK, EtherInv, SettleLinkPaid
  PROVE  EtherInv'
<1>1. /\ call.op = "settle" /\ ~ InControl /\ ~ AtCurator
      /\ call' = [call EXCEPT !.callee = Zero, !.i = @ + 1]
      /\ UNCHANGED << published, stakes, treasuryBalance, balance >>
  BY DEF SettleLinkPaid
<1>2. /\ call'.op = "settle" /\ call'.hash = call.hash /\ call'.i = call.i + 1
      /\ call'.callee = Zero /\ call'.paid = call.paid
      /\ call'.distributable = call.distributable /\ call'.saved = call.saved
  BY <1>1 DEF TypeOK, CallOK, Frame
<1>3. knowledgeBlocks' = knowledgeBlocks /\ attributionDAG' = attributionDAG
  BY <1>1 DEF published
<1>4. Solvent' /\ NoStrayStake(stakes)'
  BY <1>1, <1>2, <1>3 DEF EtherInv, Solvent, InFlight, NoStrayStake, Registered
<1>5. PaidForLinks'
  <2>1. LinksPaid' = call.i /\ settledLinks' = settledLinks
    <3>1. call.i \in Nat BY SettlingFrame, <1>1
    <3> QED BY <3>1, <1>2, <1>3 DEF LinksPaid, InControl, settledLinks
  <2>2. LinksPaid = call.i BY <1>1 DEF LinksPaid
  <2> QED BY <2>1, <2>2, <1>1, <1>2 DEF EtherInv, PaidForLinks
<1> QED BY <1>1, <1>2, <1>3, <1>4, <1>5 DEF EtherInv, Balanced, NoStrayStake, Registered

LEMMA EtherSettleFinish ==
  ASSUME TypeOK, EtherInv, SettleFinish
  PROVE  EtherInv'
<1>1. /\ call.op = "settle" /\ AtCurator /\ (InControl => Due = 0) /\ call' = Idle
      /\ UNCHANGED << published, stakes, treasuryBalance, balance >>
  BY DEF SettleFinish
<1>2. call.paid \in Nat /\ call.distributable \in Nat /\ call.i \in Nat
      /\ Len(settledLinks) \in Nat
  BY <1>1, SettlingFrame
<1>3. InFlight = 0
  <2>1. CASE InControl
    <3>1. call.distributable - call.paid = 0 BY <1>1, <2>1 DEF Due
    <3> QED BY <3>1, <1>1 DEF InFlight
  <2>2. CASE ~ InControl
    <3>1. ~ (LinksPaid <= Len(settledLinks)) BY <1>1, <1>2, <2>2 DEF LinksPaid, AtCurator
    <3>2. call.paid = call.distributable BY <1>1, <3>1 DEF EtherInv, PaidForLinks
    <3> QED BY <3>2, <1>1, <1>2 DEF InFlight
  <2> QED BY <2>1, <2>2
<1>4. InFlight' = 0 /\ call'.op = "idle"
  BY <1>1, IdleIsFrame DEF InFlight
<1>5. knowledgeBlocks' = knowledgeBlocks
  BY <1>1 DEF published
<1>6. Solvent' /\ NoStrayStake(stakes)'
  BY <1>1, <1>3, <1>4, <1>5 DEF EtherInv, Solvent, NoStrayStake, Registered
<1> QED BY <1>4, <1>6 DEF EtherInv, PaidForLinks

LEMMA EtherStep ==
  ASSUME TypeOK, DagInv, EtherInv, [Next]_vars
  PROVE  EtherInv'
<1>1. CASE Publish
  BY <1>1, EtherPublish
<1>2. CASE Reputation
  <2>1. UNCHANGED << published, call, stakes, treasuryBalance, balance >>
    BY <1>2 DEF Reputation, recordPositiveOutcome, endorse
  <2> QED BY <2>1, EtherSame
<1>3. CASE Staking
  BY <1>3, EtherSlash, EtherWithdrawStake, EtherAddStake DEF Staking
<1>4. CASE Admin
  <2>1. ASSUME NEW a \in Payee, withdrawTreasury(a) PROVE EtherInv'
    BY <2>1, EtherWithdrawTreasury
  <2>2. ASSUME \/ \E b \in FeeChoices : setProtocolFee(b)
               \/ \E b \in SlashChoices : setSlashRate(b)
               \/ \E m \in MinStakeChoices : setMinStake(m)
        PROVE  EtherInv'
    <3>1. UNCHANGED << published, call, stakes, treasuryBalance, balance >>
      BY <2>2 DEF setProtocolFee, setSlashRate, setMinStake
    <3> QED BY <3>1, EtherSame
  <2> QED BY <1>4, <2>1, <2>2 DEF Admin
<1>5. CASE \E h \in Hash : settleQuery(h)
  BY <1>5, EtherSettleQuery
<1>6. CASE Settle
  BY <1>6, EtherSettleSkip, EtherSettlePay, EtherSettleLinkPaid, EtherSettleFinish DEF Settle
<1>7. CASE \E a \in Account, v \in Deposits : receive(a, v)
  BY <1>7, EtherReceive
<1>8. CASE WithdrawDone \/ Revert
  BY <1>8, EtherWithdrawDone, EtherRevert
<1>9. CASE Tick
  <2>1. UNCHANGED << published, call, stakes, treasuryBalance, balance >>
    BY <1>9 DEF Tick
  <2> QED BY <2>1, EtherSame
<1>10. CASE UNCHANGED vars
  <2>1. UNCHANGED << published, call, stakes, treasuryBalance, balance >>
    BY <1>10 DEF vars
  <2> QED BY <2>1, EtherSame
<1> QED BY <1>1, <1>2, <1>3, <1>4, <1>5, <1>6, <1>7, <1>8, <1>9, <1>10 DEF Next

\* The registry's ether is exactly what it owes, through every payment,
\* callback, slashing and revert.
THEOREM RegistryIsSolvent == Spec => []Solvent
<1>1. Init => TypeOK /\ DagInv /\ EtherInv
  BY TypeInit, DagInit, EtherInit
<1>2. TypeOK /\ DagInv /\ EtherInv /\ [Next]_vars => (TypeOK /\ DagInv /\ EtherInv)'
  BY TypeStep, DagStep, EtherStep
<1>3. EtherInv => Solvent
  BY DEF EtherInv
<1> QED BY <1>1, <1>2, <1>3, PTL DEF Spec

\* No settlement ever owes a payee more than what is left of the fee.
THEOREM EveryPaymentIsCovered == Spec => []PaymentsCovered
<1>1. Init => TypeOK /\ DagInv /\ EtherInv
  BY TypeInit, DagInit, EtherInit
<1>2. TypeOK /\ DagInv /\ EtherInv /\ [Next]_vars => (TypeOK /\ DagInv /\ EtherInv)'
  BY TypeStep, DagStep, EtherStep
<1>3. TypeOK /\ DagInv /\ EtherInv => PaymentsCovered
  BY DueIsCovered DEF PaymentsCovered
<1> QED BY <1>1, <1>2, <1>3, PTL DEF Spec

-----------------------------------------------------------------------------
(* The committed state.  It moves in two ways only: with a transaction     *)
(* that pays nobody, in one action, and when a withdrawal or a settlement  *)
(* ends.                                                                   *)

\* The transactions that pay nobody.
OneAction ==
  \/ Publish \/ Reputation
  \/ \E h \in Hash : slash(h) \/ \E a \in Account, v \in Deposits : addStake(a, h, v)
  \/ \E b \in FeeChoices : setProtocolFee(b)
  \/ \E b \in SlashChoices : setSlashRate(b)
  \/ \E m \in MinStakeChoices : setMinStake(m)
  \/ \E a \in Account, v \in Deposits : receive(a, v)

\* The actions that start a transaction of several.
Starts ==
  \/ \E h \in Hash : settleQuery(h)
  \/ \E h \in Hash, a \in Account : withdrawStake(a, h)
  \/ \E a \in Payee : withdrawTreasury(a)

LEMMA NextCases ==
  ASSUME Next
  PROVE  OneAction \/ Starts \/ Settle \/ WithdrawDone \/ Revert \/ Tick
BY DEF Next, OneAction, Starts, Staking, Admin

LEMMA OneActionKeepsCall ==
  ASSUME OneAction
  PROVE  call' = call /\ timestamp' = timestamp
<1>1. CASE Publish
  BY <1>1 DEF Publish, publishKB
<1>2. CASE Reputation
  BY <1>2 DEF Reputation, recordPositiveOutcome, endorse
<1>3. CASE \E h \in Hash : slash(h) \/ \E a \in Account, v \in Deposits : addStake(a, h, v)
  BY <1>3 DEF slash, addStake
<1>4. CASE \/ \E b \in FeeChoices : setProtocolFee(b)
           \/ \E b \in SlashChoices : setSlashRate(b)
           \/ \E m \in MinStakeChoices : setMinStake(m)
           \/ \E a \in Account, v \in Deposits : receive(a, v)
  BY <1>4 DEF setProtocolFee, setSlashRate, setMinStake, receive
<1> QED BY <1>1, <1>2, <1>3, <1>4 DEF OneAction

\* A transaction of several actions saves what it finds.
LEMMA StartSaves ==
  ASSUME Starts
  PROVE  /\ call.op = "idle" /\ call'.op \in {"settle", "withdraw"} /\ call'.saved = Snapshot
         /\ UNCHANGED << published, timestamp >>
<1>1. ASSUME NEW h \in Hash, settleQuery(h)
      PROVE  /\ call.op = "idle" /\ call'.op = "settle" /\ call'.saved = Snapshot
             /\ UNCHANGED << published, timestamp >>
  BY <1>1 DEF settleQuery, NonReentrant
<1>2. ASSUME NEW h \in Hash, NEW a \in Account, withdrawStake(a, h)
      PROVE  /\ call.op = "idle" /\ call'.op = "withdraw" /\ call'.saved = Snapshot
             /\ UNCHANGED << published, timestamp >>
  BY <1>2 DEF withdrawStake, IsCuratorOf, NonReentrant, TakeStake, Idle
<1>3. ASSUME NEW a \in Payee, withdrawTreasury(a)
      PROVE  /\ call.op = "idle" /\ call'.op = "withdraw" /\ call'.saved = Snapshot
             /\ UNCHANGED << published, timestamp >>
  BY <1>3 DEF withdrawTreasury, NonReentrant, Idle
<1> QED BY <1>1, <1>2, <1>3 DEF Starts

\* Inside a settlement the frame keeps what a revert restores.
LEMMA SettlingKeepsSaved ==
  ASSUME TypeOK, SettleSkip \/ SettlePay \/ SettleLinkPaid
  PROVE  /\ call.op = "settle" /\ call'.op = "settle"
         /\ call'.saved = call.saved /\ call'.hash = call.hash
         /\ call'.distributable = call.distributable
         /\ UNCHANGED << published, timestamp >>
<1>0. call \in Frame
  BY DEF TypeOK, CallOK
<1>1. CASE SettleSkip
  BY <1>0, <1>1 DEF SettleSkip, Frame
<1>2. CASE SettlePay
  BY <1>0, <1>2 DEF SettlePay, Frame
<1>3. CASE SettleLinkPaid
  BY <1>0, <1>3 DEF SettleLinkPaid, Frame
<1> QED BY <1>1, <1>2, <1>3

LEMMA RevertRestores ==
  ASSUME TypeOK, Revert
  PROVE  /\ call.op # "idle" /\ call'.op = "idle" /\ UNCHANGED << published, timestamp >>
         /\ Snapshot' = call.saved
<1>1. call.saved \in SavedState
  BY DEF Revert, TypeOK, CallOK
<1>2. call.saved =
        [stakes |-> call.saved.stakes, reputation |-> call.saved.reputation,
         protocolFeesBps |-> call.saved.protocolFeesBps,
         slashRateBps |-> call.saved.slashRateBps,
         minStakeAmount |-> call.saved.minStakeAmount,
         treasuryBalance |-> call.saved.treasuryBalance,
         balance |-> call.saved.balance, royaltyPaid |-> call.saved.royaltyPaid]
  BY <1>1 DEF SavedState
<1> QED BY <1>2, IdleIsFrame DEF Revert, Snapshot

\* The last action of a transaction of several.
Ends == WithdrawDone \/ SettleFinish

LEMMA EndsCommit ==
  ASSUME Ends
  PROVE  /\ call.op \in {"settle", "withdraw"} /\ call'.op = "idle"
         /\ UNCHANGED << published, timestamp >>
BY IdleIsFrame DEF Ends, WithdrawDone, SettleFinish

\* How the committed state can move.
LEMMA CommittedMoves ==
  ASSUME TypeOK, [Next]_vars
  PROVE  \/ Committed' = Committed /\ UNCHANGED published
         \/ /\ OneAction /\ call.op = "idle" /\ call' = call
            /\ Committed = Snapshot /\ Committed' = Snapshot'
         \/ Ends /\ Committed = call.saved /\ Committed' = Snapshot'
<1>1. CASE UNCHANGED vars
  BY <1>1 DEF vars, settings, Committed, Snapshot
<1>2. CASE OneAction
  <2>1. CASE call.op = "idle"
    BY <2>1, <1>2, OneActionKeepsCall DEF Committed
  <2>2. CASE call.op # "idle"
    <3>1. UNCHANGED published
      BY <2>2, OnlyPublishPublishes DEF Publish, publishKB, NonReentrant
    <3> QED BY <3>1, <2>2, <1>2, OneActionKeepsCall DEF Committed
  <2> QED BY <2>1, <2>2
<1>3. CASE Starts
  BY <1>3, StartSaves DEF Committed
<1>4. CASE SettleSkip \/ SettlePay \/ SettleLinkPaid
  BY <1>4, SettlingKeepsSaved DEF Committed
<1>5. CASE Ends
  BY <1>5, EndsCommit DEF Committed
<1>6. CASE Revert
  BY <1>6, RevertRestores DEF Committed
<1>7. CASE Tick
  BY <1>7 DEF Tick, Committed, Snapshot, settings
<1> QED BY <1>1, <1>2, <1>3, <1>4, <1>5, <1>6, <1>7, NextCases DEF Settle, Ends

-----------------------------------------------------------------------------
(* Stakes.  Nothing of an unregistered hash is set before its publication, *)
(* which would lose it; and since a transaction started, no stake has been *)
(* touched in another way than the properties of the committed stakes      *)
(* allow.                                                                  *)

Fresh(s) ==
  \A h \in Hash : ~ Registered(h) => ~ s.stakes[h].slashed /\ s.reputation[h].queryVolume = 0

FreshInv ==
  /\ Fresh(Snapshot)
  /\ call.op # "idle" => Fresh(call.saved)
  /\ \A h \in Hash : ~ Registered(h) => attributionDAG[h] = << >>

\* A stake that was slashed is kept.
Kept(old, new) == old.slashed => new.slashed /\ new.amount >= old.amount

\* The owner took from a stake, for the first time and at most half.
Slashed(old, new) == ~ old.slashed /\ new.slashed /\ 2 * new.amount >= old.amount

\* The transaction in progress pays the stake of h out to its curator.
PaidOut(h, old) ==
  /\ timestamp >= old.lockedUntil /\ ~ old.slashed
  /\ call.op = "withdraw" /\ call.callee = knowledgeBlocks[h].curator

Lawful(h, old, new) ==
  Kept(old, new) /\ (new.amount < old.amount => PaidOut(h, old) \/ Slashed(old, new))

StakesSinceSaved ==
  call.op # "idle" => \A h \in Hash : Lawful(h, call.saved.stakes[h], stakes[h])

\* What one action of OneAction does to a stake.
Mild(old, new) == Kept(old, new) /\ (new.amount < old.amount => Slashed(old, new))

LEMMA MildAddStake ==
  ASSUME TypeOK, NEW a \in Account, NEW k \in Hash, NEW v \in Deposits, addStake(a, k, v),
         NEW h \in Hash
  PROVE  Mild(stakes[h], stakes'[h])
<1>0. stakes \in [Hash -> StakeRecord] /\ stakes[k] \in StakeRecord /\ v \in Nat
      /\ stakes[h] \in StakeRecord
  BY RegistryAssumption DEF TypeOK, StakesOK
<1> DEFINE r == [stakes[k] EXCEPT !.amount = @ + v, !.lockedUntil = timestamp + LockPeriod]
<1>1. stakes' = [stakes EXCEPT ![k] = r]
  BY <1>0 DEF addStake
<1>2. r.amount = stakes[k].amount + v /\ r.slashed = stakes[k].slashed
  BY <1>0 DEF StakeRecord
<1> HIDE DEF r
<1>3. stakes'[h] = IF h = k THEN r ELSE stakes[h]
  BY <1>0, <1>1
<1>4. stakes[h].amount \in Nat /\ stakes[k].amount \in Nat
  BY <1>0 DEF StakeRecord
<1> QED BY <1>0, <1>2, <1>3, <1>4 DEF Mild, Kept, Slashed

LEMMA MildSlash ==
  ASSUME TypeOK, NEW k \in Hash, slash(k), NEW h \in Hash
  PROVE  Mild(stakes[h], stakes'[h])
<1> DEFINE taken == (stakes[k].amount * slashRateBps) \div Bps
           r == [stakes[k] EXCEPT !.amount = @ - taken, !.slashed = TRUE]
<1>0. /\ stakes \in [Hash -> StakeRecord] /\ stakes[k] \in StakeRecord
      /\ stakes[h] \in StakeRecord /\ stakes[h].amount \in Nat
      /\ stakes[k].amount \in Nat /\ slashRateBps \in 0 .. MaxSlashBps
  BY DEF TypeOK, StakesOK, SettingsOK, StakeRecord
<1>1. taken \in Nat /\ 2 * taken <= stakes[k].amount
  <2>1. slashRateBps \in Nat /\ slashRateBps <= 5000
    BY <1>0 DEF MaxSlashBps
  <2>2. taken \in Nat /\ Bps * taken <= stakes[k].amount * slashRateBps
    <3>1. stakes[k].amount \in Nat /\ slashRateBps \in Nat BY <1>0, <2>1
    <3> QED BY <3>1, ShareRoundsDown
  <2>3. stakes[k].amount * slashRateBps <= stakes[k].amount * 5000
    BY <1>0, <2>1
  <2>4. stakes[k].amount * slashRateBps \in Nat
    BY <1>0, <2>1
  <2> HIDE DEF taken
  <2> QED BY <1>0, <2>2, <2>3, <2>4 DEF Bps
<1>2. ~ stakes[k].slashed /\ stakes' = [stakes EXCEPT ![k] = r]
  BY <1>0 DEF slash
<1> HIDE DEF taken
<1>3. r.amount = stakes[k].amount - taken /\ r.slashed = TRUE
  BY <1>0 DEF StakeRecord
<1> HIDE DEF r
<1>4. stakes'[h] = IF h = k THEN r ELSE stakes[h]
  BY <1>0, <1>2
<1>5. CASE h = k
  <2>1. stakes'[h].amount = stakes[h].amount - taken /\ stakes'[h].slashed = TRUE
    BY <1>3, <1>4, <1>5
  <2>2. ~ stakes[h].slashed BY <1>2, <1>5
  <2>3. 2 * stakes'[h].amount >= stakes[h].amount BY <2>1, <1>0, <1>1, <1>5
  <2> QED BY <2>1, <2>2, <2>3, Zenon DEF Mild, Kept, Slashed
<1>6. CASE h # k
  BY <1>0, <1>4, <1>6 DEF Mild, Kept
<1> QED BY <1>5, <1>6

LEMMA MildOneAction ==
  ASSUME TypeOK, EtherInv, FreshInv, OneAction, NEW h \in Hash
  PROVE  Mild(stakes[h], stakes'[h])
<1>0. stakes \in [Hash -> StakeRecord] /\ stakes[h] \in StakeRecord /\ stakes[h].amount \in Nat
  BY DEF TypeOK, StakesOK, StakeRecord
<1>1. CASE stakes' = stakes
  BY <1>0, <1>1 DEF Mild, Kept
<1>2. CASE Publish
  <2>1. PICK k \in Hash, v \in Deposits : /\ ~ Registered(k)
               /\ stakes' = [stakes EXCEPT ![k] = [amount |-> v,
                               lockedUntil |-> timestamp + LockPeriod, slashed |-> FALSE]]
    <3>1. PICK k \in Hash, curator \in Payee, t \in KBTypes, d \in Domains, fee \in QueryFees,
               links \in LinkLists, v \in Deposits : publishKB(k, curator, t, d, fee, links, v)
      BY <1>2 DEF Publish
    <3> QED BY <3>1 DEF publishKB
  <2>2. CASE k = h
    <3>1. ~ stakes[h].slashed /\ stakes[h].amount = 0
      BY <2>1, <2>2 DEF EtherInv, NoStrayStake, FreshInv, Fresh, Snapshot
    <3>2. stakes'[h].amount = v /\ v \in Nat
      BY <1>0, <2>1, <2>2, RegistryAssumption
    <3> QED BY <3>1, <3>2 DEF Mild, Kept
  <2>3. CASE k # h
    <3>1. stakes'[h] = stakes[h] BY <1>0, <2>1, <2>3
    <3> QED BY <3>1, <1>0 DEF Mild, Kept
  <2> QED BY <2>2, <2>3
<1>3. CASE Reputation \/ \E a \in Account, v \in Deposits : receive(a, v)
  BY <1>1, <1>3 DEF Reputation, recordPositiveOutcome, endorse, receive
<1>4. CASE \/ \E b \in FeeChoices : setProtocolFee(b)
           \/ \E b \in SlashChoices : setSlashRate(b)
           \/ \E m \in MinStakeChoices : setMinStake(m)
  BY <1>1, <1>4 DEF setProtocolFee, setSlashRate, setMinStake
<1> QED BY <1>2, <1>3, <1>4, MildAddStake, MildSlash DEF OneAction

\* Calls are about registered blocks: all else stays as it is.
LEMMA UnregisteredUntouched ==
  ASSUME TypeOK, DagInv, EtherInv, [Next]_vars, ~ Revert, NEW h \in Hash, ~ Registered(h)'
  PROVE  /\ ~ Registered(h) /\ attributionDAG'[h] = attributionDAG[h]
         /\ stakes'[h] = stakes[h] /\ reputation'[h] = reputation[h]
<1>0. /\ stakes \in [Hash -> StakeRecord] /\ reputation \in [Hash -> ReputationRecord]
      /\ attributionDAG \in [Hash -> Seq(Link)] /\ knowledgeBlocks \in [Hash -> KnowledgeBlock]
  BY DEF TypeOK, StakesOK, ReputationOK, PublishedOK
<1>1. CASE Publish
  <2>1. PICK k \in Hash, curator \in Payee, t \in KBTypes, d \in Domains, fee \in QueryFees,
             links \in LinkLists, v \in Deposits : publishKB(k, curator, t, d, fee, links, v)
    BY <1>1 DEF Publish
  <2>2. h # k
    BY <1>0, <2>1 DEF publishKB, Registered
  <2> QED BY <1>0, <2>1, <2>2 DEF publishKB, Registered
<1>2. CASE UNCHANGED published
  <2>0. /\ ~ Registered(h) /\ attributionDAG'[h] = attributionDAG[h]
        /\ \A k \in Hash : Registered(k) => k # h
    BY <1>2 DEF published, Registered
  <2>1. CASE Reputation
    BY <1>0, <2>0, <2>1 DEF Reputation, recordPositiveOutcome, endorse
  <2>2. CASE Staking
    BY <1>0, <2>0, <2>2, ZenonT(30)
       DEF Staking, slash, addStake, withdrawStake, IsCuratorOf, TakeStake
  <2>3. CASE Admin
    BY <2>0, <2>3 DEF Admin, setProtocolFee, setSlashRate, setMinStake, withdrawTreasury
  <2>4. CASE \E k \in Hash : settleQuery(k)
    BY <2>0, <2>4 DEF settleQuery
  <2>5. CASE SettleSkip \/ SettlePay
    BY <2>0, <2>5 DEF SettleSkip, SettlePay
  <2>6. CASE SettleLinkPaid
    <3>1. Recipient \in Hash /\ Registered(Recipient)
      <4>1. call.op = "settle" /\ ~ AtCurator BY <2>6 DEF SettleLinkPaid
      <4>2. call.hash \in Hash /\ call.i \in DOMAIN settledLinks
        BY <4>1, SettlingFrame DEF AtCurator
      <4> QED BY <4>1, <4>2, SettlingFrame
              DEF DagInv, ParentsRegistered, Recipient, settledLinks
    <3> QED BY <1>0, <2>0, <2>6, <3>1 DEF SettleLinkPaid
  <2>7. CASE SettleFinish
    <3>1. call.hash \in Hash /\ Registered(call.hash)
      BY <2>7, SettlingFrame DEF SettleFinish, EtherInv
    <3> QED BY <1>0, <2>0, <2>7, <3>1 DEF SettleFinish
  <2>8. CASE \E a \in Account, v \in Deposits : receive(a, v)
    BY <2>0, <2>8 DEF receive
  <2>9. CASE WithdrawDone \/ Tick
    BY <2>0, <2>9 DEF WithdrawDone, Tick
  <2>10. CASE UNCHANGED vars
    BY <2>0, <2>10 DEF vars
  <2> QED BY <1>1, <2>1, <2>2, <2>3, <2>4, <2>5, <2>6, <2>7, <2>8, <2>9, <2>10 DEF Next, Settle
<1> QED BY <1>1, <1>2, OnlyPublishPublishes

LEMMA FreshInit == Init => FreshInv
<1> SUFFICES ASSUME Init PROVE FreshInv
  OBVIOUS
<1>1. \A h \in Hash : ~ stakes[h].slashed /\ reputation[h].queryVolume = 0
                      /\ attributionDAG[h] = << >>
  BY DEF Init
<1>2. call.op = "idle"
  BY DEF Init, Idle
<1> QED BY <1>1, <1>2 DEF FreshInv, Fresh, Snapshot

LEMMA FreshStep ==
  ASSUME TypeOK, DagInv, EtherInv, FreshInv, [Next]_vars
  PROVE  FreshInv'
<1>1. CASE Revert
  <2>1. Snapshot' = call.saved /\ call.op # "idle" /\ call'.op = "idle"
        /\ knowledgeBlocks' = knowledgeBlocks /\ attributionDAG' = attributionDAG
    BY <1>1, RevertRestores DEF published
  <2> QED BY <2>1 DEF FreshInv, Fresh, Registered
<1>2. CASE ~ Revert
  <2>1. \A h \in Hash : ~ Registered(h)' => attributionDAG'[h] = << >>
    BY <1>2, UnregisteredUntouched DEF FreshInv
  <2>2. ASSUME NEW h \in Hash, ~ Registered(h)'
        PROVE  ~ Snapshot'.stakes[h].slashed /\ Snapshot'.reputation[h].queryVolume = 0
    <3>1. ~ Registered(h) /\ stakes'[h] = stakes[h] /\ reputation'[h] = reputation[h]
      BY <1>2, <2>2, UnregisteredUntouched
    <3>2. ~ stakes[h].slashed /\ reputation[h].queryVolume = 0
      BY <3>1 DEF FreshInv, Fresh, Snapshot
    <3> QED BY <3>1, <3>2 DEF Snapshot
  <2>3. Fresh(Snapshot)'
    BY <2>2 DEF Fresh
  <2>4. ASSUME call'.op # "idle" PROVE Fresh(call.saved)'
    <3>1. CASE call'.saved = call.saved /\ call.op # "idle"
      <4>1. ASSUME NEW h \in Hash, ~ Registered(h)'
            PROVE  ~ call'.saved.stakes[h].slashed /\ call'.saved.reputation[h].queryVolume = 0
        <5>1. ~ Registered(h) BY <1>2, <4>1, UnregisteredUntouched
        <5> QED BY <3>1, <5>1 DEF FreshInv, Fresh
      <4> QED BY <4>1 DEF Fresh
    <3>2. CASE call'.saved = Snapshot /\ UNCHANGED published
      <4>1. \A h \in Hash : Registered(h)' = Registered(h)
        BY <3>2 DEF published, Registered
      <4> QED BY <3>2, <4>1 DEF FreshInv, Fresh
    <3>3. CASE OneAction \/ UNCHANGED vars
      BY <2>4, <3>1, <3>3, OneActionKeepsCall DEF vars
    <3>4. CASE Starts
      BY <3>2, <3>4, StartSaves
    <3>5. CASE SettleSkip \/ SettlePay \/ SettleLinkPaid
      BY <3>1, <3>5, SettlingKeepsSaved
    <3>6. CASE Ends
      BY <2>4, <3>6, EndsCommit
    <3>7. CASE Tick
      BY <2>4, <3>7 DEF Tick, NonReentrant
    <3> QED BY <1>2, <3>3, <3>4, <3>5, <3>6, <3>7, NextCases DEF Settle, Ends
  <2> QED BY <2>1, <2>3, <2>4 DEF FreshInv
<1> QED BY <1>1, <1>2

LEMMA MildKeepsLawful ==
  ASSUME NEW h \in Hash, NEW old \in StakeRecord, NEW mid \in StakeRecord,
         NEW new \in StakeRecord, Lawful(h, old, mid), Mild(mid, new)
  PROVE  Lawful(h, old, new)
<1>1. old.amount \in Nat /\ mid.amount \in Nat /\ new.amount \in Nat
  BY DEF StakeRecord
<1>2. Kept(old, new)
  BY <1>1 DEF Lawful, Mild, Kept
<1>3. ASSUME new.amount < old.amount PROVE PaidOut(h, old) \/ Slashed(old, new)
  <2>1. CASE mid.amount < old.amount
    BY <1>1, <2>1 DEF Lawful, Mild, Kept, Slashed
  <2>2. CASE ~ (mid.amount < old.amount)
    BY <1>1, <1>3, <2>2 DEF Lawful, Mild, Kept, Slashed
  <2> QED BY <2>1, <2>2
<1> QED BY <1>2, <1>3 DEF Lawful

\* withdrawStake takes what the lock and the slashing leave to the curator.
LEMMA WithdrawIsLawful ==
  ASSUME TypeOK, NEW a \in Account, NEW k \in Hash, withdrawStake(a, k), NEW h \in Hash
  PROVE  Lawful(h, call.saved.stakes[h], stakes[h])'
<1>0. /\ stakes \in [Hash -> StakeRecord] /\ stakes[k] \in StakeRecord
      /\ stakes[h] \in StakeRecord /\ stakes[h].amount \in Nat
  BY DEF TypeOK, StakesOK, StakeRecord
<1>1. /\ ~ stakes[k].slashed /\ timestamp >= stakes[k].lockedUntil
      /\ knowledgeBlocks[k].curator = a
      /\ stakes' = [stakes EXCEPT ![k].amount = 0]
      /\ call'.op = "withdraw" /\ call'.callee = a /\ call'.saved.stakes = stakes
      /\ UNCHANGED << published, timestamp >>
  BY DEF withdrawStake, IsCuratorOf, TakeStake, Idle, Snapshot
<1>2. knowledgeBlocks' = knowledgeBlocks /\ timestamp' = timestamp
  BY <1>1 DEF published
<1>3. CASE h = k
  <2>1. Kept(stakes[h], stakes'[h])
    BY <1>1, <1>3 DEF Kept
  <2>2. /\ timestamp' >= stakes[h].lockedUntil /\ ~ stakes[h].slashed
        /\ call'.op = "withdraw" /\ call'.callee = knowledgeBlocks'[h].curator
    BY <1>1, <1>2, <1>3
  <2> QED BY <1>1, <2>1, <2>2 DEF Lawful, PaidOut
<1>4. CASE h # k
  <2>1. stakes'[h] = stakes[h] /\ call'.saved.stakes[h] = stakes[h]
    BY <1>0, <1>1, <1>4
  <2>2. ~ (stakes[h].amount < stakes[h].amount)
    BY <1>0
  <2>3. Kept(stakes[h], stakes[h])
    BY <1>0 DEF Kept
  <2> QED BY <2>1, <2>2, <2>3 DEF Lawful
<1> QED BY <1>3, <1>4

LEMMA SameStakeIsLawful ==
  ASSUME NEW s \in StakeRecord, NEW h
  PROVE  Lawful(h, s, s)
<1>1. s.amount \in Nat
  BY DEF StakeRecord
<1> QED BY <1>1 DEF Lawful, Kept

LEMMA StakesSinceSavedStep ==
  ASSUME TypeOK, EtherInv, FreshInv, StakesSinceSaved, [Next]_vars
  PROVE  StakesSinceSaved'
<1> SUFFICES ASSUME call'.op # "idle", NEW h \in Hash
             PROVE  Lawful(h, call.saved.stakes[h], stakes[h])'
  BY DEF StakesSinceSaved
<1>0. stakes \in [Hash -> StakeRecord] /\ stakes' \in [Hash -> StakeRecord]
  BY TypeStep DEF TypeOK, StakesOK
<1>1. stakes[h] \in StakeRecord /\ stakes'[h] \in StakeRecord
      /\ stakes[h].amount \in Nat /\ stakes'[h].amount \in Nat
  BY <1>0 DEF StakeRecord
<1>2. CASE OneAction
  <2>1. call' = call /\ timestamp' = timestamp /\ knowledgeBlocks' = knowledgeBlocks
    <3>1. call' = call /\ timestamp' = timestamp BY <1>2, OneActionKeepsCall
    <3>2. UNCHANGED published
      BY <3>1, OnlyPublishPublishes DEF Publish, publishKB, NonReentrant
    <3> QED BY <3>1, <3>2 DEF published
  <2>2. call.saved.stakes[h] \in StakeRecord
    BY <2>1 DEF TypeOK, CallOK, SavedState
  <2>3. Lawful(h, call.saved.stakes[h], stakes'[h])
    BY <1>1, <1>2, <2>1, <2>2, MildOneAction, MildKeepsLawful DEF StakesSinceSaved
  <2> QED BY <2>1, <2>3 DEF Lawful, PaidOut
<1>3. CASE Starts
  <2>1. ASSUME stakes' = stakes PROVE Lawful(h, call.saved.stakes[h], stakes[h])'
    <3>1. call'.saved.stakes[h] = stakes'[h]
      BY <1>3, <2>1, StartSaves DEF Snapshot
    <3> QED BY <1>1, <3>1 DEF Lawful, Kept
  <2>2. CASE \E k \in Hash : settleQuery(k)
    BY <2>1, <2>2 DEF settleQuery
  <2>3. CASE \E a \in Payee : withdrawTreasury(a)
    BY <2>1, <2>3 DEF withdrawTreasury
  <2> QED BY <1>3, <2>2, <2>3, WithdrawIsLawful DEF Starts
<1>4. ASSUME call' = call \/ SettleSkip \/ SettlePay \/ SettleLinkPaid,
             UNCHANGED << published, stakes, timestamp >>
      PROVE  Lawful(h, call.saved.stakes[h], stakes[h])'
  <2>1. /\ call.op # "idle" /\ call'.saved = call.saved
        /\ call'.op = "withdraw" <=> call.op = "withdraw"
        /\ call.op = "withdraw" => call' = call
    BY <1>4, SettlingKeepsSaved
  <2>2. knowledgeBlocks' = knowledgeBlocks /\ stakes' = stakes /\ timestamp' = timestamp
    BY <1>4 DEF published
  <2>3. Lawful(h, call.saved.stakes[h], stakes[h])
    BY <2>1 DEF StakesSinceSaved
  <2> QED BY <2>1, <2>2, <2>3 DEF Lawful, PaidOut
<1>5. CASE SettleSkip \/ SettlePay \/ SettleLinkPaid
  BY <1>4, <1>5 DEF SettleSkip, SettlePay, SettleLinkPaid
<1>6. CASE Ends \/ Revert
  BY <1>6, EndsCommit, RevertRestores
<1>7. CASE Tick
  BY <1>7 DEF Tick, NonReentrant
<1>8. CASE UNCHANGED vars
  BY <1>4, <1>8 DEF vars
<1> QED BY <1>2, <1>3, <1>5, <1>6, <1>7, <1>8, NextCases DEF Settle, Ends

\* The invariant behind both theorems.
StakeInv == TypeOK /\ DagInv /\ EtherInv /\ FreshInv /\ StakesSinceSaved

LEMMA StakeInvariance ==
  /\ Init => StakeInv
  /\ StakeInv /\ [Next]_vars => StakeInv'
<1>1. ASSUME Init PROVE StakeInv
  <2>1. call.op = "idle" BY <1>1 DEF Init, Idle
  <2> QED BY <1>1, <2>1, TypeInit, DagInit, EtherInit, FreshInit DEF StakeInv, StakesSinceSaved
<1>2. ASSUME StakeInv, [Next]_vars PROVE StakeInv'
  BY <1>2, TypeStep, DagStep, EtherStep, FreshStep, StakesSinceSavedStep DEF StakeInv
<1> QED BY <1>1, <1>2

\* What the committed stakes can do in a step.
LEMMA CommittedStakesMove ==
  ASSUME StakeInv, [Next]_vars, NEW h \in Hash
  PROVE  Lawful(h, Committed.stakes[h], Committed'.stakes[h])
<1>0. TypeOK /\ EtherInv /\ FreshInv /\ StakesSinceSaved /\ TypeOK'
  BY TypeStep DEF StakeInv
<1>1. /\ stakes[h] \in StakeRecord
      /\ call.op # "idle" => call.saved.stakes[h] \in StakeRecord
  BY <1>0 DEF TypeOK, StakesOK, CallOK, SavedState
<1>2. CASE Committed' = Committed
  <2>1. Committed.stakes[h] \in StakeRecord
    BY <1>1 DEF Committed, Snapshot
  <2> QED BY <1>2, <2>1, SameStakeIsLawful
<1>3. CASE OneAction /\ Committed = Snapshot /\ Committed' = Snapshot'
  <2>1. Mild(stakes[h], stakes'[h])
    BY <1>0, <1>3, MildOneAction
  <2> QED BY <1>3, <2>1 DEF Snapshot, Mild, Lawful
<1>4. CASE Ends /\ Committed = call.saved /\ Committed' = Snapshot'
  <2>1. stakes' = stakes /\ call.op # "idle"
    BY <1>4, EndsCommit DEF Ends, WithdrawDone, SettleFinish
  <2> QED BY <1>0, <1>4, <2>1 DEF StakesSinceSaved, Snapshot
<1> QED BY <1>0, <1>2, <1>3, <1>4, CommittedMoves

\* From one finished transaction to the next, no slashed stake is taken or
\* unslashed, also when slash is called from inside another's payment.
THEOREM SlashedStakesStay == Spec => SlashedStakeStays
<1>1. ASSUME StakeInv, [Next]_vars
      PROVE  \A h \in Hash : Committed.stakes[h].slashed =>
               /\ Committed'.stakes[h].slashed
               /\ Committed'.stakes[h].amount >= Committed.stakes[h].amount
  BY <1>1, CommittedStakesMove DEF Lawful, Kept
<1>2. StakeInv /\ [Next]_vars =>
        [\A h \in Hash : Committed.stakes[h].slashed =>
           /\ Committed'.stakes[h].slashed
           /\ Committed'.stakes[h].amount >= Committed.stakes[h].amount]_vars
  BY <1>1
<1> QED BY <1>2, StakeInvariance, PTL DEF Spec, SlashedStakeStays

\* Stake leaves by an unlocked withdrawal to its curator, or by a first slashing
\* of at most half, and in no other way.
THEOREM StakesLeaveLawfully == Spec => StakeLeavesLawfully
<1> DEFINE Loss(h) ==
      Committed'.stakes[h].amount < Committed.stakes[h].amount =>
         \/ /\ timestamp >= Committed.stakes[h].lockedUntil
            /\ ~ Committed.stakes[h].slashed
            /\ call.op = "withdraw" /\ call.callee = knowledgeBlocks[h].curator
         \/ /\ Committed'.stakes[h].slashed /\ ~ Committed.stakes[h].slashed
            /\ 2 * Committed'.stakes[h].amount >= Committed.stakes[h].amount
<1>1. ASSUME StakeInv, [Next]_vars, NEW h \in Hash PROVE Loss(h)
  BY <1>1, CommittedStakesMove DEF Lawful, PaidOut, Slashed
<1>2. StakeInv /\ [Next]_vars => [\A h \in Hash : Loss(h)]_vars
  BY <1>1
<1> QED BY <1>2, StakeInvariance, PTL DEF Spec, StakeLeavesLawfully

-----------------------------------------------------------------------------
(* The lookup indexes.                                                     *)

\* The places of x in s, as ones and zeros.
Places(s, x) == [i \in DOMAIN s |-> IF s[i] = x THEN 1 ELSE 0]

LEMMA OccurrencesFacts ==
  ASSUME NEW S, NEW s \in Seq(S), NEW x
  PROVE  /\ Occurrences(s, x) \in Nat
         /\ (\A i \in DOMAIN s : s[i] # x) => Occurrences(s, x) = 0
         /\ (\E i \in DOMAIN s : s[i] = x) => Occurrences(s, x) # 0
<1> DEFINE N == Len(s)
           g == Places(s, x)
<1>1. N \in Nat /\ DOMAIN s = 1 .. N
  OBVIOUS
<1>2. \A i \in 1 .. N : g[i] \in Nat /\ g[i] \in Int /\ g[i] = IF s[i] = x THEN 1 ELSE 0
  BY <1>1 DEF Places
<1>3. Occurrences(s, x) = SumTo(g, N)
  BY DEF Occurrences, Places
<1> HIDE DEF g, N
<1>4. SumTo(g, N) \in Nat
  BY <1>1, <1>2, SumNat, Zenon
<1>5. ASSUME \A i \in DOMAIN s : s[i] # x PROVE SumTo(g, N) = 0
  <2>1. \A i \in 1 .. N : g[i] = 0 BY <1>1, <1>2, <1>5
  <2> QED BY <1>1, <2>1, SumOfZeros, Zenon
<1>6. ASSUME NEW k \in DOMAIN s, s[k] = x PROVE SumTo(g, N) # 0
  <2>1. k \in 1 .. N /\ g[k] = 1 BY <1>1, <1>2, <1>6
  <2>2. /\ k - 1 \in 0 .. N - 1 /\ (k - 1) + 1 = k /\ k \in 0 .. N
        /\ k - 1 \in Nat /\ \A i \in 1 .. k - 1 : g[i] \in Nat
    BY <1>1, <1>2, <2>1
  <2>3. SumTo(g, (k - 1) + 1) = SumTo(g, k - 1) + g[(k - 1) + 1]
    BY <1>1, <1>2, <2>2, SumStep, Zenon
  <2>4. SumTo(g, k - 1) \in Nat BY <2>2, SumNat, Zenon
  <2>5. SumTo(g, k) <= SumTo(g, N) BY <1>1, <1>2, <2>2, SumMonotonic, Zenon
  <2> QED BY <1>4, <2>1, <2>2, <2>3, <2>4, <2>5
<1> QED BY <1>3, <1>4, <1>5, <1>6

LEMMA OccurrencesConcat ==
  ASSUME NEW S, NEW s \in Seq(S), NEW t \in Seq(S), NEW x
  PROVE  Occurrences(s \o t, x) = Occurrences(s, x) + Occurrences(t, x)
<1> DEFINE M == Len(s)
           N == Len(t)
           u == s \o t
<1>1. /\ M \in Nat /\ N \in Nat /\ Len(u) = M + N
      /\ DOMAIN s = 1 .. M /\ DOMAIN t = 1 .. N /\ DOMAIN u = 1 .. M + N
      /\ \A i \in 1 .. M : u[i] = s[i] /\ i \in 1 .. M + N
      /\ \A i \in 1 .. N : u[M + i] = t[i] /\ M + i \in 1 .. M + N
  OBVIOUS
<1> HIDE DEF M, N, u
<1>2. Joined(Places(u, x), Places(s, x), M, Places(t, x), N)
  BY <1>1 DEF Joined, Places
<1>3. SumTo(Places(u, x), M + N) = SumTo(Places(s, x), M) + SumTo(Places(t, x), N)
  BY <1>1, <1>2, SumConcat
<1> QED BY <1>1, <1>3 DEF Occurrences, Places, M, N, u

LEMMA OccurrencesAppend ==
  ASSUME NEW S, NEW s \in Seq(S), NEW e \in S, NEW x
  PROVE  Occurrences(Append(s, e), x) = Occurrences(s, x) + (IF e = x THEN 1 ELSE 0)
<1>1. << e >> \in Seq(S) /\ Append(s, e) = s \o << e >>
  OBVIOUS
<1>2. Occurrences(<< e >>, x) = IF e = x THEN 1 ELSE 0
  <2> DEFINE g == Places(<< e >>, x)
  <2>1. Len(<< e >>) = 1 /\ DOMAIN << e >> = 1 .. 1 /\ << e >>[1] = e OBVIOUS
  <2>2. g[1] = (IF e = x THEN 1 ELSE 0) /\ \A i \in 1 .. 1 : g[i] \in Int /\ i = 1
    BY <2>1 DEF Places
  <2>3. Occurrences(<< e >>, x) = SumTo(g, 0 + 1)
    BY <2>1 DEF Occurrences, Places
  <2> HIDE DEF g
  <2>4. SumTo(g, 0 + 1) = SumTo(g, 0) + g[0 + 1]
    BY <2>2, SumStep
  <2> QED BY <2>2, <2>3, <2>4, SumZero
<1>3. Occurrences(s \o << e >>, x) = Occurrences(s, x) + Occurrences(<< e >>, x)
  BY <1>1, OccurrencesConcat
<1> QED BY <1>1, <1>2, <1>3, Zenon

Repeated(e, n) == [i \in 1 .. n |-> e]

LEMMA OccurrencesRepeated ==
  ASSUME NEW e, NEW n \in Nat, NEW x
  PROVE  Occurrences(Repeated(e, n), x) = IF e = x THEN n ELSE 0
<1> USE DEF Repeated
<1> DEFINE s == [i \in 1 .. n |-> e]
           g == Places(s, x)
<1>1. Len(s) = n /\ DOMAIN s = 1 .. n
  OBVIOUS
<1>2. \A i \in 1 .. n : g[i] = IF e = x THEN 1 ELSE 0
  BY DEF Places
<1>3. Occurrences(s, x) = SumTo(g, n)
  BY <1>1 DEF Occurrences, Places
<1> HIDE DEF g, s
<1>4. CASE e = x
  <2>1. \A i \in 1 .. n : g[i] = 1 BY <1>2, <1>4
  <2>2. SumTo(g, n) = n BY <2>1, SumOfOnes, Zenon
  <2> QED BY <1>3, <1>4, <2>2 DEF s
<1>5. CASE e # x
  <2>1. \A i \in 1 .. n : g[i] = 0 BY <1>2, <1>5
  <2>2. SumTo(g, n) = 0 BY <2>1, SumOfZeros, Zenon
  <2> QED BY <1>3, <1>5, <2>2 DEF s
<1> QED BY <1>4, <1>5

\* h is listed under its key, once, and nowhere else.
ListedOnce(index, key, h) ==
  \A k \in DOMAIN index : Occurrences(index[k], h) = IF k = key THEN 1 ELSE 0

NotListed(index, h) == \A k \in DOMAIN index : Occurrences(index[k], h) = 0

LEMMA IndexAppend ==
  ASSUME NEW K, NEW index \in [K -> Seq(Hash)], NEW key \in K, NEW h \in Hash
  PROVE  /\ NotListed(index, h) => ListedOnce([index EXCEPT ![key] = Append(@, h)], key, h)
         /\ \A g, k : g # h /\ ListedOnce(index, k, g) =>
                        ListedOnce([index EXCEPT ![key] = Append(@, h)], k, g)
         /\ \A g : g # h /\ NotListed(index, g) =>
                     NotListed([index EXCEPT ![key] = Append(@, h)], g)
<1> DEFINE new == [index EXCEPT ![key] = Append(@, h)]
<1>1. /\ DOMAIN new = K /\ DOMAIN index = K /\ \A k \in K \ {key} : new[k] = index[k]
      /\ new[key] = Append(index[key], h) /\ index[key] \in Seq(Hash)
  OBVIOUS
<1> HIDE DEF new
<1>2. \A g : Occurrences(new[key], g) =
               Occurrences(index[key], g) + (IF h = g THEN 1 ELSE 0)
  BY <1>1, OccurrencesAppend
<1>3. \A g : Occurrences(index[key], g) \in Nat
  BY <1>1, OccurrencesFacts
<1>4. ASSUME NotListed(index, h) PROVE ListedOnce(new, key, h)
  <2> SUFFICES ASSUME NEW k \in K
               PROVE  Occurrences(new[k], h) = IF k = key THEN 1 ELSE 0
    BY <1>1 DEF ListedOnce
  <2>1. Occurrences(index[k], h) = 0 /\ Occurrences(index[key], h) = 0
    BY <1>1, <1>4 DEF NotListed
  <2>2. CASE k = key BY <1>2, <2>1, <2>2
  <2>3. CASE k # key BY <1>1, <2>1, <2>3
  <2> QED BY <2>2, <2>3
<1>5. ASSUME NEW g, NEW j, g # h, ListedOnce(index, j, g) PROVE ListedOnce(new, j, g)
  <2> SUFFICES ASSUME NEW k \in K
               PROVE  Occurrences(new[k], g) = IF k = j THEN 1 ELSE 0
    BY <1>1 DEF ListedOnce
  <2>1. Occurrences(index[k], g) = IF k = j THEN 1 ELSE 0
    BY <1>1, <1>5 DEF ListedOnce
  <2>2. CASE k = key BY <1>2, <1>3, <1>5, <2>1, <2>2
  <2>3. CASE k # key BY <1>1, <2>1, <2>3
  <2> QED BY <2>2, <2>3
<1>6. ASSUME NEW g, g # h, NotListed(index, g) PROVE NotListed(new, g)
  <2> SUFFICES ASSUME NEW k \in K PROVE Occurrences(new[k], g) = 0
    BY <1>1 DEF NotListed
  <2>1. Occurrences(index[k], g) = 0
    BY <1>1, <1>6 DEF NotListed
  <2>2. CASE k = key BY <1>2, <1>6, <2>1, <2>2
  <2>3. CASE k # key BY <1>1, <2>1, <2>3
  <2> QED BY <2>2, <2>3
<1> QED BY <1>4, <1>5, <1>6 DEF new

ParentsOf(links) == [i \in DOMAIN links |-> links[i].parent]

LEMMA MentionsAreOccurrences ==
  ASSUME NEW links \in Seq(Link), NEW p
  PROVE  Mentions(links, p) = Occurrences(ParentsOf(links), p)
<1>1. Len(links) \in Nat /\ DOMAIN links = 1 .. Len(links)
  OBVIOUS
<1>2. Len(ParentsOf(links)) = Len(links) /\ DOMAIN ParentsOf(links) = DOMAIN links
  BY <1>1 DEF ParentsOf
<1>3. Places(ParentsOf(links), p) =
        [i \in DOMAIN links |-> IF links[i].parent = p THEN 1 ELSE 0]
  BY DEF Places, ParentsOf
<1> QED BY <1>2, <1>3 DEF Mentions, Occurrences, Places

DerivedExact ==
  \A h, p \in Hash :
    Occurrences(derivedBlocks[p], h) = Occurrences(ParentsOf(attributionDAG[h]), p)

IndexInv ==
  /\ \A h \in Hash : Registered(h) =>
       /\ ListedOnce(curatorBlocks, knowledgeBlocks[h].curator, h)
       /\ ListedOnce(blocksByType, knowledgeBlocks[h].kbType, h)
       /\ ListedOnce(blocksByDomain, knowledgeBlocks[h].domain, h)
  /\ \A h \in Hash : ~ Registered(h) =>
       NotListed(curatorBlocks, h) /\ NotListed(blocksByType, h) /\ NotListed(blocksByDomain, h)
  /\ DerivedExact

LEMMA IndexInit == Init => IndexInv
<1> SUFFICES ASSUME Init PROVE IndexInv
  OBVIOUS
<1>1. \A x : Occurrences(<< >>, x) = 0
  <2> TAKE x
  <2>1. << >> \in Seq({0}) /\ DOMAIN << >> = {} OBVIOUS
  <2> QED BY <2>1, OccurrencesFacts
<1>2. \A h \in Hash : ~ Registered(h)
  BY DEF Init, Registered, Unpublished
<1>3. \A h \in Hash : NotListed(curatorBlocks, h) /\ NotListed(blocksByType, h)
                      /\ NotListed(blocksByDomain, h)
  BY <1>1 DEF Init, NotListed
<1>4. DerivedExact
  <2>1. ParentsOf(<< >>) = << >> BY DEF ParentsOf
  <2> QED BY <1>1, <2>1 DEF Init, DerivedExact
<1> QED BY <1>2, <1>3, <1>4 DEF IndexInv

LEMMA IndexPublish ==
  ASSUME TypeOK, FreshInv, IndexInv, Publish
  PROVE  IndexInv'
<1>1. PICK h \in Hash, curator \in Payee, t \in KBTypes, d \in Domains, fee \in QueryFees,
           links \in LinkLists, value \in Deposits : publishKB(h, curator, t, d, fee, links, value)
  BY DEF Publish
<1> DEFINE kb == [curator |-> curator, kbType |-> t, domain |-> d, queryFee |-> fee, exists |-> TRUE]
<1>2. /\ ~ Registered(h) /\ links \in Seq(Link)
      /\ knowledgeBlocks' = [knowledgeBlocks EXCEPT ![h] = kb]
      /\ attributionDAG' = [attributionDAG EXCEPT ![h] = links]
      /\ curatorBlocks' = [curatorBlocks EXCEPT ![curator] = Append(@, h)]
      /\ blocksByType' = [blocksByType EXCEPT ![t] = Append(@, h)]
      /\ blocksByDomain' = [blocksByDomain EXCEPT ![d] = Append(@, h)]
      /\ derivedBlocks' = [p \in Hash |-> derivedBlocks[p] \o [i \in 1 .. Mentions(links, p) |-> h]]
  BY <1>1, RegistryAssumption DEF publishKB
<1>3. /\ knowledgeBlocks \in [Hash -> KnowledgeBlock] /\ attributionDAG \in [Hash -> Seq(Link)]
      /\ derivedBlocks \in [Hash -> Seq(Hash)] /\ curatorBlocks \in [Payee -> Seq(Hash)]
      /\ blocksByType \in [KBTypes -> Seq(Hash)] /\ blocksByDomain \in [Domains -> Seq(Hash)]
  BY DEF TypeOK, PublishedOK
<1>4. /\ Registered(h)' /\ knowledgeBlocks'[h].curator = curator
      /\ knowledgeBlocks'[h].kbType = t /\ knowledgeBlocks'[h].domain = d
      /\ \A k \in Hash \ {h} : /\ Registered(k)' = Registered(k)
                               /\ knowledgeBlocks'[k] = knowledgeBlocks[k]
  BY <1>2, <1>3 DEF Registered
<1> HIDE DEF kb
<1>5. /\ ListedOnce(curatorBlocks', curator, h)
      /\ ListedOnce(blocksByType', t, h)
      /\ ListedOnce(blocksByDomain', d, h)
  BY <1>2, <1>3, IndexAppend DEF IndexInv
<1>6. ASSUME NEW g \in Hash \ {h}
      PROVE  /\ Registered(g) =>
                  /\ ListedOnce(curatorBlocks', knowledgeBlocks[g].curator, g)
                  /\ ListedOnce(blocksByType', knowledgeBlocks[g].kbType, g)
                  /\ ListedOnce(blocksByDomain', knowledgeBlocks[g].domain, g)
             /\ ~ Registered(g) =>
                  /\ NotListed(curatorBlocks', g) /\ NotListed(blocksByType', g)
                  /\ NotListed(blocksByDomain', g)
  <2>1. /\ \A k : ListedOnce(curatorBlocks, k, g) => ListedOnce(curatorBlocks', k, g)
        /\ NotListed(curatorBlocks, g) => NotListed(curatorBlocks', g)
    BY <1>2, <1>3, IndexAppend
  <2>2. /\ \A k : ListedOnce(blocksByType, k, g) => ListedOnce(blocksByType', k, g)
        /\ NotListed(blocksByType, g) => NotListed(blocksByType', g)
    BY <1>2, <1>3, IndexAppend
  <2>3. /\ \A k : ListedOnce(blocksByDomain, k, g) => ListedOnce(blocksByDomain', k, g)
        /\ NotListed(blocksByDomain, g) => NotListed(blocksByDomain', g)
    BY <1>2, <1>3, IndexAppend
  <2> QED BY <2>1, <2>2, <2>3, Zenon DEF IndexInv
<1>7. DerivedExact'
  <2> SUFFICES ASSUME NEW g \in Hash, NEW p \in Hash
               PROVE  Occurrences(derivedBlocks'[p], g) =
                      Occurrences(ParentsOf(attributionDAG'[g]), p)
    BY DEF DerivedExact
  <2> DEFINE n    == Mentions(links, p)
             more == [i \in 1 .. n |-> h]
  <2>1. n \in Nat /\ n = Occurrences(ParentsOf(links), p)
    BY <1>2, MentionsIsNat, MentionsAreOccurrences
  <2>2. derivedBlocks'[p] = derivedBlocks[p] \o more /\ derivedBlocks[p] \in Seq(Hash)
    BY <1>2, <1>3
  <2> HIDE DEF n
  <2>3. Occurrences(more, g) = (IF h = g THEN n ELSE 0) /\ more \in Seq(Hash)
    <3>1. n \in Nat BY <2>1
    <3>2. more \in Seq(Hash) BY <3>1, IsASeq, Zenon
    <3>3. Occurrences(more, g) = IF h = g THEN n ELSE 0 
      <4>1. more = Repeated(h, n) BY DEF Repeated
      <4> HIDE DEF more
      <4>2. Occurrences(Repeated(h, n), g) = IF h = g THEN n ELSE 0
        BY <3>1, OccurrencesRepeated
      <4> QED BY <4>1, <4>2
    <3> QED BY <3>2, <3>3
  <2> HIDE DEF more
  <2>4. Occurrences(derivedBlocks'[p], g) =
        Occurrences(derivedBlocks[p], g) + (IF h = g THEN n ELSE 0)
    BY <2>1, <2>2, <2>3, OccurrencesConcat
  <2>5. Occurrences(derivedBlocks[p], g) \in Nat
    BY <2>2, OccurrencesFacts
  <2>6. Occurrences(derivedBlocks[p], g) = Occurrences(ParentsOf(attributionDAG[g]), p)
    BY DEF IndexInv, DerivedExact
  <2>7. CASE g = h
    <3>1. attributionDAG[h] = << >> /\ attributionDAG'[h] = links
      BY <1>2, <1>3 DEF FreshInv
    <3>2. Occurrences(ParentsOf(<< >>), p) = 0
      <4>1. ParentsOf(<< >>) = << >> /\ << >> \in Seq(Hash) /\ DOMAIN << >> = {} BY DEF ParentsOf
      <4>2. Occurrences(<< >>, p) = 0 BY <4>1, OccurrencesFacts
      <4> QED BY <4>1, <4>2
    <3> QED BY <2>1, <2>4, <2>5, <2>6, <2>7, <3>1, <3>2
  <2>8. CASE g # h
    <3>1. attributionDAG'[g] = attributionDAG[g] BY <1>2, <1>3, <2>8
    <3> QED BY <2>4, <2>5, <2>6, <2>8, <3>1
  <2> QED BY <2>7, <2>8
<1>8. \A g \in Hash : Registered(g)' =>
        /\ ListedOnce(curatorBlocks, knowledgeBlocks[g].curator, g)'
        /\ ListedOnce(blocksByType, knowledgeBlocks[g].kbType, g)'
        /\ ListedOnce(blocksByDomain, knowledgeBlocks[g].domain, g)'
  BY <1>4, <1>5, <1>6
<1>9. \A g \in Hash : ~ Registered(g)' =>
        NotListed(curatorBlocks, g)' /\ NotListed(blocksByType, g)' /\ NotListed(blocksByDomain, g)'
  BY <1>4, <1>6
<1> QED BY <1>7, <1>8, <1>9 DEF IndexInv

LEMMA IndexStep ==
  ASSUME TypeOK, FreshInv, IndexInv, [Next]_vars
  PROVE  IndexInv'
<1>1. CASE UNCHANGED published
  BY <1>1 DEF published, IndexInv, DerivedExact, Registered
<1> QED BY <1>1, IndexPublish, OnlyPublishPublishes

LEMMA IndexInvGivesExact ==
  ASSUME TypeOK, IndexInv
  PROVE  IndexesExact
<1>1. /\ DOMAIN curatorBlocks = Payee /\ DOMAIN blocksByType = KBTypes
      /\ DOMAIN blocksByDomain = Domains
  BY DEF TypeOK, PublishedOK
<1>2. ASSUME NEW h \in Hash
      PROVE  /\ \A k \in DOMAIN curatorBlocks : Occurrences(curatorBlocks[k], h) =
                  IF Registered(h) /\ k = knowledgeBlocks[h].curator THEN 1 ELSE 0
             /\ \A k \in DOMAIN blocksByType : Occurrences(blocksByType[k], h) =
                  IF Registered(h) /\ k = knowledgeBlocks[h].kbType THEN 1 ELSE 0
             /\ \A k \in DOMAIN blocksByDomain : Occurrences(blocksByDomain[k], h) =
                  IF Registered(h) /\ k = knowledgeBlocks[h].domain THEN 1 ELSE 0
  BY DEF IndexInv, ListedOnce, NotListed
<1> QED BY <1>2 DEF IndexesExact, IndexInv, DerivedExact, ParentsOf

\* The lookup indexes list every registered block once, where it belongs, and
\* derivedBlocks is the inverse of attributionDAG, with multiplicity.
THEOREM IndexesAreExact == Spec => []IndexesExact
<1> DEFINE Inv == StakeInv /\ IndexInv
<1>1. Init => Inv
  BY StakeInvariance, IndexInit
<1>2. Inv /\ [Next]_vars => Inv'
  BY StakeInvariance, IndexStep DEF StakeInv
<1>3. Inv => IndexesExact
  BY IndexInvGivesExact DEF StakeInv
<1> QED BY <1>1, <1>2, <1>3, PTL DEF Spec

-----------------------------------------------------------------------------
(* Scores.  A score that is not recomputed belongs to a parent, and so to  *)
(* a block that others derive from (IndexInv).                             *)

ScoreLags(h, r) ==
  \E v \in 0 .. r.queryVolume :
    /\ r.score = ScoreOf([r EXCEPT !.queryVolume = v])
    /\ derivedBlocks[h] = << >> => v = r.queryVolume

ScoreInv ==
  \A h \in Hash :
    /\ ScoreLags(h, reputation[h])
    /\ call.op # "idle" => ScoreLags(h, call.saved.reputation[h])

\* A score depends on the three counters only.
SameCounters(r, s) ==
  /\ r.queryVolume = s.queryVolume /\ r.positiveOutcomes = s.positiveOutcomes
  /\ r.endorsements = s.endorsements

LEMMA ScoreOfCounters ==
  ASSUME NEW r, NEW s, SameCounters(r, s)
  PROVE  ScoreOf(r) = ScoreOf(s)
BY DEF SameCounters, ScoreOf

LEMMA RecomputedScore ==
  ASSUME NEW h, NEW r \in ReputationRecord
  PROVE  ScoreLags(h, RecomputeScore(r))
<1> DEFINE new == RecomputeScore(r)
<1>1. /\ new.score = ScoreOf(r) /\ SameCounters(new, r) /\ new.queryVolume \in Nat
      /\ SameCounters([new EXCEPT !.queryVolume = new.queryVolume], r)
  BY RegistryAssumption DEF RecomputeScore, ReputationRecord, SameCounters
<1> HIDE DEF new
<1>2. ScoreOf([new EXCEPT !.queryVolume = new.queryVolume]) = ScoreOf(r)
  BY <1>1, ScoreOfCounters
<1>3. new.queryVolume \in 0 .. new.queryVolume
  BY <1>1
<1>4. ScoreLags(h, new)
  BY <1>1, <1>2, <1>3 DEF ScoreLags
<1> QED BY <1>4 DEF new

LEMMA CountedScore ==
  ASSUME NEW h, NEW r \in ReputationRecord, ScoreLags(h, r), derivedBlocks[h] # << >>
  PROVE  ScoreLags(h, [r EXCEPT !.queryVolume = @ + 1])
<1> DEFINE new == [r EXCEPT !.queryVolume = @ + 1]
<1>1. PICK v \in 0 .. r.queryVolume : r.score = ScoreOf([r EXCEPT !.queryVolume = v])
  BY DEF ScoreLags
<1>2. /\ new.score = r.score /\ new.queryVolume = r.queryVolume + 1 /\ r.queryVolume \in Nat
      /\ SameCounters([new EXCEPT !.queryVolume = v], [r EXCEPT !.queryVolume = v])
  BY RegistryAssumption DEF ReputationRecord, SameCounters
<1> HIDE DEF new
<1>3. ScoreOf([new EXCEPT !.queryVolume = v]) = ScoreOf([r EXCEPT !.queryVolume = v])
  BY <1>2, ScoreOfCounters
<1>4. v \in 0 .. new.queryVolume
  BY <1>1, <1>2
<1>5. ScoreLags(h, new)
  BY <1>1, <1>2, <1>3, <1>4 DEF ScoreLags
<1> QED BY <1>5 DEF new

LEMMA ZeroScore ==
  ASSUME NEW h
  PROVE  ScoreLags(h, [queryVolume |-> 0, positiveOutcomes |-> 0, endorsements |-> 0, score |-> 0])
<1> DEFINE z == [queryVolume |-> 0, positiveOutcomes |-> 0, endorsements |-> 0, score |-> 0]
<1>1. /\ z.queryVolume = 0 /\ z.positiveOutcomes = 0 /\ z.endorsements = 0 /\ z.score = 0
      /\ [z EXCEPT !.queryVolume = 0] = z
  OBVIOUS
<1> HIDE DEF z
<1>2. ScoreOf(z) = 0
  BY <1>1 DEF ScoreOf, AtMost, MaxScore
<1>3. ScoreLags(h, z)
  BY <1>1, <1>2 DEF ScoreLags
<1> QED BY <1>3 DEF z

LEMMA ScoreInit == Init => ScoreInv
<1> SUFFICES ASSUME Init, NEW h \in Hash PROVE ScoreLags(h, reputation[h]) /\ call.op = "idle"
  BY DEF ScoreInv
<1>1. reputation[h] = [queryVolume |-> 0, positiveOutcomes |-> 0, endorsements |-> 0, score |-> 0]
  BY DEF Init
<1> QED BY <1>1, ZeroScore DEF Init, Idle

\* What a step that publishes nothing does to the reputation of a block.
LEMMA ScoreUpdates ==
  ASSUME TypeOK, DagInv, EtherInv, IndexInv, ScoreInv, NEW h \in Hash,
         \/ Reputation \/ SettleLinkPaid \/ SettleFinish \/ reputation' = reputation
  PROVE  ScoreLags(h, reputation'[h])
<1>0. /\ reputation \in [Hash -> ReputationRecord] /\ reputation[h] \in ReputationRecord
      /\ ScoreLags(h, reputation[h])
  BY DEF TypeOK, ReputationOK, ScoreInv
<1>1. ASSUME NEW k \in Hash, NEW r \in ReputationRecord,
             reputation' = [reputation EXCEPT ![k] = RecomputeScore(r)]
      PROVE  ScoreLags(h, reputation'[h])
  <2>1. reputation'[h] = IF h = k THEN RecomputeScore(r) ELSE reputation[h]
    BY <1>0, <1>1
  <2> QED BY <1>0, <2>1, RecomputedScore
<1>2. CASE Reputation
  <2>1. PICK k \in Hash : recordPositiveOutcome(k) \/ \E a \in Account : endorse(a, k)
    BY <1>2 DEF Reputation
  <2>2. reputation[k] \in ReputationRecord
    BY <1>0
  <2>3. CASE recordPositiveOutcome(k)
    <3> DEFINE r == [reputation[k] EXCEPT !.positiveOutcomes = @ + 1]
    <3>1. r \in ReputationRecord
      BY <2>2, <2>3, CounterUpdates DEF recordPositiveOutcome
    <3>2. reputation' = [reputation EXCEPT ![k] = RecomputeScore(r)]
      BY <2>3 DEF recordPositiveOutcome
    <3> HIDE DEF r
    <3> QED BY <1>1, <3>1, <3>2
  <2>4. CASE \E a \in Account : endorse(a, k)
    <3> DEFINE r == [reputation[k] EXCEPT !.endorsements = @ + 1]
    <3>1. r \in ReputationRecord
      BY <2>2, <2>4, CounterUpdates DEF endorse
    <3>2. reputation' = [reputation EXCEPT ![k] = RecomputeScore(r)]
      BY <2>4 DEF endorse
    <3> HIDE DEF r
    <3> QED BY <1>1, <3>1, <3>2
  <2> QED BY <2>1, <2>3, <2>4
<1>3. CASE SettleFinish
  <2> DEFINE r == [reputation[call.hash] EXCEPT !.queryVolume = @ + 1]
  <2>1. call.hash \in Hash
    BY <1>3, SettlingFrame DEF SettleFinish
  <2>2. r \in ReputationRecord
    BY <1>0, <1>3, <2>1, CounterUpdates DEF SettleFinish
  <2>3. reputation' = [reputation EXCEPT ![call.hash] = RecomputeScore(r)]
    BY <1>3 DEF SettleFinish
  <2> HIDE DEF r
  <2> QED BY <1>1, <2>1, <2>2, <2>3
<1>4. CASE SettleLinkPaid
  <2>1. /\ call.op = "settle" /\ ~ AtCurator
        /\ reputation' = [reputation EXCEPT ![Recipient].queryVolume = @ + 1]
    BY <1>4 DEF SettleLinkPaid
  <2>2. /\ call.hash \in Hash /\ Recipient \in Hash /\ settledLinks \in Seq(Link)
        /\ call.i \in 1 .. Len(settledLinks) + 1
    BY <2>1, SettlingFrame
  <2>3. call.i \in DOMAIN settledLinks /\ settledLinks[call.i].parent = Recipient
    BY <2>1, <2>2 DEF AtCurator, Recipient
  <2>4. derivedBlocks[Recipient] # << >>
    <3>1. ParentsOf(settledLinks) \in Seq(Hash)
      BY <2>2, LinkFields DEF ParentsOf
    <3>2. /\ call.i \in DOMAIN ParentsOf(settledLinks)
          /\ ParentsOf(settledLinks)[call.i] = Recipient
      BY <2>3 DEF ParentsOf
    <3>3. Occurrences(ParentsOf(settledLinks), Recipient) # 0
      BY <3>1, <3>2, OccurrencesFacts
    <3>4. Occurrences(derivedBlocks[Recipient], call.hash) # 0
      BY <2>2, <3>3 DEF IndexInv, DerivedExact, settledLinks
    <3>5. Occurrences(<< >>, call.hash) = 0
      <4>1. << >> \in Seq(Hash) /\ DOMAIN << >> = {} OBVIOUS
      <4> QED BY <4>1, OccurrencesFacts
    <3> QED BY <3>4, <3>5
  <2>5. reputation'[h] = IF h = Recipient THEN [reputation[h] EXCEPT !.queryVolume = @ + 1]
                         ELSE reputation[h]
    BY <1>0, <2>1, <2>2
  <2> QED BY <1>0, <2>4, <2>5, CountedScore
<1> QED BY <1>0, <1>2, <1>3, <1>4

LEMMA ScorePublish ==
  ASSUME TypeOK, ScoreInv, Publish
  PROVE  ScoreInv'
<1>1. PICK k \in Hash, curator \in Payee, t \in KBTypes, d \in Domains, fee \in QueryFees,
           links \in LinkLists, value \in Deposits : publishKB(k, curator, t, d, fee, links, value)
  BY DEF Publish
<1>2. /\ reputation' = [reputation EXCEPT ![k] =
           [queryVolume |-> 0, positiveOutcomes |-> 0, endorsements |-> 0, score |-> 0]]
      /\ derivedBlocks' = [p \in Hash |-> derivedBlocks[p] \o [i \in 1 .. Mentions(links, p) |-> k]]
      /\ call.op = "idle" /\ call' = call /\ links \in Seq(Link)
      /\ reputation \in [Hash -> ReputationRecord] /\ derivedBlocks \in [Hash -> Seq(Hash)]
  BY <1>1, RegistryAssumption DEF publishKB, NonReentrant, TypeOK, ReputationOK, PublishedOK
<1> SUFFICES ASSUME NEW h \in Hash PROVE ScoreLags(h, reputation[h])'
  BY <1>2 DEF ScoreInv
<1>3. derivedBlocks'[h] = << >> => derivedBlocks[h] = << >>
  <2> DEFINE more == [i \in 1 .. Mentions(links, h) |-> k]
  <2>1. more \in Seq(Hash)
    BY <1>2, MentionsIsNat, IsASeq, Zenon
  <2>2. derivedBlocks'[h] = derivedBlocks[h] \o more /\ derivedBlocks[h] \in Seq(Hash)
    BY <1>2
  <2> HIDE DEF more
  <2>3. Len(derivedBlocks[h] \o more) = Len(derivedBlocks[h]) + Len(more)
        /\ Len(derivedBlocks[h]) \in Nat /\ Len(more) \in Nat /\ Len(<< >>) = 0
    BY <2>1, <2>2
  <2>4. Len(derivedBlocks[h]) = 0 => derivedBlocks[h] = << >>
    BY <2>2
  <2> QED BY <2>2, <2>3, <2>4
<1>4. ScoreLags(h, reputation'[h])
  <2>1. reputation'[h] =
          IF h = k THEN [queryVolume |-> 0, positiveOutcomes |-> 0, endorsements |-> 0, score |-> 0]
          ELSE reputation[h]
    BY <1>2
  <2> QED BY <2>1, ZeroScore DEF ScoreInv
<1> QED BY <1>3, <1>4 DEF ScoreLags

LEMMA ScoreStep ==
  ASSUME TypeOK, DagInv, EtherInv, IndexInv, ScoreInv, [Next]_vars
  PROVE  ScoreInv'
<1>1. CASE Publish
  BY <1>1, ScorePublish
<1>2. CASE UNCHANGED published /\ ~ Publish
  <2> SUFFICES ASSUME NEW h \in Hash
               PROVE  /\ ScoreLags(h, reputation'[h])
                      /\ call'.op # "idle" => ScoreLags(h, call'.saved.reputation[h])
    BY <1>2 DEF ScoreInv, ScoreLags, published
  <2>1. CASE Revert
    BY <2>1, RevertRestores DEF ScoreInv, Snapshot
  <2>2. CASE ~ Revert
    <3>1. ScoreLags(h, reputation'[h])
      <4>1. CASE Staking \/ Admin
        <5>1. ASSUME Staking PROVE reputation' = reputation
          BY <5>1 DEF Staking, slash, addStake, withdrawStake, TakeStake
        <5>2. ASSUME Admin PROVE reputation' = reputation
          BY <5>2 DEF Admin, setProtocolFee, setSlashRate, setMinStake, withdrawTreasury
        <5>3. reputation' = reputation
          BY <4>1, <5>1, <5>2
        <5> QED BY <5>3, ScoreUpdates
      <4>2. CASE \/ \E k \in Hash : settleQuery(k)
                 \/ \E a \in Account, v \in Deposits : receive(a, v)
        BY <4>2, ScoreUpdates DEF settleQuery, receive
      <4>3. CASE SettleSkip \/ SettlePay \/ WithdrawDone \/ Tick \/ UNCHANGED vars
        BY <4>3, ScoreUpdates DEF SettleSkip, SettlePay, WithdrawDone, Tick, vars
      <4> QED BY <1>2, <2>2, <4>1, <4>2, <4>3, ScoreUpdates DEF Next, Settle
    <3>2. ASSUME call'.op # "idle" PROVE ScoreLags(h, call'.saved.reputation[h])
      <4>1. CASE call'.saved = call.saved /\ call.op # "idle"
        BY <4>1 DEF ScoreInv
      <4>2. CASE call'.saved = Snapshot
        BY <4>2 DEF ScoreInv, Snapshot
      <4>3. CASE OneAction \/ UNCHANGED vars
        BY <3>2, <4>1, <4>3, OneActionKeepsCall DEF vars
      <4>4. CASE Starts
        BY <4>2, <4>4, StartSaves
      <4>5. CASE SettleSkip \/ SettlePay \/ SettleLinkPaid
        BY <4>1, <4>5, SettlingKeepsSaved
      <4>6. CASE Ends \/ Tick
        BY <3>2, <4>6, EndsCommit DEF Tick, NonReentrant
      <4> QED BY <2>2, <4>3, <4>4, <4>5, <4>6, NextCases DEF Settle, Ends
    <3> QED BY <3>1, <3>2
  <2> QED BY <2>1, <2>2
<1> QED BY <1>1, <1>2, OnlyPublishPublishes

\* A stored score is the formula over the current outcomes and endorsements, and
\* over the current query volume unless others derive from the block.
THEOREM ScoresLagOnlyInVolume == Spec => []ScoreLagsOnlyInVolume
<1> DEFINE Inv == StakeInv /\ IndexInv /\ ScoreInv
<1>1. Init => Inv
  BY StakeInvariance, IndexInit, ScoreInit
<1>2. Inv /\ [Next]_vars => Inv'
  BY StakeInvariance, IndexStep, ScoreStep DEF StakeInv
<1>3. Inv => ScoreLagsOnlyInVolume
  BY DEF ScoreInv, ScoreLags, ScoreLagsOnlyInVolume
<1> QED BY <1>1, <1>2, <1>3, PTL DEF Spec

-----------------------------------------------------------------------------
(* The settlement in one step.  What a settlement in progress has added to *)
(* the saved state is what its links up to the current one bring.          *)

\* Of a distributable D: the share of each link, what of it is p's, and in how
\* many payments.
AllShares(D, links) == [i \in DOMAIN links |-> (D * links[i].bps) \div Bps]
SharesTo(D, links, p) ==
  [i \in DOMAIN links |-> IF links[i].parent = p THEN AllShares(D, links)[i] ELSE 0]
PaymentsTo(D, links, p) ==
  [i \in DOMAIN links |-> IF links[i].parent = p /\ AllShares(D, links)[i] > 0 THEN 1 ELSE 0]

\* royaltyPaid after the first n links of the settlement in progress.
PaidAfter(n) ==
  /\ call.paid = SumTo(AllShares(call.distributable, settledLinks), n)
  /\ \A p \in Hash :
       royaltyPaid[p] = call.saved.royaltyPaid[p] +
                        SumTo(SharesTo(call.distributable, settledLinks, p), n)

\* royaltyPaid after all links and the curator.
LeftOver == call.distributable -
            SumTo(AllShares(call.distributable, settledLinks), Len(settledLinks))
PaidAfterAll ==
  /\ LeftOver >= 0
  /\ \A p \in Hash :
       royaltyPaid[p] = call.saved.royaltyPaid[p] +
         (SumTo(SharesTo(call.distributable, settledLinks, p), Len(settledLinks)) +
          (IF p = call.hash THEN LeftOver ELSE 0))

CountedAfter(n) ==
  \A p \in Hash :
    reputation[p].queryVolume = call.saved.reputation[p].queryVolume +
                                SumTo(PaymentsTo(call.distributable, settledLinks, p), n)

SettledSoFar ==
  /\ ~ call.saved.stakes[call.hash].slashed
  /\ call.distributable = knowledgeBlocks[call.hash].queryFee -
       ((knowledgeBlocks[call.hash].queryFee * call.saved.protocolFeesBps) \div Bps)
  /\ IF LinksPaid <= Len(settledLinks) THEN PaidAfter(LinksPaid) ELSE PaidAfterAll
  /\ CountedAfter(call.i - 1)
  /\ ~ InControl /\ ~ AtCurator => AllShares(call.distributable, settledLinks)[call.i] > 0

WithdrawnSoFar ==
  /\ royaltyPaid = call.saved.royaltyPaid
  /\ \A p \in Hash : reputation[p].queryVolume = call.saved.reputation[p].queryVolume

ProgressInv ==
  /\ call.op = "settle" => SettledSoFar
  /\ call.op = "withdraw" => WithdrawnSoFar

LEMMA ShareFacts ==
  ASSUME NEW D \in Nat, NEW links \in Seq(Link), NEW p
  PROVE  /\ \A i \in 1 .. Len(links) :
              /\ AllShares(D, links)[i] = (D * links[i].bps) \div Bps
              /\ AllShares(D, links)[i] \in Nat
              /\ SharesTo(D, links, p)[i] =
                   IF links[i].parent = p THEN AllShares(D, links)[i] ELSE 0
              /\ SharesTo(D, links, p)[i] \in Nat
              /\ PaymentsTo(D, links, p)[i] =
                   IF links[i].parent = p /\ AllShares(D, links)[i] > 0 THEN 1 ELSE 0
              /\ PaymentsTo(D, links, p)[i] \in Nat
<1>1. Len(links) \in Nat /\ DOMAIN links = 1 .. Len(links)
  OBVIOUS
<1>2. ASSUME NEW i \in 1 .. Len(links) PROVE (D * links[i].bps) \div Bps \in Nat
  <2>1. links[i].bps \in Nat BY <1>1, LinkFields
  <2> QED BY <2>1, ShareRoundsDown
<1>3. ASSUME NEW i \in 1 .. Len(links)
      PROVE  AllShares(D, links)[i] = (D * links[i].bps) \div Bps
  BY <1>1 DEF AllShares
<1>4. ASSUME NEW i \in 1 .. Len(links)
      PROVE  /\ SharesTo(D, links, p)[i] =
                  IF links[i].parent = p THEN AllShares(D, links)[i] ELSE 0
             /\ PaymentsTo(D, links, p)[i] =
                  IF links[i].parent = p /\ AllShares(D, links)[i] > 0 THEN 1 ELSE 0
  BY <1>1 DEF SharesTo, PaymentsTo
<1> QED BY <1>2, <1>3, <1>4

\* The sums over the links step with the links.
LEMMA ShareSums ==
  ASSUME NEW D \in Nat, NEW links \in Seq(Link), NEW p
  PROVE  /\ SumTo(AllShares(D, links), 0) = 0
         /\ SumTo(SharesTo(D, links, p), 0) = 0
         /\ SumTo(PaymentsTo(D, links, p), 0) = 0
         /\ \A n \in 0 .. Len(links) :
              /\ SumTo(AllShares(D, links), n) \in Nat
              /\ SumTo(SharesTo(D, links, p), n) \in Nat
              /\ SumTo(PaymentsTo(D, links, p), n) \in Nat
         /\ \A n \in 1 .. Len(links) :
              /\ SumTo(AllShares(D, links), n) =
                   SumTo(AllShares(D, links), n - 1) + AllShares(D, links)[n]
              /\ SumTo(SharesTo(D, links, p), n) =
                   SumTo(SharesTo(D, links, p), n - 1) + SharesTo(D, links, p)[n]
              /\ SumTo(PaymentsTo(D, links, p), n) =
                   SumTo(PaymentsTo(D, links, p), n - 1) + PaymentsTo(D, links, p)[n]
<1>1. ASSUME NEW g, \A i \in 1 .. Len(links) : g[i] \in Nat
      PROVE  /\ SumTo(g, 0) = 0
             /\ \A n \in 0 .. Len(links) : SumTo(g, n) \in Nat
             /\ \A n \in 1 .. Len(links) : SumTo(g, n) = SumTo(g, n - 1) + g[n]
  <2>0. Len(links) \in Nat OBVIOUS
  <2>1. SumTo(g, 0) = 0 BY SumZero
  <2>2. ASSUME NEW n \in 0 .. Len(links) PROVE SumTo(g, n) \in Nat
    <3>1. n \in Nat /\ \A i \in 1 .. n : g[i] \in Nat BY <1>1, <2>0
    <3> QED BY <3>1, SumNat, Zenon
  <2>3. ASSUME NEW n \in 1 .. Len(links) PROVE SumTo(g, n) = SumTo(g, n - 1) + g[n]
    <3>1. n - 1 \in 0 .. Len(links) - 1 /\ (n - 1) + 1 = n BY <2>0
    <3>2. \A i \in 1 .. Len(links) : g[i] \in Int BY <1>1
    <3>3. SumTo(g, (n - 1) + 1) = SumTo(g, n - 1) + g[(n - 1) + 1]
      BY <2>0, <3>1, <3>2, SumStep, Zenon
    <3> QED BY <3>1, <3>3
  <2> QED BY <2>1, <2>2, <2>3
<1>2. /\ \A i \in 1 .. Len(links) : AllShares(D, links)[i] \in Nat
      /\ \A i \in 1 .. Len(links) : SharesTo(D, links, p)[i] \in Nat
      /\ \A i \in 1 .. Len(links) : PaymentsTo(D, links, p)[i] \in Nat
  BY ShareFacts
<1> QED BY <1>1, <1>2, Zenon

\* A settlement in control of a link owes it its share.
LEMMA DueIsShare ==
  ASSUME TypeOK, DagInv, call.op = "settle", ~ AtCurator
  PROVE  /\ call.i \in 1 .. Len(settledLinks) /\ Recipient = settledLinks[call.i].parent
         /\ Due = AllShares(call.distributable, settledLinks)[call.i]
<1>1. /\ call.hash \in Hash /\ settledLinks \in Seq(Link) /\ Recipient \in Hash
      /\ call.i \in 1 .. Len(settledLinks) + 1 /\ Len(settledLinks) \in Nat
      /\ call.distributable \in Nat
  BY SettlingFrame
<1>2. call.i \in 1 .. Len(settledLinks) /\ Recipient = settledLinks[call.i].parent
  BY <1>1 DEF AtCurator, Recipient
<1>3. Registered(Recipient)
  <2>1. call.i \in DOMAIN settledLinks BY <1>1, <1>2
  <2> QED BY <1>1, <1>2, <2>1 DEF DagInv, ParentsRegistered, settledLinks
<1>4. Due = (call.distributable * settledLinks[call.i].bps) \div Bps
  BY <1>3 DEF Due
<1>5. AllShares(call.distributable, settledLinks)[call.i] =
        (call.distributable * settledLinks[call.i].bps) \div Bps
  <2>1. \A i \in 1 .. Len(settledLinks) : AllShares(call.distributable, settledLinks)[i] =
          (call.distributable * settledLinks[i].bps) \div Bps
    BY <1>1, ShareFacts, ZenonT(30)
  <2> QED BY <1>2, <2>1
<1> QED BY <1>2, <1>4, <1>5

-----------------------------------------------------------------------------
(* A call that pays nobody counts no query.                                *)

LEMMA SameVolume ==
  ASSUME NEW h \in Hash, TypeOK, NEW r, r.queryVolume = reputation[h].queryVolume,
         reputation' = [reputation EXCEPT ![h] = RecomputeScore(r)], r \in ReputationRecord
  PROVE  \A p \in Hash : reputation'[p].queryVolume = reputation[p].queryVolume
<1>1. RecomputeScore(r).queryVolume = reputation[h].queryVolume
  BY DEF RecomputeScore, ReputationRecord
<1>2. reputation \in [Hash -> ReputationRecord]
  BY DEF TypeOK, ReputationOK
<1> QED BY <1>1, <1>2

LEMMA OneActionPaysNobody ==
  ASSUME TypeOK, OneAction, ~ Publish
  PROVE  /\ royaltyPaid' = royaltyPaid /\ UNCHANGED published
         /\ \A p \in Hash : reputation'[p].queryVolume = reputation[p].queryVolume
<1>1. ASSUME NEW h \in Hash, recordPositiveOutcome(h)
      PROVE  \A p \in Hash : reputation'[p].queryVolume = reputation[p].queryVolume
  <2> DEFINE r == [reputation[h] EXCEPT !.positiveOutcomes = @ + 1]
  <2>1. reputation[h] \in ReputationRecord BY DEF TypeOK, ReputationOK
  <2>2. r.positiveOutcomes <= UInt32Max /\ reputation' = [reputation EXCEPT ![h] = RecomputeScore(r)]
    BY <1>1 DEF recordPositiveOutcome
  <2>3. r \in ReputationRecord
    BY <2>1, <2>2, CounterUpdates
  <2>4. r.queryVolume = reputation[h].queryVolume
    BY <2>1 DEF ReputationRecord
  <2> HIDE DEF r
  <2> QED BY <2>2, <2>3, <2>4, SameVolume
<1>2. ASSUME NEW h \in Hash, NEW a \in Account, endorse(a, h)
      PROVE  \A p \in Hash : reputation'[p].queryVolume = reputation[p].queryVolume
  <2> DEFINE r == [reputation[h] EXCEPT !.endorsements = @ + 1]
  <2>1. reputation[h] \in ReputationRecord BY DEF TypeOK, ReputationOK
  <2>2. r.endorsements <= UInt32Max /\ reputation' = [reputation EXCEPT ![h] = RecomputeScore(r)]
    BY <1>2 DEF endorse
  <2>3. r \in ReputationRecord
    BY <2>1, <2>2, CounterUpdates
  <2>4. r.queryVolume = reputation[h].queryVolume
    BY <2>1 DEF ReputationRecord
  <2> HIDE DEF r
  <2> QED BY <2>2, <2>3, <2>4, SameVolume
<1>3. CASE Reputation
  BY <1>1, <1>2, <1>3 DEF Reputation, recordPositiveOutcome, endorse
<1>4. CASE \E h \in Hash : slash(h) \/ \E a \in Account, v \in Deposits : addStake(a, h, v)
  BY <1>4 DEF slash, addStake
<1>5. CASE \/ \E b \in FeeChoices : setProtocolFee(b)
           \/ \E b \in SlashChoices : setSlashRate(b)
           \/ \E m \in MinStakeChoices : setMinStake(m)
           \/ \E a \in Account, v \in Deposits : receive(a, v)
  BY <1>5 DEF setProtocolFee, setSlashRate, setMinStake, receive
<1> QED BY <1>3, <1>4, <1>5 DEF OneAction

\* Progress depends on the frame and on what was paid and counted only.
LEMMA ProgressSame ==
  ASSUME ProgressInv, UNCHANGED << published, royaltyPaid, call >>,
         \A p \in Hash : reputation'[p].queryVolume = reputation[p].queryVolume
  PROVE  ProgressInv'
<1>1. /\ knowledgeBlocks' = knowledgeBlocks /\ call' = call /\ royaltyPaid' = royaltyPaid
      /\ settledLinks' = settledLinks /\ LinksPaid' = LinksPaid
      /\ InControl' = InControl /\ AtCurator' = AtCurator /\ LeftOver' = LeftOver
  BY DEF published, settledLinks, LinksPaid, InControl, AtCurator, LeftOver
<1>2. ASSUME SettledSoFar PROVE SettledSoFar'
  <2>1. PaidAfter(LinksPaid) = PaidAfter(LinksPaid)' /\ PaidAfterAll = PaidAfterAll'
    BY <1>1 DEF PaidAfter, PaidAfterAll
  <2>2. CountedAfter(call.i - 1) = CountedAfter(call.i - 1)'
    BY <1>1 DEF CountedAfter
  <2> QED BY <1>1, <1>2, <2>1, <2>2 DEF SettledSoFar
<1>3. ASSUME WithdrawnSoFar PROVE WithdrawnSoFar'
  BY <1>1, <1>3 DEF WithdrawnSoFar
<1> QED BY <1>1, <1>2, <1>3 DEF ProgressInv

-----------------------------------------------------------------------------
(* The progress of a settlement, action by action.                         *)

LEMMA ProgressSettleQuery ==
  ASSUME TypeOK, NEW h \in Hash, settleQuery(h)
  PROVE  ProgressInv'
<1> DEFINE value == knowledgeBlocks[h].queryFee
           fee   == (value * protocolFeesBps) \div Bps
<1>1. /\ call' = [op |-> "settle", hash |-> h, i |-> 1, callee |-> Zero, paid |-> 0,
                  distributable |-> value - fee, saved |-> Snapshot]
      /\ ~ stakes[h].slashed
      /\ UNCHANGED << published, stakes, reputation, royaltyPaid >>
  BY DEF settleQuery
<1>2. /\ call'.op = "settle" /\ call'.hash = h /\ call'.i = 1 /\ call'.callee = Zero
      /\ call'.paid = 0 /\ call'.distributable = value - fee
      /\ call'.saved.stakes = stakes /\ call'.saved.reputation = reputation
      /\ call'.saved.protocolFeesBps = protocolFeesBps /\ call'.saved.royaltyPaid = royaltyPaid
  BY <1>1 DEF Snapshot
<1> HIDE DEF value, fee
<1>3. /\ knowledgeBlocks' = knowledgeBlocks /\ settledLinks' = attributionDAG[h]
      /\ Len(settledLinks') \in Nat
  BY <1>1, <1>2 DEF published, settledLinks, TypeOK, PublishedOK
<1>4. LinksPaid' = 0 /\ InControl'
  BY <1>2 DEF LinksPaid, InControl
<1>5. ASSUME NEW p \in Hash
      PROVE  royaltyPaid[p] \in Nat /\ reputation[p].queryVolume \in Nat
  BY RegistryAssumption DEF TypeOK, EtherOK, ReputationOK, ReputationRecord
<1>6. PaidAfter(LinksPaid)'
  BY <1>1, <1>2, <1>4, <1>5, SumZero DEF PaidAfter
<1>7. CountedAfter(call.i - 1)'
  BY <1>1, <1>2, <1>5, SumZero DEF CountedAfter
<1>8. call'.distributable = knowledgeBlocks'[call'.hash].queryFee -
        ((knowledgeBlocks'[call'.hash].queryFee * call'.saved.protocolFeesBps) \div Bps)
  BY <1>2, <1>3 DEF value, fee
<1>9. SettledSoFar'
  BY <1>1, <1>2, <1>3, <1>4, <1>6, <1>7, <1>8 DEF SettledSoFar
<1> QED BY <1>2, <1>9 DEF ProgressInv

LEMMA ProgressWithdraw ==
  ASSUME TypeOK,
         \/ \E h \in Hash, a \in Account : withdrawStake(a, h)
         \/ \E a \in Payee : withdrawTreasury(a)
  PROVE  ProgressInv'
<1>1. /\ call'.op = "withdraw" /\ call'.saved = Snapshot
      /\ UNCHANGED << reputation, royaltyPaid >>
  BY DEF withdrawStake, TakeStake, withdrawTreasury, Idle
<1> QED BY <1>1 DEF ProgressInv, WithdrawnSoFar, Snapshot

\* One link more: the sums grow by what is due.
LEMMA DueSums ==
  ASSUME TypeOK, DagInv, call.op = "settle", ~ AtCurator
  PROVE  /\ Due \in Nat
         /\ SumTo(AllShares(call.distributable, settledLinks), call.i) =
              SumTo(AllShares(call.distributable, settledLinks), call.i - 1) + Due
         /\ SumTo(AllShares(call.distributable, settledLinks), call.i - 1) \in Nat
         /\ \A p \in Hash :
              /\ SumTo(SharesTo(call.distributable, settledLinks, p), call.i) =
                   SumTo(SharesTo(call.distributable, settledLinks, p), call.i - 1) +
                   (IF p = Recipient THEN Due ELSE 0)
              /\ SumTo(SharesTo(call.distributable, settledLinks, p), call.i - 1) \in Nat
              /\ SumTo(PaymentsTo(call.distributable, settledLinks, p), call.i) =
                   SumTo(PaymentsTo(call.distributable, settledLinks, p), call.i - 1) +
                   (IF p = Recipient /\ Due > 0 THEN 1 ELSE 0)
              /\ SumTo(PaymentsTo(call.distributable, settledLinks, p), call.i - 1) \in Nat
<1> DEFINE D == call.distributable
           links == settledLinks
           n == call.i
<1>1. links \in Seq(Link) /\ D \in Nat /\ Len(links) \in Nat
  BY SettlingFrame
<1>2. n \in 1 .. Len(links) /\ Recipient = links[n].parent /\ Due = AllShares(D, links)[n]
  BY DueIsShare
<1>3. n - 1 \in 0 .. Len(links)
  BY <1>1, <1>2
<1> HIDE DEF D, links, n
<1>4. ASSUME NEW p \in Hash
      PROVE  /\ AllShares(D, links)[n] \in Nat
             /\ SharesTo(D, links, p)[n] = IF p = Recipient THEN Due ELSE 0
             /\ PaymentsTo(D, links, p)[n] = IF p = Recipient /\ Due > 0 THEN 1 ELSE 0
  <2>1. \A i \in 1 .. Len(links) :
          /\ AllShares(D, links)[i] \in Nat
          /\ SharesTo(D, links, p)[i] =
               IF links[i].parent = p THEN AllShares(D, links)[i] ELSE 0
          /\ PaymentsTo(D, links, p)[i] =
               IF links[i].parent = p /\ AllShares(D, links)[i] > 0 THEN 1 ELSE 0
    BY <1>1, ShareFacts
  <2>2. /\ AllShares(D, links)[n] \in Nat
        /\ SharesTo(D, links, p)[n] =
             IF links[n].parent = p THEN AllShares(D, links)[n] ELSE 0
        /\ PaymentsTo(D, links, p)[n] =
             IF links[n].parent = p /\ AllShares(D, links)[n] > 0 THEN 1 ELSE 0
    BY <2>1, <1>2
  <2> QED BY <2>2, <1>2
<1>5. ASSUME NEW p \in Hash
      PROVE  /\ SumTo(AllShares(D, links), n) =
                  SumTo(AllShares(D, links), n - 1) + AllShares(D, links)[n]
             /\ SumTo(AllShares(D, links), n - 1) \in Nat
             /\ SumTo(SharesTo(D, links, p), n) =
                  SumTo(SharesTo(D, links, p), n - 1) + SharesTo(D, links, p)[n]
             /\ SumTo(SharesTo(D, links, p), n - 1) \in Nat
             /\ SumTo(PaymentsTo(D, links, p), n) =
                  SumTo(PaymentsTo(D, links, p), n - 1) + PaymentsTo(D, links, p)[n]
             /\ SumTo(PaymentsTo(D, links, p), n - 1) \in Nat
  <2>1. /\ \A m \in 0 .. Len(links) :
              /\ SumTo(AllShares(D, links), m) \in Nat
              /\ SumTo(SharesTo(D, links, p), m) \in Nat
              /\ SumTo(PaymentsTo(D, links, p), m) \in Nat
        /\ \A m \in 1 .. Len(links) :
             /\ SumTo(AllShares(D, links), m) =
                  SumTo(AllShares(D, links), m - 1) + AllShares(D, links)[m]
             /\ SumTo(SharesTo(D, links, p), m) =
                  SumTo(SharesTo(D, links, p), m - 1) + SharesTo(D, links, p)[m]
             /\ SumTo(PaymentsTo(D, links, p), m) =
                  SumTo(PaymentsTo(D, links, p), m - 1) + PaymentsTo(D, links, p)[m]
    BY <1>1, ShareSums, ZenonT(30)
  <2> QED BY <2>1, <1>2, <1>3
<1>6. Recipient \in Hash
  BY SettlingFrame
<1> QED BY <1>2, <1>4, <1>5, <1>6 DEF D, links, n

\* Where a settlement stands after an action inside it.
LEMMA ProgressFrame ==
  ASSUME TypeOK, DagInv, EtherInv, SettleSkip \/ SettlePay \/ SettleLinkPaid
  PROVE  /\ call.op = "settle" /\ call'.op = "settle"
         /\ call'.saved = call.saved /\ call'.hash = call.hash
         /\ call'.distributable = call.distributable /\ settledLinks' = settledLinks
         /\ knowledgeBlocks' = knowledgeBlocks
         /\ LinksPaid' = call.i /\ LeftOver' = LeftOver
         /\ SettleSkip => call'.i = call.i + 1 /\ InControl' /\ call'.paid = call.paid
         /\ SettlePay => call'.i = call.i /\ ~ InControl' /\ call'.paid = call.paid + Due
         /\ SettleLinkPaid => call'.i = call.i + 1 /\ InControl' /\ call'.paid = call.paid
<1>1. /\ call.op = "settle" /\ call'.op = "settle"
      /\ call'.saved = call.saved /\ call'.hash = call.hash
      /\ call'.distributable = call.distributable /\ UNCHANGED published
  BY SettlingKeepsSaved
<1>2. settledLinks' = settledLinks /\ knowledgeBlocks' = knowledgeBlocks
  BY <1>1 DEF published, settledLinks
<1>3. LeftOver' = LeftOver
  BY <1>1, <1>2 DEF LeftOver
<1>4. call \in Frame /\ call.i \in Nat
  BY <1>1, SettlingFrame DEF TypeOK, CallOK
<1>5. ASSUME SettleSkip PROVE call'.i = call.i + 1 /\ InControl' /\ call'.paid = call.paid
  BY <1>4, <1>5 DEF SettleSkip, Frame, InControl
<1>6. ASSUME SettlePay PROVE call'.i = call.i /\ ~ InControl' /\ call'.paid = call.paid + Due
  <2> DEFINE to == knowledgeBlocks[Recipient].curator
  <2>1. call' = [call EXCEPT !.callee = to, !.paid = @ + Due] /\ Due > 0
    BY <1>6 DEF SettlePay
  <2>2. Recipient \in Hash BY <1>1, SettlingFrame
  <2>3. Registered(Recipient)
    <3>1. CASE AtCurator BY <1>1, <3>1 DEF Recipient, EtherInv
    <3>2. CASE ~ AtCurator BY <2>1, <3>2 DEF Due
    <3> QED BY <3>1, <3>2
  <2>4. to # Zero BY <2>2, <2>3, RegistryAssumption DEF DagInv, CuratorsKnown
  <2> HIDE DEF to
  <2> QED BY <1>4, <2>1, <2>4 DEF Frame, InControl
<1>7. ASSUME SettleLinkPaid PROVE call'.i = call.i + 1 /\ InControl' /\ call'.paid = call.paid
  BY <1>4, <1>7 DEF SettleLinkPaid, Frame, InControl
<1>8. LinksPaid' = call.i
  BY <1>4, <1>5, <1>6, <1>7 DEF LinksPaid
<1> QED BY <1>1, <1>2, <1>3, <1>5, <1>6, <1>7, <1>8

LEMMA ProgressSettleSkip ==
  ASSUME TypeOK, DagInv, EtherInv, ProgressInv, SettleSkip
  PROVE  ProgressInv'
<1>1. /\ call.op = "settle" /\ InControl /\ ~ AtCurator /\ Due = 0
      /\ UNCHANGED << royaltyPaid, reputation >>
  BY DEF SettleSkip
<1>2. /\ call'.op = "settle" /\ call'.saved = call.saved /\ call'.hash = call.hash
      /\ call'.distributable = call.distributable /\ settledLinks' = settledLinks
      /\ knowledgeBlocks' = knowledgeBlocks /\ LinksPaid' = call.i /\ LeftOver' = LeftOver
      /\ call'.i = call.i + 1 /\ InControl' /\ call'.paid = call.paid
  BY ProgressFrame
<1>3. call.i \in 1 .. Len(settledLinks) /\ Len(settledLinks) \in Nat
  BY <1>1, DueIsShare, SettlingFrame
<1>4. /\ SettledSoFar /\ PaidAfter(call.i - 1) /\ CountedAfter(call.i - 1)
  BY <1>1, <1>3 DEF ProgressInv, SettledSoFar, LinksPaid
<1>5. PaidAfter(LinksPaid)'
  <2>1. call.paid = SumTo(AllShares(call.distributable, settledLinks), call.i)
    BY <1>1, <1>4, DueSums DEF PaidAfter
  <2>2. ASSUME NEW p \in Hash
        PROVE  royaltyPaid[p] = call.saved.royaltyPaid[p] +
                 SumTo(SharesTo(call.distributable, settledLinks, p), call.i)
    <3>1. SumTo(SharesTo(call.distributable, settledLinks, p), call.i) =
          SumTo(SharesTo(call.distributable, settledLinks, p), call.i - 1)
      BY <1>1, DueSums
    <3> QED BY <1>4, <3>1 DEF PaidAfter
  <2> QED BY <1>1, <1>2, <2>1, <2>2 DEF PaidAfter
<1>6. CountedAfter(call.i - 1)'
  <2>1. call'.i - 1 = call.i BY <1>2, <1>3
  <2>2. ASSUME NEW p \in Hash
        PROVE  reputation[p].queryVolume = call.saved.reputation[p].queryVolume +
                 SumTo(PaymentsTo(call.distributable, settledLinks, p), call.i)
    <3>1. SumTo(PaymentsTo(call.distributable, settledLinks, p), call.i) =
          SumTo(PaymentsTo(call.distributable, settledLinks, p), call.i - 1)
      BY <1>1, DueSums
    <3> QED BY <1>4, <3>1 DEF CountedAfter
  <2> QED BY <1>1, <1>2, <2>1, <2>2 DEF CountedAfter
<1>7. SettledSoFar'
  BY <1>2, <1>3, <1>4, <1>5, <1>6 DEF SettledSoFar
<1> QED BY <1>2, <1>7 DEF ProgressInv

\* A link is paid, and counted when its curator returns.
LEMMA ProgressSettlePay ==
  ASSUME TypeOK, DagInv, EtherInv, ProgressInv, SettlePay
  PROVE  ProgressInv'
<1>1. /\ call.op = "settle" /\ InControl /\ Due > 0 /\ Due <= balance
      /\ royaltyPaid' = [royaltyPaid EXCEPT ![Recipient] = @ + Due]
      /\ reputation' = reputation
  BY DEF SettlePay
<1>2. /\ call'.op = "settle" /\ call'.saved = call.saved /\ call'.hash = call.hash
      /\ call'.distributable = call.distributable /\ settledLinks' = settledLinks
      /\ knowledgeBlocks' = knowledgeBlocks /\ LinksPaid' = call.i /\ LeftOver' = LeftOver
      /\ call'.i = call.i /\ ~ InControl' /\ call'.paid = call.paid + Due
  BY ProgressFrame
<1>3. /\ call.i \in 1 .. Len(settledLinks) + 1 /\ Len(settledLinks) \in Nat
      /\ Recipient \in Hash /\ Due \in Int /\ call.paid \in Nat /\ call.distributable \in Nat
  BY <1>1, SettlingFrame
<1>4. SettledSoFar /\ PaidAfter(call.i - 1) /\ CountedAfter(call.i - 1)
  BY <1>1, <1>3 DEF ProgressInv, SettledSoFar, LinksPaid
<1>5. ASSUME NEW p \in Hash
      PROVE  /\ royaltyPaid'[p] = royaltyPaid[p] + (IF p = Recipient THEN Due ELSE 0)
             /\ royaltyPaid[p] \in Nat /\ call.saved.royaltyPaid[p] \in Nat
  <2>1. royaltyPaid \in [Hash -> Nat] /\ call.saved.royaltyPaid \in [Hash -> Nat]
    BY <1>1, SettlingFrame DEF TypeOK, EtherOK, SavedState
  <2> QED BY <1>1, <1>3, <2>1
<1>6. CountedAfter(call.i - 1)'
  BY <1>1, <1>2, <1>4 DEF CountedAfter
<1>7. AtCurator' = AtCurator
  BY <1>2 DEF AtCurator
<1>8. CASE ~ AtCurator
  <2>1. call.i \in 1 .. Len(settledLinks) BY <1>1, <1>8, DueIsShare
  <2>2. PaidAfter(LinksPaid)'
    <3>1. call'.paid = SumTo(AllShares(call.distributable, settledLinks), call.i)
      BY <1>1, <1>2, <1>4, <1>8, DueSums DEF PaidAfter
    <3>2. ASSUME NEW p \in Hash
          PROVE  royaltyPaid'[p] = call.saved.royaltyPaid[p] +
                   SumTo(SharesTo(call.distributable, settledLinks, p), call.i)
      <4>1. /\ SumTo(SharesTo(call.distributable, settledLinks, p), call.i) =
                 SumTo(SharesTo(call.distributable, settledLinks, p), call.i - 1) +
                 (IF p = Recipient THEN Due ELSE 0)
            /\ SumTo(SharesTo(call.distributable, settledLinks, p), call.i - 1) \in Nat
        BY <1>1, <1>8, DueSums
      <4>2. royaltyPaid[p] = call.saved.royaltyPaid[p] +
              SumTo(SharesTo(call.distributable, settledLinks, p), call.i - 1)
        BY <1>4 DEF PaidAfter
      <4> PICK t \in Nat : t = SumTo(SharesTo(call.distributable, settledLinks, p), call.i - 1)
        BY <4>1
      <4>5. Due \in Nat
        BY <1>1, <1>8, DueSums
      <4> PICK d \in Nat : d = IF p = Recipient THEN Due ELSE 0
        BY <4>5
      <4>3. royaltyPaid'[p] = (call.saved.royaltyPaid[p] + t) + d
        BY <1>5, <4>2
      <4>4. SumTo(SharesTo(call.distributable, settledLinks, p), call.i) = t + d
        BY <4>1
      <4> HIDE DEF Due
      <4> QED BY <1>5, <4>3, <4>4
    <3> QED BY <1>2, <3>1, <3>2 DEF PaidAfter
  <2>3. (AllShares(call.distributable, settledLinks)[call.i] > 0)'
    BY <1>1, <1>2, <1>8, DueIsShare
  <2>4. SettledSoFar'
    BY <1>2, <1>4, <1>6, <2>1, <2>2, <2>3 DEF SettledSoFar
  <2> QED BY <1>2, <2>4 DEF ProgressInv
<1>9. CASE AtCurator
  <2>1. call.i = Len(settledLinks) + 1 /\ call.i - 1 = Len(settledLinks)
        /\ ~ (call.i <= Len(settledLinks)) /\ Recipient = call.hash
        /\ Due = call.distributable - call.paid
    BY <1>3, <1>9 DEF AtCurator, Recipient, Due
  <2>2. Due = LeftOver
    BY <1>4, <2>1 DEF PaidAfter, LeftOver
  <2>3. PaidAfterAll'
    <3>1. ASSUME NEW p \in Hash
          PROVE  royaltyPaid'[p] = call.saved.royaltyPaid[p] +
                   (SumTo(SharesTo(call.distributable, settledLinks, p), Len(settledLinks)) +
                    (IF p = call.hash THEN LeftOver ELSE 0))
      <4>1. royaltyPaid[p] = call.saved.royaltyPaid[p] +
              SumTo(SharesTo(call.distributable, settledLinks, p), Len(settledLinks))
        BY <1>4, <2>1 DEF PaidAfter
      <4>2. SumTo(SharesTo(call.distributable, settledLinks, p), Len(settledLinks)) \in Nat
        <5>1. \A n \in 0 .. Len(settledLinks) :
                SumTo(SharesTo(call.distributable, settledLinks, p), n) \in Nat
          BY <1>1, SettlingFrame, ShareSums
        <5> QED BY <1>3, <5>1
      <4> QED BY <1>3, <1>5, <2>1, <2>2, <4>1, <4>2
    <3>2. LeftOver >= 0 BY <1>1, <1>3, <2>2
    <3> QED BY <1>2, <3>1, <3>2 DEF PaidAfterAll
  <2>4. SettledSoFar'
    BY <1>2, <1>4, <1>6, <1>7, <1>9, <2>1, <2>3 DEF SettledSoFar
  <2> QED BY <1>2, <2>4 DEF ProgressInv
<1> QED BY <1>8, <1>9

LEMMA ProgressSettleLinkPaid ==
  ASSUME TypeOK, DagInv, EtherInv, ProgressInv, SettleLinkPaid
  PROVE  ProgressInv'
<1>1. /\ call.op = "settle" /\ ~ InControl /\ ~ AtCurator /\ royaltyPaid' = royaltyPaid
      /\ reputation' = [reputation EXCEPT ![Recipient].queryVolume = @ + 1]
  BY DEF SettleLinkPaid
<1>2. /\ call'.op = "settle" /\ call'.saved = call.saved /\ call'.hash = call.hash
      /\ call'.distributable = call.distributable /\ settledLinks' = settledLinks
      /\ knowledgeBlocks' = knowledgeBlocks /\ LinksPaid' = call.i /\ LeftOver' = LeftOver
      /\ call'.i = call.i + 1 /\ InControl' /\ call'.paid = call.paid
  BY ProgressFrame
<1>3. /\ call.i \in 1 .. Len(settledLinks) /\ Len(settledLinks) \in Nat /\ Recipient \in Hash
      /\ Due > 0
  BY <1>1, DueIsShare, SettlingFrame DEF ProgressInv, SettledSoFar
<1>4. SettledSoFar /\ PaidAfter(call.i) /\ CountedAfter(call.i - 1)
  BY <1>1, <1>3 DEF ProgressInv, SettledSoFar, LinksPaid
<1>5. PaidAfter(LinksPaid)'
  BY <1>1, <1>2, <1>4 DEF PaidAfter
<1>6. CountedAfter(call.i - 1)'
  <2>1. call'.i - 1 = call.i BY <1>2, <1>3
  <2>2. ASSUME NEW p \in Hash
        PROVE  reputation'[p].queryVolume = call.saved.reputation[p].queryVolume +
                 SumTo(PaymentsTo(call.distributable, settledLinks, p), call.i)
    <3>1. /\ reputation \in [Hash -> ReputationRecord]
          /\ call.saved.reputation \in [Hash -> ReputationRecord]
      BY <1>1, SettlingFrame DEF TypeOK, ReputationOK, SavedState
    <3>2. reputation'[p].queryVolume =
            reputation[p].queryVolume + (IF p = Recipient THEN 1 ELSE 0)
      <4> DEFINE r == [reputation[Recipient] EXCEPT !.queryVolume = @ + 1]
      <4>1. reputation[Recipient] \in ReputationRecord /\ reputation[p].queryVolume \in Nat
        BY <1>3, <3>1, RegistryAssumption DEF ReputationRecord
      <4>2. r.queryVolume = reputation[Recipient].queryVolume + 1
        BY <4>1 DEF ReputationRecord
      <4>3. reputation' = [reputation EXCEPT ![Recipient] = r]
        BY <1>1
      <4> HIDE DEF r
      <4>4. reputation'[p] = IF p = Recipient THEN r ELSE reputation[p]
        BY <1>3, <3>1, <4>3
      <4> QED BY <4>1, <4>2, <4>4
    <3>3. call.saved.reputation[p].queryVolume \in Nat
      BY <3>1, RegistryAssumption DEF ReputationRecord
    <3>4. /\ SumTo(PaymentsTo(call.distributable, settledLinks, p), call.i) =
               SumTo(PaymentsTo(call.distributable, settledLinks, p), call.i - 1) +
               (IF p = Recipient THEN 1 ELSE 0)
          /\ SumTo(PaymentsTo(call.distributable, settledLinks, p), call.i - 1) \in Nat
      BY <1>1, <1>3, DueSums
    <3> QED BY <1>4, <3>2, <3>3, <3>4 DEF CountedAfter
  <2> QED BY <1>2, <2>1, <2>2 DEF CountedAfter
<1>7. SettledSoFar'
  BY <1>2, <1>3, <1>4, <1>5, <1>6 DEF SettledSoFar
<1> QED BY <1>2, <1>7 DEF ProgressInv

LEMMA ProgressInit == Init => ProgressInv
BY DEF Init, Idle, ProgressInv

LEMMA ProgressStep ==
  ASSUME TypeOK, DagInv, EtherInv, ProgressInv, [Next]_vars
  PROVE  ProgressInv'
<1>1. CASE OneAction
  <2>1. CASE Publish
    <3>1. call'.op = "idle"
      BY <1>1, <2>1, OneActionKeepsCall DEF Publish, publishKB, NonReentrant
    <3> QED BY <3>1 DEF ProgressInv
  <2>2. CASE ~ Publish
    BY <1>1, <2>2, OneActionPaysNobody, OneActionKeepsCall, ProgressSame
  <2> QED BY <2>1, <2>2
<1>2. CASE Starts
  BY <1>2, ProgressSettleQuery, ProgressWithdraw DEF Starts
<1>3. CASE SettleSkip \/ SettlePay \/ SettleLinkPaid
  BY <1>3, ProgressSettleSkip, ProgressSettlePay, ProgressSettleLinkPaid
<1>4. CASE Ends \/ Revert
  <2>1. call'.op = "idle" BY <1>4, EndsCommit, RevertRestores
  <2> QED BY <2>1 DEF ProgressInv
<1>5. CASE Tick
  <2>1. call'.op = "idle" BY <1>5 DEF Tick, NonReentrant
  <2> QED BY <2>1 DEF ProgressInv
<1>6. CASE UNCHANGED vars
  BY <1>6, ProgressSame DEF vars
<1> QED BY <1>1, <1>2, <1>3, <1>4, <1>5, <1>6, NextCases DEF Settle, Ends

\* When a settlement ends, every link and the curator are paid and counted.
LEMMA SettledInFull ==
  ASSUME TypeOK, DagInv, EtherInv, ProgressInv, SettleFinish
  PROVE  PaidAfterAll /\ CountedAfter(Len(settledLinks)) /\ SettledSoFar
<1>1. /\ call.op = "settle" /\ AtCurator /\ (InControl => Due = 0)
  BY DEF SettleFinish
<1>2. /\ call.paid \in Nat /\ call.distributable \in Nat /\ Len(settledLinks) \in Nat
      /\ call.i = Len(settledLinks) + 1 /\ call.saved \in SavedState
  BY <1>1, SettlingFrame DEF AtCurator
<1>3. SettledSoFar /\ CountedAfter(Len(settledLinks))
  <2>1. call.i - 1 = Len(settledLinks) BY <1>2
  <2> QED BY <1>1, <2>1 DEF ProgressInv, SettledSoFar
<1>4. CASE InControl
  <2>1. PaidAfter(Len(settledLinks))
    <3>1. LinksPaid = Len(settledLinks) BY <1>2, <1>4 DEF LinksPaid
    <3> QED BY <1>2, <1>3, <3>1 DEF SettledSoFar
  <2>2. LeftOver = 0
    BY <1>1, <1>2, <1>4, <2>1 DEF PaidAfter, LeftOver, Due
  <2>3. ASSUME NEW p \in Hash
        PROVE  SumTo(SharesTo(call.distributable, settledLinks, p), Len(settledLinks)) \in Nat
    <3>1. \A n \in 0 .. Len(settledLinks) :
            SumTo(SharesTo(call.distributable, settledLinks, p), n) \in Nat
      BY <1>1, SettlingFrame, ShareSums
    <3> QED BY <1>2, <3>1
  <2> QED BY <1>3, <2>1, <2>2, <2>3 DEF PaidAfter, PaidAfterAll
<1>5. CASE ~ InControl
  <2>1. ~ (LinksPaid <= Len(settledLinks)) BY <1>2, <1>5 DEF LinksPaid
  <2> QED BY <1>3, <2>1 DEF SettledSoFar
<1> QED BY <1>3, <1>4, <1>5

-----------------------------------------------------------------------------
(* The refinement: every step of the registry is, in the committed state,  *)
(* a step of AtomicSettlement or none.                                     *)

LEMMA AtomicNames ==
  /\ Atomic!Hash = Hash
  /\ \A g, n : Atomic!SumTo(g, n) = SumTo(g, n)
BY DEF Atomic!Hash, Hash, Atomic!SumTo, SumTo

LEMMA AtomicInit == Init => Atomic!Init
<1> SUFFICES ASSUME Init PROVE Atomic!Init
  OBVIOUS
<1>1. Committed = Snapshot
  BY DEF Init, Idle, Committed
<1>2. \A h \in Hash : /\ ~ Registered(h) /\ ~ stakes[h].slashed
                      /\ reputation[h].queryVolume = 0
  BY DEF Init, Registered, Unpublished
<1>3. /\ Committed.protocolFeesBps \in 0 .. MaxFeeBps
      /\ Committed.stakes = stakes /\ Committed.reputation = reputation
      /\ Committed.royaltyPaid = [h \in Hash |-> 0]
  BY <1>1 DEF Init, Snapshot, InitialFeeBps, MaxFeeBps
<1> QED BY <1>2, <1>3, AtomicNames DEF Atomic!Init

\* What the settlement in progress brings, in the words of AtomicSettlement.
LEMMA AtomicTerms ==
  ASSUME TypeOK, call.op = "settle", SettledSoFar
  PROVE  /\ Atomic!Remainder(call.hash) = LeftOver
         /\ \A p \in Hash :
              /\ Atomic!Gain(call.hash, p) =
                   SumTo(SharesTo(call.distributable, settledLinks, p), Len(settledLinks)) +
                   (IF p = call.hash THEN LeftOver ELSE 0)
              /\ Atomic!Count(call.hash, p) =
                   SumTo(PaymentsTo(call.distributable, settledLinks, p), Len(settledLinks)) +
                   (IF p = call.hash THEN 1 ELSE 0)
<1>1. call.hash \in Hash /\ Committed = call.saved /\ settledLinks = attributionDAG[call.hash]
  BY SettlingFrame DEF Committed, settledLinks
<1>2. Atomic!Distributable(call.hash) = call.distributable
  BY <1>1 DEF SettledSoFar, Atomic!Distributable
<1>3. \A i : Atomic!Share(call.hash, i) = (call.distributable * settledLinks[i].bps) \div Bps
  BY <1>1, <1>2 DEF Atomic!Share
<1>4. [i \in DOMAIN settledLinks |-> Atomic!Share(call.hash, i)] =
      AllShares(call.distributable, settledLinks)
  BY <1>3 DEF AllShares
<1>5. Atomic!Remainder(call.hash) = LeftOver
  BY <1>1, <1>2, <1>4, AtomicNames DEF Atomic!Remainder, LeftOver
<1>6. ASSUME NEW p \in Hash
      PROVE  [i \in DOMAIN settledLinks |->
                IF settledLinks[i].parent = p THEN Atomic!Share(call.hash, i) ELSE 0] =
             SharesTo(call.distributable, settledLinks, p)
  BY <1>3 DEF SharesTo, AllShares
<1>7. ASSUME NEW p \in Hash
      PROVE  [i \in DOMAIN settledLinks |->
                IF settledLinks[i].parent = p /\ Atomic!Share(call.hash, i) > 0 THEN 1 ELSE 0] =
             PaymentsTo(call.distributable, settledLinks, p)
  BY <1>3 DEF PaymentsTo, AllShares
<1>8. ASSUME NEW p \in Hash
      PROVE  Atomic!Gain(call.hash, p) =
               SumTo(SharesTo(call.distributable, settledLinks, p), Len(settledLinks)) +
               (IF p = call.hash THEN LeftOver ELSE 0)
  BY <1>1, <1>5, <1>6, AtomicNames DEF Atomic!Gain
<1>9. ASSUME NEW p \in Hash
      PROVE  Atomic!Count(call.hash, p) =
               SumTo(PaymentsTo(call.distributable, settledLinks, p), Len(settledLinks)) +
               (IF p = call.hash THEN 1 ELSE 0)
  BY <1>1, <1>7, AtomicNames DEF Atomic!Count
<1> QED BY <1>5, <1>8, <1>9

\* The committed fee stays a rate, and a committed slashing stays.
LEMMA AtomicGoverned ==
  ASSUME StakeInv, [Next]_vars
  PROVE  Atomic!Governed
<1>1. ASSUME NEW h \in Hash, Committed.stakes[h].slashed PROVE Committed'.stakes[h].slashed
  BY <1>1, CommittedStakesMove DEF Lawful, Kept
<1>2. TypeOK'
  BY TypeStep DEF StakeInv
<1>3. Committed'.protocolFeesBps \in 0 .. MaxFeeBps
  <2>1. CASE call'.op = "idle"
    BY <1>2, <2>1 DEF Committed, Snapshot, TypeOK, SettingsOK
  <2>2. CASE call'.op # "idle"
    BY <1>2, <2>2 DEF Committed, TypeOK, CallOK, SavedState
  <2> QED BY <2>1, <2>2
<1> QED BY <1>1, <1>3 DEF Atomic!Governed

\* A step after which nothing is published, counted or paid.
LEMMA AtomicGovern ==
  ASSUME StakeInv, [Next]_vars, UNCHANGED published,
         \A h \in Hash : Committed'.reputation[h].queryVolume =
                         Committed.reputation[h].queryVolume,
         Committed'.royaltyPaid = Committed.royaltyPaid
  PROVE  Atomic!Govern
<1>1. Atomic!Governed
  BY AtomicGoverned
<1>2. knowledgeBlocks' = knowledgeBlocks /\ attributionDAG' = attributionDAG
  BY DEF published
<1> QED BY <1>1, <1>2 DEF Atomic!Govern, Registered

LEMMA AtomicPublish ==
  ASSUME TypeOK, FreshInv, Publish, Committed = Snapshot, Committed' = Snapshot'
  PROVE  \E h \in Hash : Atomic!Publish(h)
<1>1. PICK h \in Hash, curator \in Payee, t \in KBTypes, d \in Domains, fee \in QueryFees,
           links \in LinkLists, value \in Deposits : publishKB(h, curator, t, d, fee, links, value)
  BY DEF Publish
<1> DEFINE kb == [curator |-> curator, kbType |-> t, domain |-> d,
                  queryFee |-> fee, exists |-> TRUE]
           st == [amount |-> value, lockedUntil |-> timestamp + LockPeriod, slashed |-> FALSE]
           rep == [queryVolume |-> 0, positiveOutcomes |-> 0, endorsements |-> 0, score |-> 0]
<1>2. /\ ~ Registered(h)
      /\ \A i \in DOMAIN links : links[i].parent # h /\ Registered(links[i].parent)
      /\ knowledgeBlocks' = [knowledgeBlocks EXCEPT ![h] = kb]
      /\ attributionDAG' = [attributionDAG EXCEPT ![h] = links]
      /\ stakes' = [stakes EXCEPT ![h] = st]
      /\ reputation' = [reputation EXCEPT ![h] = rep]
      /\ protocolFeesBps' = protocolFeesBps /\ royaltyPaid' = royaltyPaid
  BY <1>1 DEF publishKB, ValidShares, settings
<1>3. /\ knowledgeBlocks \in [Hash -> KnowledgeBlock] /\ attributionDAG \in [Hash -> Seq(Link)]
      /\ stakes \in [Hash -> StakeRecord] /\ reputation \in [Hash -> ReputationRecord]
  BY DEF TypeOK, PublishedOK, StakesOK, ReputationOK
<1>4. kb.exists /\ ~ st.slashed /\ rep.queryVolume = 0
  OBVIOUS
<1>5. ~ stakes[h].slashed /\ reputation[h].queryVolume = 0
  BY <1>2 DEF FreshInv, Fresh, Snapshot
<1>6. links \in Seq(Link)
  BY RegistryAssumption
<1> HIDE DEF kb, st, rep
<1>7. ASSUME NEW k \in Hash
      PROVE  /\ Registered(k)' <=> (Registered(k) \/ k = h)
             /\ stakes'[k].slashed <=> stakes[k].slashed
             /\ reputation'[k].queryVolume = reputation[k].queryVolume
             /\ k # h => /\ attributionDAG'[k] = attributionDAG[k]
                         /\ knowledgeBlocks'[k] = knowledgeBlocks[k]
  <2>1. CASE k = h BY <1>2, <1>3, <1>4, <1>5, <2>1 DEF Registered
  <2>2. CASE k # h BY <1>2, <1>3, <2>2 DEF Registered
  <2> QED BY <2>1, <2>2
<1>8. attributionDAG'[h] = links
  BY <1>2, <1>3
<1>9. \A i \in DOMAIN links : links[i].parent \in Hash
  BY <1>6, LinkFields
<1>10. h \notin {k \in Hash : Registered(k)}
  BY <1>2
<1>11. {k \in Hash : Registered(k)}' = {k \in Hash : Registered(k)} \cup {h}
  BY <1>7
<1>12. /\ {k \in Hash : Committed.stakes[k].slashed}' = {k \in Hash : Committed.stakes[k].slashed}
       /\ [k \in Hash |-> Committed.reputation[k].queryVolume]' =
            [k \in Hash |-> Committed.reputation[k].queryVolume]
       /\ Committed'.protocolFeesBps = Committed.protocolFeesBps
       /\ Committed'.royaltyPaid = Committed.royaltyPaid
  BY <1>2, <1>7 DEF Snapshot
<1>13. \A k \in {k \in Hash : Registered(k)} :
         /\ attributionDAG'[k] = attributionDAG[k]
         /\ [j \in Hash |-> knowledgeBlocks'[j].queryFee][k] =
              [j \in Hash |-> knowledgeBlocks[j].queryFee][k]
  BY <1>2, <1>7
<1>14. \A i \in DOMAIN attributionDAG'[h] :
         attributionDAG'[h][i].parent \in {k \in Hash : Registered(k)}
  BY <1>2, <1>8, <1>9
<1>15. Atomic!Publish(h)
  BY <1>10, <1>11, <1>12, <1>13, <1>14 DEF Atomic!Publish
<1> QED BY <1>15

LEMMA AtomicSettle ==
  ASSUME StakeInv, ProgressInv, [Next]_vars, SettleFinish,
         Committed = call.saved, Committed' = Snapshot', NEW h \in Hash, h = call.hash
  PROVE  Atomic!Settle(h)
<1> DEFINE r == [reputation[call.hash] EXCEPT !.queryVolume = @ + 1]
<1>1. /\ call.op = "settle"
      /\ reputation' = [reputation EXCEPT ![call.hash] = RecomputeScore(r)]
      /\ UNCHANGED << published, royaltyPaid >>
  BY DEF SettleFinish
<1>2. /\ PaidAfterAll /\ CountedAfter(Len(settledLinks)) /\ SettledSoFar
      /\ TypeOK /\ EtherInv
  BY SettledInFull DEF StakeInv
<1>3. call.hash \in Hash /\ Registered(call.hash) /\ call.saved \in SavedState
  BY <1>1, <1>2, SettlingFrame DEF EtherInv
<1>4. /\ Atomic!Remainder(call.hash) = LeftOver
      /\ \A p \in Hash :
           /\ Atomic!Gain(call.hash, p) =
                SumTo(SharesTo(call.distributable, settledLinks, p), Len(settledLinks)) +
                (IF p = call.hash THEN LeftOver ELSE 0)
           /\ Atomic!Count(call.hash, p) =
                SumTo(PaymentsTo(call.distributable, settledLinks, p), Len(settledLinks)) +
                (IF p = call.hash THEN 1 ELSE 0)
  BY <1>1, <1>2, AtomicTerms
<1>5. ASSUME NEW p \in Hash
      PROVE  royaltyPaid'[p] = Committed.royaltyPaid[p] + Atomic!Gain(call.hash, p)
  BY <1>1, <1>2, <1>4 DEF PaidAfterAll
<1>6. ASSUME NEW p \in Hash
      PROVE  reputation'[p].queryVolume =
               Committed.reputation[p].queryVolume + Atomic!Count(call.hash, p)
  <2> DEFINE n == SumTo(PaymentsTo(call.distributable, settledLinks, p), Len(settledLinks))
             old == call.saved.reputation[p].queryVolume
  <2>1. /\ reputation \in [Hash -> ReputationRecord]
        /\ reputation[call.hash] \in ReputationRecord /\ old \in Nat
    <3>1. /\ reputation \in [Hash -> ReputationRecord]
          /\ call.saved.reputation \in [Hash -> ReputationRecord]
      BY <1>2, <1>3 DEF TypeOK, ReputationOK, SavedState
    <3>2. \A c \in ReputationRecord : c.queryVolume \in Nat
      BY RegistryAssumption DEF ReputationRecord
    <3> QED BY <1>3, <3>1, <3>2
  <2>2. RecomputeScore(r).queryVolume = reputation[call.hash].queryVolume + 1
    BY <2>1 DEF RecomputeScore, ReputationRecord
  <2>3. reputation'[p].queryVolume =
          reputation[p].queryVolume + (IF p = call.hash THEN 1 ELSE 0)
    <3> HIDE DEF r
    <3>1. reputation'[p] = IF p = call.hash THEN RecomputeScore(r) ELSE reputation[p]
      BY <1>1, <2>1
    <3>2. reputation[p].queryVolume \in Nat
      BY <2>1, RegistryAssumption DEF ReputationRecord
    <3> QED BY <2>2, <3>1, <3>2
  <2>4. reputation[p].queryVolume = old + n
    BY <1>2 DEF CountedAfter
  <2>5. n \in Nat
    <3>1. \A m \in 0 .. Len(settledLinks) :
            SumTo(PaymentsTo(call.distributable, settledLinks, p), m) \in Nat
      BY <1>1, <1>2, SettlingFrame, ShareSums
    <3>2. Len(settledLinks) \in 0 .. Len(settledLinks)
      BY <1>1, <1>2, SettlingFrame
    <3> QED BY <3>1, <3>2
  <2>6. Atomic!Count(call.hash, p) = n + (IF p = call.hash THEN 1 ELSE 0)
    BY <1>4
  <2> HIDE DEF n, old
  <2>7. reputation'[p].queryVolume = old + Atomic!Count(call.hash, p)
    BY <2>1, <2>3, <2>4, <2>5, <2>6
  <2> QED BY <2>7 DEF old
<1>7. /\ royaltyPaid' \in [Hash -> Nat]
      /\ Committed'.royaltyPaid = royaltyPaid' /\ Committed'.reputation = reputation'
  BY <1>1, <1>2 DEF TypeOK, EtherOK, Snapshot
<1>8. Atomic!Governed
  BY AtomicGoverned
<1>9. call.hash \in {k \in Hash : Registered(k)} \ {k \in Hash : Committed.stakes[k].slashed}
  BY <1>2, <1>3 DEF SettledSoFar
<1>10. Atomic!Remainder(call.hash) >= 0
  BY <1>2, <1>4 DEF PaidAfterAll
<1>11. [k \in Hash |-> Committed'.reputation[k].queryVolume] =
         [p \in Hash |-> [k \in Hash |-> Committed.reputation[k].queryVolume][p] +
                         Atomic!Count(call.hash, p)]
  BY <1>6, <1>7
<1>12. Committed'.royaltyPaid =
         [p \in Hash |-> Committed.royaltyPaid[p] + Atomic!Gain(call.hash, p)]
  BY <1>5, <1>7
<1>13. knowledgeBlocks' = knowledgeBlocks /\ attributionDAG' = attributionDAG
  BY <1>1 DEF published
<1> QED BY <1>3, <1>8, <1>9, <1>10, <1>11, <1>12, <1>13, AtomicNames
        DEF Atomic!Settle, Registered

LEMMA AtomicStep ==
  ASSUME StakeInv, ProgressInv, [Next]_vars
  PROVE  [Atomic!Next]_(Atomic!vars)
<1>0. TypeOK /\ FreshInv
  BY DEF StakeInv
<1>1. CASE Committed' = Committed /\ UNCHANGED published
  <2>1. knowledgeBlocks' = knowledgeBlocks /\ attributionDAG' = attributionDAG
    BY <1>1 DEF published
  <2>2. UNCHANGED Atomic!vars
    BY <1>1, <2>1 DEF Atomic!vars, Registered
  <2> QED BY <2>2
<1>2. CASE OneAction /\ Committed = Snapshot /\ Committed' = Snapshot'
  <2>1. CASE Publish
    BY <1>0, <1>2, <2>1, AtomicPublish, AtomicNames DEF Atomic!Next
  <2>2. CASE ~ Publish
    BY <1>0, <1>2, <2>2, OneActionPaysNobody, AtomicGovern DEF Snapshot, Atomic!Next
  <2> QED BY <2>1, <2>2
<1>3. CASE WithdrawDone /\ Committed = call.saved /\ Committed' = Snapshot'
  <2>1. /\ UNCHANGED << published, reputation, royaltyPaid >>
        /\ WithdrawnSoFar
    BY <1>3 DEF WithdrawDone, ProgressInv
  <2>2. /\ Committed'.royaltyPaid = Committed.royaltyPaid
        /\ \A h \in Hash : Committed'.reputation[h].queryVolume =
                           Committed.reputation[h].queryVolume
    BY <1>3, <2>1 DEF WithdrawnSoFar, Snapshot
  <2> QED BY <2>1, <2>2, AtomicGovern DEF Atomic!Next
<1>4. CASE SettleFinish /\ Committed = call.saved /\ Committed' = Snapshot'
  <2>1. PICK h \in Hash : h = call.hash
    BY <1>0, <1>4, SettlingFrame DEF SettleFinish
  <2>2. Atomic!Settle(h)
    BY <1>4, <2>1, AtomicSettle
  <2> QED BY <2>2, AtomicNames DEF Atomic!Next
<1> QED BY <1>0, <1>1, <1>2, <1>3, <1>4, CommittedMoves DEF Ends

\* settleQuery, seen through the committed state, settles a whole fee in one
\* step or not at all, whatever payees call back and wherever they fail.
THEOREM SettlementImplementsAtomic == Spec => SettlementIsAtomic
<1> DEFINE Inv == StakeInv /\ ProgressInv
<1>1. Init => Inv /\ Atomic!Init
  BY StakeInvariance, ProgressInit, AtomicInit
<1>2. Inv /\ [Next]_vars => Inv'
  BY StakeInvariance, ProgressStep DEF StakeInv
<1>3. Inv /\ [Next]_vars => [Atomic!Next]_(Atomic!vars)
  BY AtomicStep
<1> QED BY <1>1, <1>2, <1>3, PTL DEF Spec, SettlementIsAtomic, Atomic!Spec
=============================================================================
