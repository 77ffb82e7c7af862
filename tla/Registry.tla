------------------------------ MODULE Registry ------------------------------
(***************************************************************************)
(* AlexandrianRegistry (packages/protocol/contracts/Registry.sol): the     *)
(* Knowledge Block half of the contract -- publication, settlement of      *)
(* query fees through the attribution DAG, staking, slashing, reputation   *)
(* and treasury.                                                           *)
(*                                                                         *)
(* A transaction that sends no ether is one action.  A transaction that    *)
(* pays somebody hands control to the payee: settleQuery, withdrawStake    *)
(* and withdrawTreasury are therefore several actions, held together by    *)
(* `call', the frame of the transaction in progress.  While a payee that   *)
(* is a contract has control, contracts may call any entry point that is   *)
(* not nonReentrant.  A transaction that fails restores everything.        *)
(*                                                                         *)
(* Content hashes are the numbers 1 .. NumKB.                              *)
(***************************************************************************)
EXTENDS Integers, Sequences, Sums

CONSTANTS
  NumKB,         \* number of content hashes
  Account,       \* addresses that can send transactions
  Contract,      \* the accounts that are contracts, and so can call back
  Self,          \* the address of the registry itself
  Zero,          \* address(0)
  Owner,         \* the owner of the registry (Ownable)
  LinkLists,     \* the `parents' arguments that publishers use
  QueryFees,     \* the `queryFee' arguments that publishers use
  Deposits,      \* the amounts of ether that are sent along with a call
  KBTypes, Domains,
  FeeChoices, SlashChoices, MinStakeChoices,   \* arguments of the setters
  LockPeriod,    \* 30 days
  UInt16Max,     \* the largest uint16
  UInt32Max,     \* the largest uint32
  EtherSupply,   \* bound: the registry cannot hold more ether than exists
  MaxTime        \* bound on block.timestamp

Hash    == 1 .. NumKB          \* content hashes
Payee   == Account \cup {Self}
Bps     == 10000               \* the whole, in basis points
MaxFeeBps   == 1000            \* setProtocolFee accepts at most 10%
MaxSlashBps == 5000            \* setSlashRate accepts at most 50%
MaxScore    == 1000
InitialFeeBps   == 200
InitialSlashBps == 1000
Link    == [parent : Hash, bps : 0 .. UInt16Max]

ASSUME RegistryAssumption ==
  /\ NumKB \in Nat /\ LockPeriod \in Nat
  /\ UInt16Max \in Nat /\ UInt32Max \in Nat
  /\ EtherSupply \in Nat /\ MaxTime \in Nat
  /\ Contract \subseteq Account /\ Owner \in Account
  /\ Self \notin Account /\ Zero \notin Payee
  /\ LinkLists \subseteq Seq(Link)
  /\ QueryFees \subseteq Nat /\ Deposits \subseteq Nat
  /\ FeeChoices \subseteq Nat /\ SlashChoices \subseteq Nat
  /\ MinStakeChoices \subseteq Nat
  /\ KBTypes # {} /\ Domains # {}

VARIABLES
  knowledgeBlocks,   \* hash -> [curator, kbType, domain, queryFee, exists]
  attributionDAG,    \* hash -> sequence of links to parents
  derivedBlocks,     \* hash -> sequence of the hashes derived from it
  curatorBlocks, blocksByType, blocksByDomain,   \* indexes, append-only
  stakes,            \* hash -> [amount, lockedUntil, slashed]
  reputation,        \* hash -> counters and score
  protocolFeesBps, slashRateBps, minStakeAmount,
  treasuryBalance,
  balance,           \* address(this).balance
  royaltyPaid,       \* hash -> total of the RoyaltyPaid events emitted for it
  timestamp,         \* block.timestamp
  call               \* the transaction in progress

published == << knowledgeBlocks, attributionDAG, derivedBlocks, curatorBlocks,
                blocksByType, blocksByDomain >>
settings  == << protocolFeesBps, slashRateBps, minStakeAmount >>
vars      == << published, stakes, reputation, settings, treasuryBalance,
                balance, royaltyPaid, timestamp, call >>

-----------------------------------------------------------------------------
(* The frame of the transaction in progress.                               *)

Idle == [op |-> "idle", hash |-> 0, i |-> 0, callee |-> Zero,
         paid |-> 0, distributable |-> 0, saved |-> << >>]

\* What a revert restores: everything a nested call or a payment can change.
Snapshot ==
  [stakes |-> stakes, reputation |-> reputation,
   protocolFeesBps |-> protocolFeesBps, slashRateBps |-> slashRateBps,
   minStakeAmount |-> minStakeAmount, treasuryBalance |-> treasuryBalance,
   balance |-> balance, royaltyPaid |-> royaltyPaid]

\* nonReentrant: the guard is free only between transactions.
NonReentrant == call.op = "idle"

\* Who can be msg.sender now: anybody between transactions; during one, only
\* contracts, and only while a contract has control.
MayCall(a) ==
  /\ a \in Account
  /\ \/ call.op = "idle"
     \/ call.callee \in Contract /\ a \in Contract

InControl == call.callee = Zero

Registered(h) == knowledgeBlocks[h].exists

\* Mutant: receive() does not book the ether that the registry sends itself.
UnbookedTreasuryAfter(treasury, to, amount) == treasury

\* Ether sent to the registry itself comes back through receive().
BalanceAfter(to, amount)           == IF to = Self THEN balance ELSE balance - amount
TreasuryAfter(treasury, to, amount) == IF to = Self THEN treasury + amount ELSE treasury

-----------------------------------------------------------------------------
\* A mapping's default value: zero in every field.
Unpublished ==
  [curator |-> Zero, kbType |-> CHOOSE t \in KBTypes : TRUE,
   domain |-> CHOOSE d \in Domains : TRUE, queryFee |-> 0, exists |-> FALSE]

Init ==
  /\ knowledgeBlocks = [h \in Hash |-> Unpublished]
  /\ attributionDAG = [h \in Hash |-> << >>]
  /\ derivedBlocks = [h \in Hash |-> << >>]
  /\ curatorBlocks = [a \in Payee |-> << >>]
  /\ blocksByType = [t \in KBTypes |-> << >>]
  /\ blocksByDomain = [d \in Domains |-> << >>]
  /\ stakes = [h \in Hash |-> [amount |-> 0, lockedUntil |-> 0, slashed |-> FALSE]]
  /\ reputation = [h \in Hash |-> [queryVolume |-> 0, positiveOutcomes |-> 0,
                                   endorsements |-> 0, score |-> 0]]
  /\ protocolFeesBps = InitialFeeBps /\ slashRateBps = InitialSlashBps
  /\ minStakeAmount \in MinStakeChoices
  /\ treasuryBalance = 0 /\ balance = 0
  /\ royaltyPaid = [h \in Hash |-> 0]
  /\ timestamp = 0
  /\ call = Idle

-----------------------------------------------------------------------------
(* Publication.                                                            *)

\* The shares of the first n links together.
TotalBps(links, n) == SumTo([i \in DOMAIN links |-> links[i].bps], n)

\* Mutants: no check of the total, no check that parents are registered.
SharesOfAnySize(h, links) ==
  \A i \in DOMAIN links : links[i].parent # h /\ Registered(links[i].parent)
SharesOfAnyone(h, links) ==
  /\ \A i \in DOMAIN links : links[i].parent # h
  /\ TotalBps(links, Len(links)) <= Bps - protocolFeesBps

\* _validateAttributionShares
ValidShares(h, links) ==
  /\ \A i \in DOMAIN links : links[i].parent # h /\ Registered(links[i].parent)
  /\ TotalBps(links, Len(links)) <= Bps - protocolFeesBps

\* Mutant: a parent named twice is indexed once.
MentionedOnce(links, p) == IF \E i \in DOMAIN links : links[i].parent = p THEN 1 ELSE 0

\* How often h lists p as a parent; each mention appends to derivedBlocks[p].
Mentions(links, p) ==
  SumTo([i \in DOMAIN links |-> IF links[i].parent = p THEN 1 ELSE 0], Len(links))

publishKB(h, curator, kbType, domain, fee, links, value) ==
  /\ NonReentrant
  /\ ~ Registered(h)
  /\ value >= minStakeAmount
  /\ balance + value <= EtherSupply
  /\ ValidShares(h, links)
  /\ knowledgeBlocks' = [knowledgeBlocks EXCEPT
       ![h] = [curator |-> curator, kbType |-> kbType, domain |-> domain,
               queryFee |-> fee, exists |-> TRUE]]
  /\ attributionDAG' = [attributionDAG EXCEPT ![h] = links]
  /\ derivedBlocks' = [p \in Hash |-> derivedBlocks[p] \o
       [i \in 1 .. Mentions(links, p) |-> h]]
  /\ stakes' = [stakes EXCEPT ![h] =
       [amount |-> value, lockedUntil |-> timestamp + LockPeriod, slashed |-> FALSE]]
  /\ reputation' = [reputation EXCEPT ![h] =
       [queryVolume |-> 0, positiveOutcomes |-> 0, endorsements |-> 0, score |-> 0]]
  /\ curatorBlocks' = [curatorBlocks EXCEPT ![curator] = Append(@, h)]
  /\ blocksByType' = [blocksByType EXCEPT ![kbType] = Append(@, h)]
  /\ blocksByDomain' = [blocksByDomain EXCEPT ![domain] = Append(@, h)]
  /\ balance' = balance + value
  /\ UNCHANGED << settings, treasuryBalance, royaltyPaid, timestamp, call >>

-----------------------------------------------------------------------------
(* Reputation.                                                             *)

\* The score that _recomputeScore derives from the counters.
ScoreOf(r) ==
  LET queryWeight   == AtMost(500, 2 * r.queryVolume)
      outcomeWeight == IF r.queryVolume = 0 THEN 0
                       ELSE AtMost(400, (r.positiveOutcomes * 400) \div r.queryVolume)
      endorsementWeight == AtMost(100, 20 * r.endorsements)
  IN  AtMost(MaxScore, queryWeight + outcomeWeight + endorsementWeight)

\* queryVolume * 2 is computed in uint32, so it reverts above half the range.
CanRecompute(r)    == 2 * r.queryVolume <= UInt32Max
RecomputeScore(r)  == [r EXCEPT !.score = ScoreOf(r)]

recordPositiveOutcome(h) ==
  LET r == [reputation[h] EXCEPT !.positiveOutcomes = @ + 1]
  IN  /\ MayCall(Owner) /\ Registered(h)
      /\ r.positiveOutcomes <= UInt32Max /\ CanRecompute(r)
      /\ reputation' = [reputation EXCEPT ![h] = RecomputeScore(r)]
      /\ UNCHANGED << published, stakes, settings, treasuryBalance, balance,
                      royaltyPaid, timestamp, call >>

endorse(sender, h) ==
  LET r == [reputation[h] EXCEPT !.endorsements = @ + 1]
  IN  /\ MayCall(sender) /\ Registered(h)
      /\ knowledgeBlocks[h].curator # sender
      /\ curatorBlocks[sender] # << >>
      /\ r.endorsements <= UInt32Max /\ CanRecompute(r)
      /\ reputation' = [reputation EXCEPT ![h] = RecomputeScore(r)]
      /\ UNCHANGED << published, stakes, settings, treasuryBalance, balance,
                      royaltyPaid, timestamp, call >>

-----------------------------------------------------------------------------
(* Settlement.  Index i walks the links of the settled block; the position *)
(* after the last link stands for the payment to its own curator.          *)

settledLinks == attributionDAG[call.hash]
AtCurator    == call.i = Len(settledLinks) + 1
Recipient    == IF AtCurator THEN call.hash ELSE settledLinks[call.i].parent

\* Mutant: each share is taken from what the earlier ones left.
DueOfRest    == IF AtCurator THEN call.distributable - call.paid
                ELSE IF ~ Registered(Recipient) THEN 0
                ELSE ((call.distributable - call.paid) * settledLinks[call.i].bps) \div Bps

Due          == IF AtCurator THEN call.distributable - call.paid
                ELSE IF ~ Registered(Recipient) THEN 0
                ELSE (call.distributable * settledLinks[call.i].bps) \div Bps

\* settleQuery up to the loop: msg.value = kb.queryFee, protocol fee to treasury.
settleQuery(h) ==
  LET value       == knowledgeBlocks[h].queryFee
      protocolFee == (value * protocolFeesBps) \div Bps
  IN  /\ NonReentrant /\ Registered(h)
      /\ ~ stakes[h].slashed
      /\ balance + value <= EtherSupply
      /\ treasuryBalance' = treasuryBalance + protocolFee
      /\ balance' = balance + value
      /\ call' = [op |-> "settle", hash |-> h, i |-> 1, callee |-> Zero, paid |-> 0,
                  distributable |-> value - protocolFee, saved |-> Snapshot]
      /\ UNCHANGED << published, stakes, reputation, settings, royaltyPaid, timestamp >>

\* A link that yields nothing is passed over (`continue').
SettleSkip ==
  /\ call.op = "settle" /\ InControl
  /\ ~ AtCurator /\ Due = 0
  /\ call' = [call EXCEPT !.i = @ + 1]
  /\ UNCHANGED << published, stakes, reputation, settings, treasuryBalance,
                  balance, royaltyPaid, timestamp >>

\* recipient.call{value: Due}: the ether leaves and the payee takes control.
SettlePay ==
  LET to == knowledgeBlocks[Recipient].curator
  IN  /\ call.op = "settle" /\ InControl
      /\ Due > 0 /\ Due <= balance
      /\ call' = [call EXCEPT !.callee = to, !.paid = @ + Due]
      /\ balance' = BalanceAfter(to, Due)
      /\ treasuryBalance' = TreasuryAfter(treasuryBalance, to, Due)
      /\ royaltyPaid' = [royaltyPaid EXCEPT ![Recipient] = @ + Due]
      /\ UNCHANGED << published, stakes, reputation, settings, timestamp >>

\* Mutant: the parent's counter is not checked for overflow.
SettleLinkPaidUnchecked ==
  /\ call.op = "settle" /\ ~ InControl /\ ~ AtCurator
  /\ reputation' = [reputation EXCEPT ![Recipient].queryVolume = @ + 1]
  /\ call' = [call EXCEPT !.callee = Zero, !.i = @ + 1]
  /\ UNCHANGED << published, stakes, settings, treasuryBalance, balance,
                  royaltyPaid, timestamp >>

\* The parent's curator returned: the parent's volume grows, its score does not.
SettleLinkPaid ==
  /\ call.op = "settle" /\ ~ InControl /\ ~ AtCurator
  /\ reputation[Recipient].queryVolume < UInt32Max
  /\ reputation' = [reputation EXCEPT ![Recipient].queryVolume = @ + 1]
  /\ call' = [call EXCEPT !.callee = Zero, !.i = @ + 1]
  /\ UNCHANGED << published, stakes, settings, treasuryBalance, balance,
                  royaltyPaid, timestamp >>

\* Mutant: the score is recomputed before the query is counted.
SettleFinishStale ==
  LET r == [RecomputeScore(reputation[call.hash]) EXCEPT !.queryVolume = @ + 1]
  IN  /\ call.op = "settle" /\ AtCurator
      /\ InControl => Due = 0
      /\ r.queryVolume <= UInt32Max /\ CanRecompute(r)
      /\ reputation' = [reputation EXCEPT ![call.hash] = r]
      /\ call' = Idle
      /\ UNCHANGED << published, stakes, settings, treasuryBalance, balance,
                      royaltyPaid, timestamp >>

\* After the curator's payment, or at once if nothing is left for the curator.
SettleFinish ==
  LET r == [reputation[call.hash] EXCEPT !.queryVolume = @ + 1]
  IN  /\ call.op = "settle" /\ AtCurator
      /\ InControl => Due = 0
      /\ r.queryVolume <= UInt32Max /\ CanRecompute(r)
      /\ reputation' = [reputation EXCEPT ![call.hash] = RecomputeScore(r)]
      /\ call' = Idle
      /\ UNCHANGED << published, stakes, settings, treasuryBalance, balance,
                      royaltyPaid, timestamp >>

-----------------------------------------------------------------------------
(* Staking and slashing.                                                   *)

addStake(sender, h, value) ==
  /\ MayCall(sender) /\ Registered(h)
  /\ value > 0 /\ balance + value <= EtherSupply
  /\ knowledgeBlocks[h].curator = sender
  /\ stakes' = [stakes EXCEPT ![h].amount = @ + value,
                              ![h].lockedUntil = timestamp + LockPeriod]
  /\ balance' = balance + value
  /\ UNCHANGED << published, reputation, settings, treasuryBalance,
                  royaltyPaid, timestamp, call >>

\* What withdrawStake does to the state once its conditions hold.
TakeStake(sender, h) ==
  /\ stakes[h].amount > 0 /\ stakes[h].amount <= balance
  /\ stakes' = [stakes EXCEPT ![h].amount = 0]
  /\ balance' = balance - stakes[h].amount
  /\ call' = [Idle EXCEPT !.op = "withdraw", !.callee = sender, !.saved = Snapshot]
  /\ UNCHANGED << published, reputation, settings, treasuryBalance,
                  royaltyPaid, timestamp >>

IsCuratorOf(sender, h) ==
  NonReentrant /\ sender \in Account /\ Registered(h) /\ knowledgeBlocks[h].curator = sender

\* Mutants: the lock is not checked, the slashed flag is not checked.
withdrawLockedStake(sender, h) ==
  IsCuratorOf(sender, h) /\ ~ stakes[h].slashed /\ TakeStake(sender, h)
withdrawSlashedStake(sender, h) ==
  IsCuratorOf(sender, h) /\ timestamp >= stakes[h].lockedUntil /\ TakeStake(sender, h)

withdrawStake(sender, h) ==
  /\ IsCuratorOf(sender, h)
  /\ ~ stakes[h].slashed
  /\ timestamp >= stakes[h].lockedUntil
  /\ TakeStake(sender, h)

slash(h) ==
  LET slashAmount == (stakes[h].amount * slashRateBps) \div Bps
  IN  /\ MayCall(Owner) /\ Registered(h)
      /\ ~ stakes[h].slashed
      /\ stakes[h].amount > 0
      /\ stakes' = [stakes EXCEPT ![h].amount = @ - slashAmount, ![h].slashed = TRUE]
      /\ treasuryBalance' = treasuryBalance + slashAmount
      /\ UNCHANGED << published, reputation, settings, balance, royaltyPaid,
                      timestamp, call >>

-----------------------------------------------------------------------------
(* Administration and plain transfers.                                     *)

setProtocolFee(bps) ==
  /\ MayCall(Owner) /\ bps <= MaxFeeBps
  /\ protocolFeesBps' = bps
  /\ UNCHANGED << published, stakes, reputation, slashRateBps, minStakeAmount,
                  treasuryBalance, balance, royaltyPaid, timestamp, call >>

setSlashRate(bps) ==
  /\ MayCall(Owner) /\ bps <= MaxSlashBps
  /\ slashRateBps' = bps
  /\ UNCHANGED << published, stakes, reputation, protocolFeesBps, minStakeAmount,
                  treasuryBalance, balance, royaltyPaid, timestamp, call >>

setMinStake(amount) ==
  /\ MayCall(Owner)
  /\ minStakeAmount' = amount
  /\ UNCHANGED << published, stakes, reputation, protocolFeesBps, slashRateBps,
                  treasuryBalance, balance, royaltyPaid, timestamp, call >>

withdrawTreasury(to) ==
  /\ NonReentrant /\ treasuryBalance <= balance
  /\ balance' = BalanceAfter(to, treasuryBalance)
  /\ treasuryBalance' = TreasuryAfter(0, to, treasuryBalance)
  /\ call' = [Idle EXCEPT !.op = "withdraw", !.callee = to, !.saved = Snapshot]
  /\ UNCHANGED << published, stakes, reputation, settings, royaltyPaid, timestamp >>

receive(sender, value) ==
  /\ MayCall(sender)
  /\ value > 0 /\ balance + value <= EtherSupply
  /\ treasuryBalance' = treasuryBalance + value
  /\ balance' = balance + value
  /\ UNCHANGED << published, stakes, reputation, settings, royaltyPaid, timestamp, call >>

-----------------------------------------------------------------------------
(* The end of a transaction that pays, and the passage of time.            *)

\* The payee of a withdrawal returned.
WithdrawDone ==
  /\ call.op = "withdraw"
  /\ call' = Idle
  /\ UNCHANGED << published, stakes, reputation, settings, treasuryBalance,
                  balance, royaltyPaid, timestamp >>

\* A payee reverts, a counter overflows or the gas runs out: every require
\* after a payment, and the EVM, undo the whole transaction.
Revert ==
  /\ call.op # "idle"
  /\ stakes' = call.saved.stakes
  /\ reputation' = call.saved.reputation
  /\ protocolFeesBps' = call.saved.protocolFeesBps
  /\ slashRateBps' = call.saved.slashRateBps
  /\ minStakeAmount' = call.saved.minStakeAmount
  /\ treasuryBalance' = call.saved.treasuryBalance
  /\ balance' = call.saved.balance
  /\ royaltyPaid' = call.saved.royaltyPaid
  /\ call' = Idle
  /\ UNCHANGED << published, timestamp >>

Tick ==
  /\ NonReentrant /\ timestamp < MaxTime
  /\ timestamp' = timestamp + 1
  /\ UNCHANGED << published, stakes, reputation, settings, treasuryBalance,
                  balance, royaltyPaid, call >>

Publish ==
  \E h \in Hash, curator \in Payee, t \in KBTypes, d \in Domains, fee \in QueryFees,
     links \in LinkLists, value \in Deposits :
    publishKB(h, curator, t, d, fee, links, value)

Settle == SettleSkip \/ SettlePay \/ SettleLinkPaid \/ SettleFinish

Reputation ==
  \E h \in Hash : recordPositiveOutcome(h) \/ \E a \in Account : endorse(a, h)

Staking ==
  \E h \in Hash :
    \/ slash(h)
    \/ \E a \in Account : withdrawStake(a, h) \/ \E v \in Deposits : addStake(a, h, v)

Admin ==
  \/ \E b \in FeeChoices : setProtocolFee(b)
  \/ \E b \in SlashChoices : setSlashRate(b)
  \/ \E m \in MinStakeChoices : setMinStake(m)
  \/ \E a \in Payee : withdrawTreasury(a)

Next ==
  \/ Publish \/ Reputation \/ Staking \/ Admin
  \/ \E h \in Hash : settleQuery(h)
  \/ Settle
  \/ \E a \in Account, v \in Deposits : receive(a, v)
  \/ WithdrawDone \/ Revert \/ Tick

Spec == Init /\ [][Next]_vars

-----------------------------------------------------------------------------
(* Properties.                                                             *)

\* The state as the last finished transaction left it.
Committed == IF call.op = "idle" THEN Snapshot ELSE call.saved

\* Ether that a settlement has received and not yet paid out.
InFlight == IF call.op = "settle" THEN call.distributable - call.paid ELSE 0

TotalStaked(st) == SumTo([h \in Hash |-> st[h].amount], NumKB)

KnowledgeBlock == [curator : Payee \cup {Zero}, kbType : KBTypes, domain : Domains,
                   queryFee : Nat, exists : BOOLEAN]
StakeRecord    == [amount : Nat, lockedUntil : Nat, slashed : BOOLEAN]
ReputationRecord ==
  [queryVolume : 0 .. UInt32Max, positiveOutcomes : 0 .. UInt32Max,
   endorsements : 0 .. UInt32Max, score : 0 .. MaxScore]
SavedState ==
  [stakes : [Hash -> StakeRecord], reputation : [Hash -> ReputationRecord],
   protocolFeesBps : 0 .. MaxFeeBps, slashRateBps : 0 .. MaxSlashBps, minStakeAmount : Nat,
   treasuryBalance : Nat, balance : Nat, royaltyPaid : [Hash -> Nat]]

Frame ==
  [op : {"idle", "settle", "withdraw"}, hash : Hash \cup {0}, i : Nat,
   callee : Payee \cup {Zero}, paid : Nat, distributable : Nat,
   saved : SavedState \cup {<< >>}]

PublishedOK ==
  /\ knowledgeBlocks \in [Hash -> KnowledgeBlock]
  /\ attributionDAG \in [Hash -> Seq(Link)]
  /\ derivedBlocks \in [Hash -> Seq(Hash)]
  /\ curatorBlocks \in [Payee -> Seq(Hash)]
  /\ blocksByType \in [KBTypes -> Seq(Hash)]
  /\ blocksByDomain \in [Domains -> Seq(Hash)]

StakesOK     == stakes \in [Hash -> StakeRecord]
ReputationOK == reputation \in [Hash -> ReputationRecord]
EtherOK      == treasuryBalance \in Nat /\ balance \in Nat /\ royaltyPaid \in [Hash -> Nat]
SettingsOK   ==
  protocolFeesBps \in 0 .. MaxFeeBps /\ slashRateBps \in 0 .. MaxSlashBps /\ minStakeAmount \in Nat

CallOK ==
  /\ call \in Frame
  /\ call.op = "idle" => call = Idle
  /\ call.op # "idle" => call.saved \in SavedState
  /\ call.op = "settle" =>
       call.hash \in Hash /\ call.i \in 1 .. Len(attributionDAG[call.hash]) + 1

\* Every variable has its Solidity type, every counter and rate its range, and
\* a transaction in progress knows the state it would restore.
TypeOK ==
  PublishedOK /\ StakesOK /\ ReputationOK /\ EtherOK /\ SettingsOK /\ timestamp \in Nat /\ CallOK

\* The registry's ether is exactly what it owes: the treasury, every stake, and
\* the part of the fee in settlement that is not paid yet.  No sequence of
\* payments, slashings and callbacks creates a debt or strands ether
\* (settleQuery, addStake, withdrawStake, slash, withdrawTreasury, receive).
Solvent == balance = treasuryBalance + TotalStaked(stakes) + InFlight

\* Whenever settleQuery is about to pay, what is due is covered by what is left
\* of the fee and by the registry's ether: `distributable - parentTotal' never
\* underflows, although the parents' shares were validated at another fee, and
\* the curator's payment never draws on stakes or treasury (278-290).
PaymentsCovered ==
  call.op = "settle" /\ InControl =>
    0 <= Due /\ Due <= call.distributable - call.paid /\ Due <= balance

\* The attribution DAG is one: every set of registered Knowledge Blocks has a
\* member none of whose parents is in the set, so that following parents never
\* comes back (publishKB demands registered parents and a fresh hash, 199, 450).
ProvenanceAcyclic ==
  \A S \in SUBSET {h \in Hash : Registered(h)} :
    S # {} => \E h \in S : \A i \in DOMAIN attributionDAG[h] :
                attributionDAG[h][i].parent \notin S

Occurrences(s, x) == SumTo([i \in DOMAIN s |-> IF s[i] = x THEN 1 ELSE 0], Len(s))

\* The lookup indexes agree with the records: a registered Knowledge Block is
\* in exactly one place of the curator, type and domain indexes, an unregistered
\* one in none, and derivedBlocks inverts attributionDAG with multiplicity.
IndexesExact ==
  \A h \in Hash :
    LET kb == knowledgeBlocks[h]
        Listed(index, key) ==
          \A k \in DOMAIN index :
            Occurrences(index[k], h) = IF Registered(h) /\ k = key THEN 1 ELSE 0
    IN  /\ Listed(curatorBlocks, kb.curator)
        /\ Listed(blocksByType, kb.kbType)
        /\ Listed(blocksByDomain, kb.domain)
        /\ \A p \in Hash :
             Occurrences(derivedBlocks[p], h) =
             Occurrences([i \in DOMAIN attributionDAG[h] |-> attributionDAG[h][i].parent], p)

\* A stored score lags in one counter only: it is the formula applied to the
\* current outcomes and endorsements and to the current query volume, or to an
\* earlier one if some Knowledge Block derives from this one (285, 295-296).
ScoreLagsOnlyInVolume ==
  \A h \in Hash :
    \E v \in 0 .. reputation[h].queryVolume :
      /\ reputation[h].score = ScoreOf([reputation[h] EXCEPT !.queryVolume = v])
      /\ derivedBlocks[h] = << >> => v = reputation[h].queryVolume

\* From one finished transaction to the next, a slashed stake stays slashed and
\* never pays out: only the slashing itself takes from it, and once (316, 334).
SlashedStakeStays ==
  [][\A h \in Hash :
       Committed.stakes[h].slashed =>
         /\ Committed'.stakes[h].slashed
         /\ Committed'.stakes[h].amount >= Committed.stakes[h].amount]_vars

\* Stake leaves a Knowledge Block in two ways only: the curator takes all of it
\* when the lock of the last deposit is over, or the owner slashes at most half;
\* also when either is called from inside another transaction's payment.
StakeLeavesLawfully ==
  [][\A h \in Hash :
       Committed'.stakes[h].amount < Committed.stakes[h].amount =>
         \/ /\ timestamp >= Committed.stakes[h].lockedUntil
            /\ ~ Committed.stakes[h].slashed
            /\ call.op = "withdraw" /\ call.callee = knowledgeBlocks[h].curator
         \/ /\ Committed'.stakes[h].slashed /\ ~ Committed.stakes[h].slashed
            /\ 2 * Committed'.stakes[h].amount >= Committed.stakes[h].amount]_vars

\* The registry seen through its committed state.
Atomic == INSTANCE AtomicSettlement WITH
  published <- {h \in Hash : Registered(h)},
  parents   <- attributionDAG,
  price     <- [h \in Hash |-> knowledgeBlocks[h].queryFee],
  feeBps    <- Committed.protocolFeesBps,
  slashed   <- {h \in Hash : Committed.stakes[h].slashed},
  volume    <- [h \in Hash |-> Committed.reputation[h].queryVolume],
  earned    <- Committed.royaltyPaid

\* settleQuery implements the one-step settlement of AtomicSettlement, seen
\* through the committed state: callbacks during the payments, and failures in
\* the middle of them, leave no partial settlement behind (261-299).
SettlementIsAtomic == Atomic!Spec
=============================================================================
