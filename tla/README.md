# Verification of the Alexandrian Protocol in TLA+

The Alexandrian Protocol registers *Knowledge Blocks* (KBs: content hashes with
a curator, a query fee and a list of parents), and routes every query fee
through the attribution graph to the curators. This directory holds TLA+ modules
translated from the code, TLC configurations that check them on small
instances, and TLAPS proofs of the properties that matter most for every value
of the constants.

## 1. The system

| Component | State | Operations that change it | Interacts with |
|---|---|---|---|
| `contracts/Registry.sol`, KB half | KBs, attribution links, reverse and lookup indexes, stakes, reputation, rates, treasury, ether | `publishKB`, `settleQuery`, `addStake`, `withdrawStake`, `slash`, `recordPositiveOutcome`, `endorse`, four admin functions, `receive` | pays curators, which may be contracts and call back |
| `contracts/Registry.sol`, asset half | assets, provenance, licences | `registerAsset`, `updateLicense`, `deactivateAsset` | shares nothing with the KB half |
| `contracts/KnowledgeRegistry.sol` | KBs with parents, write-once | `registerKB` | read by StakeManager, RoyaltySettlement, the router, the subgraph |
| `contracts/StakeManager.sol` | a stake pool per curator, allocations per KB | `addStake`, `withdrawStake`, `allocateStake`, `deallocateStake`, `slash` | asks KnowledgeRegistry who curates |
| `contracts/RoyaltySettlement.sol` | default and per-KB split | `settleQuery`, `setRoyaltyRatio` | reads KnowledgeRegistry, pays curators |
| `contracts/AlexandriaRouter.sol` | three addresses | three setters | views over the stack |
| `contracts/Royalty.sol` | assets with weighted parents, balances | `registerAsset`, `distributePayment`, `withdraw` | -- |
| `contracts/Token.sol`, `KYAStaking.sol`, `XanderQuerySettlement.sol` | token balances, allowances, agent stakes | ERC-20, `stake`, `unstake`, two slashes, `settleQuery` | token is called by the other two; settlement reads Registry.sol |
| `contracts/AgentRegistry.sol`, `License.sol`, `EpochCommit.sol` | append-only or write-once records | `checkpoint`, `submitProof`, `issue`, `commitEpoch` | KYAStaking inherits AgentRegistry |
| `contracts/m2/*` | skeletons | `KBStaking` | not deployed by anything here |
| `protocol/src/core/virtualRegistry` | in-memory map of KBs | `registerEnvelope` (asynchronous), `reset` | used in place of a chain |
| `protocol/src/canonical.ts`, `schema` | none | canonical form, content hash, identifier of an envelope | VirtualRegistry, SDK |
| `protocol/src/core/invariants`, `license`, `fingerprint` | none | pure algorithms on graphs, licences, buffers | pipeline, SDK |
| `sdk/client/AlexandrianSDK.ts`, `sdk/bin/run.ts`, `sdk/commands` | one call at a time | compute royalty shares, send transactions, choose a KB for a query | Registry.sol, through a node |
| `pipeline` | none between calls | extraction, chunking, scoring, licence, identifiers | SDK's `publish` command |
| `protocol/scripts`, `scripts`, `subgraph` | deployment files, `.env`, mempool, index | deploy, seed, index | KnowledgeRegistry.sol |
| `api` | none | health endpoints, sums and hashes | -- |

**What is hard.** Solidity executes one transaction at a time, but a
transaction that pays a contract hands it control in the middle: settleQuery
pays every parent's curator in a loop, and only some entry points carry
`nonReentrant`. A payment may fail after others succeeded. Owner-set rates
change between the moment something is validated against them and the moment it
is used. Off chain, every call of the SDK is several awaits long, with other people's
transactions between them; calls of the sandbox overlap at an await; deployment
scripts stop anywhere and are run again while what they sent is still on its way.
Integer division rounds; `uint32` counters end. Stakes pass through
deposits, lock, slashing and withdrawal in any order, while stakes, treasury and
fees in flight are one pot of ether. The hazards are listed with their lines in
`PROJECT.json`.

**What makes each component correct.** Registry: it owes exactly what it holds;
a settlement is all or nothing; stake leaves only after its lock or through one
slashing; attribution is acyclic; indexes agree with records; scores follow the
published formula. Modular stack: allocations add up per curator; a settlement
spends its own fee only. `RoyaltyDAG`: it holds what it owes. Tokens: stakes are
backed by tokens. Sandbox: it accepts nothing that the contract would refuse.
SDK: a call fails for a cause the caller can name, and ends. Chunker: text is not
lost beyond fragments. Rollout: seeds follow their sources, and the subgraph
serves all of them in the end. Algorithms: they compute their definitions.

## 2. Plan

All of these are done:

1. `Sums`, `SumLemmas`, `Registry`, `AtomicSettlement`, `MCRegistry`, `RegistryProofs`
2. `KnowledgeRegistry`, `StakeManager` over it, `StakeManagerProofs`
3. `RoyaltySettlement` over `KnowledgeRegistry`, `RoyaltySettlementProofs`
4. `XanderToken`, `KYAStaking`, `XanderQuerySettlement` as one composition, and
   `XanderQuerySettlementProofs`
5. `Canonical`, `VirtualRegistry` over it and shown to implement `KnowledgeRegistry`
6. `SdkClient`: the SDK and the command line, over `Canonical` and the chain that
   `AtomicSettlement` describes
7. `Chunker`, `RoyaltyEstimate` and `Royalties` (the algorithms of `economic.ts`, and
   these against the contract), `Licenses`, `Pipeline`, and `PipelineProofs` about these and the chunker
8. `Rollout`: deployment, seeding, subgraph
9. `RoyaltyDAG` as a state machine, and `RoyaltyDAGProofs`, about `RoyaltyEstimate` too
10. `OffChainProofs`, about `VirtualRegistry`, `SdkClient` and `Rollout`

What stays with TLC is listed at the end of section 12, what is not modelled in
section 13.

## 3. The Knowledge Block registry

`Registry.tla` models the KB half of `Registry.sol` completely. Its variables are
the contract's mappings under their own names, plus `balance`
(`address(this).balance`), `royaltyPaid` (the `RoyaltyPaid` events added up),
`timestamp` and `call`.

A transaction that sends no ether is one action: `publishKB`, `addStake`,
`slash`, `recordPositiveOutcome`, `endorse`, the three setters, `receive`. A
transaction that pays somebody is several, because the payee takes control:

| Code | Actions |
|---|---|
| `settleQuery` 261-275 | `settleQuery`: checks, protocol fee to the treasury, loop entered |
| 277-279 `continue` | `SettleSkip` |
| 280-284, 288-290 `call{value}` | `SettlePay`: the ether leaves, `call.callee` is the payee |
| 285-286, payee returned | `SettleLinkPaid`: the parent's volume grows |
| 291-298 | `SettleFinish`: volume and score of the settled block |
| `withdrawStake`, `withdrawTreasury` | the action of that name, then `WithdrawDone` |
| any failed `require`, overflow, out of gas | `Revert`: everything back to `call.saved` |

`call` is the frame of the transaction in progress. Between transactions
(`call.op = "idle"`) anybody may call anything. While a payee has control,
contracts (`Contract`) may call what is not `nonReentrant`, and nothing else
happens (`MayCall`, `NonReentrant`). A nested call that fails changes nothing
and is no step. `UInt32Max` and `UInt16Max` are constants, so that the counters'
overflow can be reached.

**Abstractions.** Content hashes are numbers; free text, cids, trust tiers,
relationship tags, versions and display timestamps are dropped, and so are the
checks that they are not empty. The owner is fixed (`transferOwnership` is
OpenZeppelin's and only renames it). `querier` is only logged. Ether forced in by
`selfdestruct` and a withdrawal to `address(0)` are left out. Modelled from how the
code uses them: the EVM's all-or-nothing transactions, OpenZeppelin's
`ReentrancyGuard` and `Ownable`.

`AtomicSettlement.tla` says what the contract promises about fees without saying
how: one step pays every share and the remainder and counts every paid block, or
nothing happens. `Registry` implements it under a refinement mapping through
`Committed`, the state that the last finished transaction left: the partial
state inside a transaction is visible to callbacks, but never committed. The run
checks it and `SettlementImplementsAtomic` proves it (section 12).

### Runs

| Run | Instance and bounds | Properties |
|---|---|---|
| `registry_payments` | two kinds of instances, told apart by the constraint `PaymentsOrStakes`. `ByCallbacks`: 2 hashes of one contract that is curator and owner at once, fee 10, two deposits of 3, fee changes 2% -> 10%, counters that end at 2; deposits come before the first tick, payments after it. `ByStakes`: nothing is paid for; two deposits, a lock of one tick, two slash rates, two minimum stakes, time up to 2 | `TypeOK`, `Solvent`, `PaymentsCovered`, `SettlementIsAtomic`, `SlashedStakeStays`, `StakeLeavesLawfully` |
| `registry_graph` | 3 hashes, every list of at most two parents (repeated, unknown, self); while at most two are published, also queries, opinions bounded by `MaxOpinions`, counters that overflow | `ProvenanceAcyclic`, `IndexesExact`, `ScoreLagsOnlyInVolume` |

The bounds are large enough for the cases that matter: link lists that use the
whole distributable part, name a parent three times, round to zero, and exceed
the whole; a payee that calls back and then makes the payment fail; a counter at
its end; slashing before, between and after deposits and withdrawals. Three
hashes are enough for a cycle of length three and for a diamond with a repeated
edge.

Two disagreements between code and comment that show up in these models are not
runs of their own. Shares validated at one protocol fee exceed the distributable
part after the fee is raised (`Registry.sol:80` says they never do); settlement
still pays correctly, as `PaymentsCovered` shows, but the view `getShareSplit`
reverts. And a parent's stored score lags behind its counters (`ScoreLagsOnlyInVolume`
says by how much), so that it cannot be verified from them as the comment at
`Registry.sol:458` promises.

## 4. The modular stack

`KnowledgeRegistry.tla` is the write-once registry that the two others read.
`StakeManager.tla` extends it with one action per function. `withdrawStake` is one
action although it pays: all effects precede the payment and nothing is read
after it, so whatever the payee calls meanwhile has the effect of calling it
next. `RoyaltySettlement.tla` extends it with a frame like the one above, because
there `settleQuery` reads the registry between payments.

| Run | Instance and bounds | Properties |
|---|---|---|
| `stake_pools` | 2 curators, 3 hashes, amounts 1 and 2, 4 units of ether, penalties below and above a pool, lock of one tick | `AllocationsExact`, `StakedIsCovered`, `EtherLeavesFreed` |
| `royalty_split` | 3 hashes, parents repeated, unknown and self; a fee of 7 that does not divide; one contract and one plain account; 10 units of ether, so that leftovers of one settlement are there in the next | `SpendsOwnFee`, `EstimateHonoured` |
| `unpaid_parent` (violated) | a parent's curator that refuses ether | `AllParentsPaid` |

`SpendsOwnFee` and `EstimateHonoured` hold only while no parent is registered
during the payments: parents are counted once and asked again before each
payment. The condition is part of the properties (`NoParentAppeared`), and without
it both fail. `stake_pools` disables the deadlock check: the owner may forfeit all
the ether of the instance, and then only the bound on ether stops it. After a slash
a pool may hold less than it has allocated, whatever `IStakeManager.sol:15` says of
`allocated`; `StakedIsCovered` therefore speaks of unslashed curators only.
`unpaid_parent` is a finding: `IRoyaltySettlement.sol:18` promises that all ancestors
are paid, and a parent whose payment fails is passed over without a trace.

## 5. The token economy

`XanderToken.tla` models the ERC-20 (OpenZeppelin's functions as the contracts use
them) with `mint`, `burn` and `burnFrom`; `KYAStaking.tla` extends it with the pool;
`XanderQuerySettlement.tla` extends both with the settlement in tokens and composes
them. Tokens call nobody back, so every transaction is one action. Addresses are
numbered: agents first, then `Pool` and `Settler`, the addresses of the two
contracts. `Infinite` is the allowance that OpenZeppelin's `transferFrom` leaves
alone and `burnFrom` lowers. The registry is there as `blocks`, the prices and
curators that `getKnowledgeBlock` returns and nothing changes. `sender` records who
sent the last transaction; only `OnlyOwnTokens` reads it.

| Run | Instance and bounds | Properties |
|---|---|---|
| `token_economy` | 2 agents, one of them owner, treasury and first slasher; a ceiling of 50 units, a price of 50, whose protocol fee is 1; calls with 25 and 50; approvals of 50 and infinite, by each agent to one address at a time (`OneApproval`); slash caps of the whole, and one above it that is refused | `StakesBacked`, `SupplyUnderCeiling`, `OnlyOwnTokens` |

The bounds reach minting in two parts, burning at the ceiling, a payer who is the
curator or the treasury, allowances that a settlement uses up in two movements,
redistribution to the pool itself, and tokens sent to the pool by mistake.

## 6. Royalty graphs

`RoyaltyDAG.tla` models `contracts/Royalty.sol`. A payment is one transaction of
several steps: `distributePayment` starts it, `_distribute` makes one call of the
recursion, with the calls still to be made in `pending` (depth first, as the
recursion makes them), and `Commit` or `Revert` ends it. `Revert` may come at any
step, for gas is the sender's choice; it is the only way on when the subtraction or
the division would fail. Nobody is called during a payment, so nothing happens in
between. `withdraw` uses `transfer`, whose payee has no gas to call back.

What the contract does not check decides what is there to be shown. The creator is
written before the parents are looked up, so that an asset may name itself, and that
is the only loop (`OnlySelfLoops`); if it has no other parent and leaves its creator
less than the whole, no payment that reaches it ever commits
(`SelfParentTakesNoPayment`). `docs/INVARIANTS.md:18` says that on-chain validation
leaves no cycles in the royalty graph, which is too much by these loops. Under the zero
address an asset may be registered again and can have no descendants. A base royalty
above the whole, or shares that are all zero, make a payment revert. What an asset
without parents does not give its creator, and what an unregistered one is paid, stays
in the contract and is credited to nobody; the contract never owes more than it holds
(`Solvent`).

`RoyaltyEstimate.tla` models the off-chain estimate, `calculateDistribution` of
`economic.ts`, on any array of nodes: its state is the array, to which a node is added at
a time. The recursion of `traverse` is a loop over the calls that are still to be made,
as in `RoyaltyDAG`; `NumCalls` counts the first call and one for each link, more than
which cannot be made, for a node's parents are called at its first visit only.
`Royalties.tla` extends it with the search for cycles and paths and with the contract's
recursion, and compares all of these with reference definitions and with each other, on
every graph of the instance. It uses `RECURSIVE` operators as the code recurses, and is
for TLC only. Rates and shares are percents from 0 to 100, as the code means them; amounts
are rounded down where the code computes in floating point.
Off chain an asset is visited once, so that the estimate drops the second path of a
diamond, and percents below 100 are not scaled up; the contract pays both out:
`ContractPaysEstimate` is an inequality for that reason. `validateRoyaltyShares` and
`calculateTotalObligation` are called by nothing and left out.

| Run | Instance and bounds | Properties |
|---|---|---|
| `royalty_payments` | 3 assets (interchangeable: symmetry), one account and the zero address, no parent, one or two, with share zero too; base royalties of a third and above the whole; payments of 2 and 3 units, 5 units of ether, 6 calls of `_distribute` | `Solvent`, `OnlySelfLoops`, `SelfParentTakesNoPayment` |
| `royalty_graphs` | every graph of at most 3 assets with up to two parents each, loops, repeated and missing parents, shares above 100 percent; a payment of 3600, which divides evenly along all paths | `ValidationExact`, `EstimateWithinPayment`, `ContractPaysEstimate` |

Three assets make a chain, two parents, a loop with something below it, and the
cycles that the off-chain search has to find; six calls are enough for a loop to be
seen going round and for two parents with a parent each. The ether is spent in full:
`royalty_payments` disables the deadlock check because the accounts of the instance
may be unable to withdraw it. `royalty_graphs` ends when the array has all ids.

## 7. The sandbox

`Canonical.tla` says what an envelope is and what is hashed: `sources` sorted as
strings (a bare hash and one with `0x` sort differently, `Rank`), the old key
`parents` removed -- unless its value is undefined, on which `canonicalize` throws.
Sorting is any arrangement of the array by rank (`Arrangement`): equal names are the
same string, so that the result is the one that `sort` gives. SHA-256 is an oracle,
`digest`: a form that was never hashed gets any hash that no other form has. The identifier of an envelope keeps a stray `parents`, so that
envelopes with one content hash may have different cids; and one lineage written with
and without `0x` gives two content hashes.

`VirtualRegistry.tla` models the in-memory registry. `registerEnvelope` runs to its
only await as one action (`RegisterNew`, which writes the store, or `RegisterKnown`)
and answers in another (`AnswerCall`); calls overlap there, and `reset` may come
between. Rejected calls change nothing and are not steps; the exception is an
envelope whose `parents` is undefined, which throws after the store is written. The
depth-first search for cycles is `wouldCreateCycle` over the transitive closure.
`getAttributionDAG` divides 10000 points among the parents, more than the 9800 that
`Registry.sol` accepts at its default fee.

`StricterThanMainnet` is the refinement: with `blocks <- store`, every step on the
store is a `registerKB` of `KnowledgeRegistry`, or a reset.

| Run | Instance and bounds | Properties |
|---|---|---|
| `sandbox` | 3 hashes, 4 overlapping calls (symmetry, also of curators), one reset; hand-written envelopes with up to two sources in any order and spelling, repeated or incomplete ones, leftovers of the first schema, and envelopes that `buildDerivedEnvelope` made | `TypeOK`, `SourcesFirst`, `ExactlyOneNew`, `NoFalseCycle`, `StricterThanMainnet` |

Three hashes are what a cycle or a diamond needs; four calls let two calls of one
envelope overlap around a reset that two others surround.

## 8. The SDK client

`SdkClient.tla` models the methods of `AlexandrianSDK` and the commands `publish` and
`query` of the command line. Each client makes a call, and the call goes on in steps
with awaits between them: `publishDerived` and `publishCommand` estimate the gas
against the chain as it is (`Send`) and the transaction is checked again when it is
mined (`MinePublication`); `query` reads each candidate on its own (`ReadCandidate`),
then ranks and answers (`AnswerQuery`); `settleCitation` reads the fee, sends, and
waits (`ReadFee`, `SendSettlement`, `MineSettlement`). The chain is an instance of
`AtomicSettlement`, which `Registry` implements. Others publish roots on it, its owner
slashes and sets the fee and the minimum stake (`Govern`), and a curator that is a
contract begins or ceases to refuse ether (`ChangeMind`), between any two steps.

The registry's conditions are kept, and checked at the estimate and again in the block:
`Accepted` has those of `publishKB` -- hash, minimum stake, identifier and domain,
parents, shares -- and `Payable` those of `settleQuery` -- registration, slashing,
value, no payee that refuses, and no counter that would pass `uint32`, of a credited
parent, of the block, or in the score's `queryVolume * 2`. Whether the account can pay
is a choice of the estimate (`funded`). A payee that needs more gas than was estimated
is one that refuses. A client has a signer, the node answers, every transaction it
accepted is mined, and the block gas limit is not reached. So is left out an account
that is emptied between sending and mining, whose transaction waits instead of failing.

The two properties about failures list the causes, and `DerivedFailsForCause` says
which of them can appear after the estimate: somebody else published the block, or the
owner raised the minimum stake (the SDK passes `options.stake` unchecked) or the fee.
The shares of `publishDerived` are of 9800 points and rounded to the nearest, so that
they may exceed what the contract accepts by rounding alone. A missing weight counts as
one but not in the total, and an empty list gives each source 9800, so that a list
shorter than the sources asks for more than the whole. `SettleFailsForCause` shows that
the fee that was read is never the cause. A weight goes to the source at its index
after sorting, not to the one the caller wrote there (`SharesByWeight`).

The help text of `--parent` (`run.ts:71`) promises a "royalty split 50/50 if two
parents". At the default fee it is never made: the command line gives n parents
`floor(10000 / n)` points each, and the contract accepts 9800 together.
`CommandLineBlocked` proves that no publication from the command line succeeds while
the fee in points is at least the number of parents. There is no run for this: no
order of steps is needed to see it, and none avoids it. Without `--parent` the command
throws, and `query` without `--domain` answers null. Types of the second tier are
recorded as number 0, a practice, and cannot be read back as what they are; nor can a
block whose file declares one type and carries the payload of another, which the
command line does not compare (`AnswersAreEligible` leaves such blocks out). The tier
that `publishDerived` records is 0. A ranking by language model that comes back empty
makes the call fail.

| Run | Instance and bounds | Properties |
|---|---|---|
| `client` | 2 clients with one call each (a settlement may follow a query), 3 hashes, fees of 0, 200 and 300 points, a minimum stake of 1 that rises to 2 and stakes of both sizes, one curator that may refuse, counters that end at 3, weights whose shares round to 9801, a weight too few, unsorted sources, a call without a domain, a file whose type is not its payload's, two scores, two candidates | `DerivedFailsForCause`, `SettleFailsForCause`, `SharesByWeight`, `AnswersAreEligible`, `CallsEnd` |

The constraint `InOrder` hands out hashes in order: no bare hash begins with 0 in this
instance, so they are interchangeable, and only their order matters. It also asks that
the first form hashed is a root's, without which nothing can be derived. A derived
block needs two published sources and a third hash, and every race is between a client
and one other party, or two clients publishing one block. A counter of 3 is full after
one query, for twice two does not fit. `OneChange` lets one thing at a time differ
from what it was at first -- the fee, the minimum stake, or whether the payee refuses
-- so that each cause of failure is met by itself, at the estimate and in the block.
No step of a client's progress is cut off by either constraint, so that `CallsEnd`
means what it says.

## 9. The pipeline

`Chunker.tla` is the loop of `semanticChunk` as a state machine: it reads a text
sentence by sentence, closes paragraphs and sections, and pushes chunks. Sentences are
numbers with a length; every text is a behaviour. The minimum length makes the loop
lose text, and the overlap makes it repeat text: `LostOnlyInFragments` and
`RepeatsOnlyOverlap` say how much. The flush at the end of a section only repeats the
overlap; an overlap of none is `slice(-0)`, which keeps everything.

`LostOnlyInFragments` has two conditions. A target below the minimum cuts off
fragments one after the other, and text may be lost without bound. So may it be with
a ceiling near the target: each sentence that would pass the ceiling throws away the
one before it, which is too short to be pushed and too long to stay. With the minimum
and the target within the ceiling a sentence that causes such a cut reaches the target
by itself and is pushed at once; the processor, with a ceiling of twice the target and
the minimum of 20, is on this side for every target of at least 20 words
(`processor.ts:178-183`).

| Run | Instance and bounds | Properties |
|---|---|---|
| `chunks` | every text of up to 5 sentences of lengths 1, 3, 6 and 13 in every division into paragraphs and sections; targets 3 and 6 with twice as much as ceiling, overlaps 0 to 2, a minimum of 4 | `LostOnlyInFragments`, `RepeatsOnlyOverlap`, `CeilingPassedByOneSentence` |

Lengths are below the minimum, below and at the target, and above every ceiling; five
sentences make two cuts with an overlap of two. The run ends with the text, so the
deadlock check is off.

`Licenses.tla` and `Pipeline.tla` are operators, with theorems in `PipelineProofs.tla`,
and have no run. They show that a license fits the combination of several exactly if it fits each; that the
combination of commercial licences is never valid as it is returned; that the command
`publish` anchors a licence for commercial use without the payout that the validator
had asked for; that a set API key stops the pipeline unless `EMBEDDER` says `stub` or
`local`, since the constructors of the hosted embedders always throw; that every block
is of the declared type and scores between 24 and 100; that `verifyDataset` refuses
every dataset that `runPipeline` returned; and that the cid follows the clock while
the fingerprint does not. `publish` validates the graph of the parent nodes it
fetched and no others. What is read out of a chunk, how a text is cut, and JSON are
opaque operators there; failures of the local embedder's server are left out.

## 10. The rollout

`Rollout.tla` models `deploy-testnet.cjs`, `register-seeds-testnet.mjs`, the
subgraph's start block and handler, and the operator. The contract, the JSON file
with its address and the patched manifest are three steps, and the deployment may
stop between them (`DeploymentCrashes`); the seed script asks whether a seed is
registered (`CheckSeed`), sends (`SendSeed`) and waits (`MineSeed`), and what it sent
stays in the mempool when it stops (`SeedingCrashes`). A transaction that reverts in
its block, because a stranger was first, ends the run; the next run skips the seed.
Addresses in `.env` override the JSON file, so a stale one sends the seeds to the old
contract until the operator copies the new one.

| Run | Instance and bounds | Properties |
|---|---|---|
| `rollout` | 2 seeds, the second derived from the first; two crashes of either script, hence up to three deployments; a stranger who registers the first seed once | `SeedsFollowSources`, `IndexIsComplete`, `RolloutCompletes` |

Two crashes reach a deployment stopped between contract and file, another between file
and manifest, and a seeding stopped with a transaction pending and then overtaken. When
everything is indexed nothing is left to do, so the deadlock check is off. In the
repository's list all sources precede the seeds derived from them, as in the instance;
missing seed files, which the script skips, are not modelled.

## 11. Fairness

A contract acts only when somebody sends a transaction, and no code obliges anybody
to: the contracts' specifications have no fairness and no liveness property. Two
specifications have both.

`SdkClient`: weak fairness on the progress of each client's call, because ethers
returns every promise once the node answers, and the node mines every transaction
that it accepted. Nobody is obliged to make a call. `CallsEnd` says that every call
that was made ends, whatever the owner and others do meanwhile.

`Rollout`: weak fairness on each step of a script that runs, on mining and indexing;
and on the operator, who starts a failed script again, which `register-seeds` is
written for (it skips what is registered), and keeps an address in `.env` current
once there is one. A first address in `.env` and a second deployment after a
successful one are choices, without fairness. `RolloutCompletes` needs all of these.

## 12. Proofs

All theorems hold for every number of hashes, every set of accounts and contracts,
and every argument, under the named assumptions of the modules (`RegistryAssumption`,
`KnowledgeRegistryAssumption`, `StakeManagerAssumption`, `XanderTokenAssumption`,
`XanderQuerySettlementAssumption`, `CanonicalAssumption`, `VirtualRegistryAssumption`,
`RoyaltySettlementAssumption`, `RoyaltyDAGAssumption`, `RoyaltyEstimateAssumption`,
`ChunkerAssumption`, `SdkClientAssumption`, `RolloutAssumption`), which TLC evaluates in every run whose
module extends theirs. The last one says that each seed comes after its sources in
`SEED_PATHS`, as it does in the repository.

`SumLemmas.tla` proves what `SumTo` (the accumulating loops of the contracts) does:
its value steps term by term, changes with one term by that term's change, grows with
non-negative terms, and of two sequences put together is the sum of both (`SumConcat`);
rounded parts of an amount add up to at most the amount (`SumOfParts`), equal parts to
at most their number times the part (`SumAtMost`).

`RegistryProofs.tla` proves

- `TypeCorrect`: `Spec => []TypeOK`;
- `ProvenanceIsAcyclic`: `Spec => []ProvenanceAcyclic`;
- `RegistryIsSolvent`: `Spec => []Solvent`;
- `EveryPaymentIsCovered`: `Spec => []PaymentsCovered`;
- `SlashedStakesStay` and `StakesLeaveLawfully`: the two action properties of the stakes;
- `IndexesAreExact`: `Spec => []IndexesExact`;
- `ScoresLagOnlyInVolume`: `Spec => []ScoreLagsOnlyInVolume`;
- `SettlementImplementsAtomic`: `Spec => SettlementIsAtomic`, the refinement.

The inductive invariant has layers, each resting on those before it. `TypeOK`, in named parts, one of which
(`CallOK`) says that a frame knows a well-typed saved state. `DagInv`:
registered blocks have registered parents, shares within the whole and real
curators, and the graph is acyclic -- a new block is nobody's parent yet, so any
set that contains it and has a member without parents in the set still has one.
`EtherInv`: `Solvent`, nothing staked under an unregistered hash (publication
overwrites the stake record, and would lose such ether), the saved state
balances too (a revert restores it), and `PaidForLinks`: what a settlement has
paid is at most the sum of the rounded shares of the links it has passed.
Because the sum of the shares is at most the whole, and rounding only loses,
every later payment is covered, whatever the protocol fee has become.

The stakes, the refinement and every other statement about whole transactions go
through `Committed`, which moves in two ways only: with an action that pays nobody,
and when a withdrawal or a settlement ends. For the stakes this needs `FreshInv`
(nothing is set under an unregistered hash, whose publication would lose it) and
`StakesSinceSaved` (since the transaction started, no stake but the one that is
withdrawn was touched in a way that the properties forbid, although callbacks may
slash and deposit): the end of a transaction is then a lawful step from its start.
`IndexInv` is `IndexesExact` with what keeps it when a block is published: unregistered
hashes are in no list yet and have no parents. `ScoreInv` rests on it, for a score that is
not recomputed belongs to a credited parent, and a parent has derived blocks.
`ProgressInv` says, link by link, what a settlement in progress has added to the saved
state -- what each block was paid and its count of queries -- and that callbacks change
none of it; at the last link this is the one step of `AtomicSettlement`, and at a revert it is
none. The proof takes the refinement action by action.

`StakeManagerProofs.tla` proves `StakeTypeCorrect`, `BooksAgree`,
`StakedMeansCovered` and `OnlyFreedEtherLeaves` from the invariant `TypeOK /\
AllocationsExact /\ AnchorsOwn /\ PoolsCover`: the anchor of a block is the
registry's curator of it, which never changes, so one allocation moves one sum;
and an unslashed pool covers what is allocated from it.

`RoyaltySettlementProofs.tla` proves `RoyaltyTypeCorrect`, `SettlementsSpendOwnFee` and
`EstimatesAreHonoured` from `TypeOK /\ LineageKept /\ SplitInv`. What was registered when
the settlement started is what it was, because the registry is written once; and,
unless a parent appeared, the ether that left and what each account got are the sums,
up to the parent in turn, of the split under the ratios at the start. Ratios that a
payee sets do not matter, for the split was computed before the first payment. The
split is within the fee because the parts are the rest divided by their number, rounded
down, and as many are paid as were counted (`SumOfOnes`, `SumAtMost`).

`XanderQuerySettlementProofs.tla` proves `EconomyTypeCorrect`, `StakesAreBacked`,
`SupplyStaysUnderCeiling` and `OwnersKeepTheirTokens` from an invariant of two
parts. The token's: the balances add up to the supply, and the contracts'
addresses approve nobody (`ContractsApproveNobody`), so that what the pool holds
leaves only by the pool's own calls. The pool's: its books add up and are covered
by its balance. `OnlyFrom(a)` says of a step of `a` who may have less afterwards;
it gives both that the pool does not shrink under the token's functions and the
action property.

`OffChainProofs.tla` has three parts. The first, about the sandbox, proves
`SourcesAreFirst`, `OneNewPerBlock`, `SearchFindsNothing`,
`ImplementsKnowledgeRegistry` and `SandboxTypeCorrect`. The inductive invariant is
`SourcesFirst` with the type of the store (`StoreOK`), with what it is about that the
search looks for -- no two blocks descend from each other (`Acyclic`), kept because the
ancestors of stored blocks do not change when a block is added -- and with the books of
the calls: a call that added a block since the last reset added one that is stored
(`AddersOK`), and each has exactly one such call (`OneAdder`). That the digests stay
typed needs that every array of names can be sorted, which the proof shows by inserting
one name after another.

The second part is about the clients: `ClientTypeCorrect`, `WeightsGoByIndex`,
`QueriesAnswerEligibly`, `DerivationFailsForCause`, `SettlementFailsForCause` and
`CommandLineBlocked`. What a call read is old when it is used, so the invariant
`ClientInv` says for each call in progress what of that is still true: the links that
were sent are those of the arguments whose envelope was hashed (`PublicationOK`), the
texts and parents of a publication that passed the estimate stay in order, so that only
hash, stake and shares can make it fail in its block (`WellGiven`), a
candidate that passed still fits the intent and the tier, and was not slashed when the
query began (`QueryOK`), and the fee that was read is the fee (`SettlementOK`).
`RecordsOK` adds that the registry recorded the type of the envelope that was hashed.
`Keeps` collects what no step takes back -- publication, prices, records, slashing,
digests -- and one lemma (`CallKept`) then shows that a client is not disturbed by
anybody else's step. The rest is arithmetic: a rounded share is within half a point of
its weight's part, and the shares of as many weights as sources exceed 9800 by at most
half a point each.

The third part, about the rollout, proves `SourcesComeFirst` and `IndexCompleteness`
from `RolloutInv`: every address that is written down is that of a contract and the
manifest starts at its own block (`AddressesOK`); a pending registration has its sources
on its contract already, also one that a stopped script left behind (`PendingOK`); while
the script runs, all seeds before the one it is at are registered (`SeedingOK`), by
whomever; and the subgraph holds what its contract registered in the blocks it has read
(`IndexOK`). `GrowthKeeps` says what a longer chain keeps of all this.

`RoyaltyDAGProofs.tla` proves `RoyaltyTypeCorrect`, `RoyaltiesAreCovered`,
`LoopsAreSelfMade` and `LoopRefusesPayments`. `Solvent` counts what `pending` has still
to divide, and so survives every call of the recursion: the parts of a call are at
most its remainder (`PartsWithinRemaining`, from `SumOfParts`), and put in front of the
other pending calls they add up (`PromisedConcat`). A revert needs `BeforeSolvent`,
a start `Quiet`. `OnlySelfLoops` needs `ParentsRegistered`: a new asset is nobody's
parent but its own. The step property is that a loop's part of a payment of at least
one unit is again at least one unit.

The second part is about the off-chain estimate: `EstimatesStayWithin`, for every array of
nodes. `EstimateOK` says of the estimate after `n` calls that what was given and what the
calls in `todo` have still to divide are within the payment, and that the calls in `todo`,
the links of the assets not yet visited and `n` together are at most `NumCalls`. A visit
takes an asset's links from those that are left (`VisitTakesLinks`) and gives its parents
at most what remains, whether the shares were normalised or not (`ParentCallsOK`, again
from `SumOfParts`). So after `NumCalls` calls nothing is left to do, and the property is
about the complete estimate (`EstimateComplete`). Both recursions are lists of pending
calls, and not `RECURSIVE` operators as in `Royalties`, so that this can be proved.

`PipelineProofs.tla` proves the theorems of section 9 about licences and the pipeline,
which are about operators and need no invariant, and for `Chunker`
`ChunksLoseOnlyFragments`, `ChunksRepeatOnlyOverlap`, `ChunksRespectCeiling` and
`ChunkerTypeCorrect`, for every text and all options. Each has an invariant of the loop:
`SizeInv` and `RepeatInv` say of the gathered sentences what the properties say of
chunks; `LostInv` says that the gathered sentences are the last ones read and of this
section, that every long stretch (`Long`) has a sentence in a chunk or among the
gathered ones, and that a sentence of this section that is no longer gathered has one at
or after it in a chunk. A sentence is proved in three parts, the cut before it, the
sentence, and the cut after it (`Room`, `Full`, `Out`). The one case in which text is
lost on the way, a cut before the sentence that pushes nothing, is where the conditions
of the property are needed: the sentence then reaches the target by itself, the cut
after it pushes, and what was lost had too few words to matter (`ShortHasNoLong`).

Only model-checked: the two liveness properties, `CallsEnd` of `SdkClient` and
`RolloutCompletes` of `Rollout`, which rest on fairness; and `ValidationExact` and
`ContractPaysEstimate` of `Royalties`, whose operators are `RECURSIVE` because the
code recurses and which the provers cannot reason about. `TypeOK` of `StakeManager`,
`XanderQuerySettlement`, `RoyaltyDAG` and `RoyaltySettlement`, `ChunkerTypeOK` and
`ClientTypeOK` are proved and not among the properties of a run.

## 13. Not modelled

- The asset half of `Registry.sol`, `AlexandriaRouter`, `AgentRegistry`, `License`,
  `EpochCommit`: write-once or append-only records that nothing else reads, and
  addresses that the owner sets.
- `contracts/m2`, and the subgraph mapping that belongs to it: skeletons that nothing
  deploys; signature recovery is cryptography.
- Merkle trees and roots: hashes of sorted lists, against which nothing is verified.
- The API's services: health endpoints, and sums and hashes without state.
- Entity extraction, summaries, keywords, texts of errors and attributions: what they
  say is no property's subject.
- `addStake`, `withdrawStake` and `endorse` of the SDK, which send one transaction
  each; the commands that only print; the local deployment and the demonstrations.
- The interfaces of `schema/knowledgeBlock.ts`, which declare shapes that no code reads.
