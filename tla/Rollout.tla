------------------------------ MODULE Rollout ------------------------------
(***************************************************************************)
(* Putting the modular stack on a testnet: the script that deploys         *)
(* KnowledgeRegistry and patches the subgraph's manifest                   *)
(* (deploy-testnet.cjs), the script that registers the seed Knowledge      *)
(* Blocks (register-seeds-testnet.mjs), the subgraph that indexes them     *)
(* (subgraph/src/mapping.ts), and the operator who runs the scripts again  *)
(* until they succeed.                                                     *)
(*                                                                         *)
(* A script may stop at any point, and what it sent stays behind: its      *)
(* contract on chain, its transaction in the mempool.  AlexandrianRegistry,*)
(* which deploy-testnet.cjs deploys first, plays no part in this.          *)
(***************************************************************************)
EXTENDS Integers, Sequences, SequencesExt

CONSTANTS
  NumSeeds,      \* SEED_PATHS; the seeds' content hashes are 1 .. NumSeeds
  Sources,       \* the sources of each seed
  StrangerSeeds, \* the seeds that somebody else may register
  Deployer, Stranger, None,
  MaxRedeploys, MaxCrashes, MaxStrangers   \* bounds

Seed == 1 .. NumSeeds

ASSUME RolloutAssumption ==
  /\ NumSeeds \in Nat \ {0} /\ StrangerSeeds \subseteq Seed
  /\ DOMAIN Sources = Seed
  /\ \A s \in Seed : Sources[s] \in Seq(1 .. s - 1)   \* the order of SEED_PATHS
  /\ Deployer # Stranger /\ None \notin Nat
  /\ MaxRedeploys \in Nat /\ MaxCrashes \in Nat /\ MaxStrangers \in Nat

VARIABLES
  chain,      \* one transaction a block: deployments and KBRegistered events
  json,       \* the address in deployments/KnowledgeRegistry.json
  yaml,       \* address and startBlock in subgraph/subgraph.yaml
  dotenv,        \* KNOWLEDGE_REGISTRY_ADDRESS in .env
  deployment, \* the deploy script: [stage, contract]
  seeding,    \* the seed script: [stage, address, next]
  pending,    \* the deployer's transactions in the mempool, in nonce order
  seeded,     \* the address that the last complete run of the seed script used
  index,      \* the subgraph: [address, block, entities]
  crashes

rolloutVars == << chain, json, yaml, dotenv, deployment, seeding, pending, seeded, index, crashes >>

\* Addresses are block numbers: a contract is named by the block that deploys it.
Deployed(contract)   == [contract |-> contract, kb |-> None, curator |-> None, parents |-> << >>]
KBRegistered(contract, kb, curator, parents) ==
  [contract |-> contract, kb |-> kb, curator |-> curator, parents |-> parents]

isVerifiedOn(contract, kb) ==
  \E b \in DOMAIN chain : chain[b].contract = contract /\ chain[b].kb = kb

NumDeployments == Cardinality({b \in DOMAIN chain : chain[b].kb = None})

RolloutInit ==
  /\ chain = << >>
  /\ json = None /\ dotenv = None /\ seeded = None
  /\ yaml = [address |-> None, startBlock |-> 0]
  /\ deployment = [stage |-> "failed", contract |-> None]
  /\ seeding = [stage |-> "off", address |-> None, next |-> 1]
  /\ pending = << >>
  /\ index = [address |-> None, block |-> 0, entities |-> << >>]
  /\ crashes = 0

-----------------------------------------------------------------------------
(* deploy-testnet.cjs.  Every run deploys another contract.                  *)

\* One account sends everything: the deployment is mined after what is pending.
DeployRegistry ==
  /\ deployment.stage \in {"failed", "done"} /\ pending = << >>
  /\ NumDeployments <= MaxRedeploys + crashes
  /\ chain' = Append(chain, Deployed(Len(chain) + 1))
  /\ deployment' = [stage |-> "mined", contract |-> Len(chain) + 1]
  /\ UNCHANGED << json, yaml, dotenv, seeding, pending, seeded, index, crashes >>

writeDeployment ==
  /\ deployment.stage = "mined"
  /\ json' = deployment.contract
  /\ deployment' = [deployment EXCEPT !.stage = "written"]
  /\ UNCHANGED << chain, yaml, dotenv, seeding, pending, seeded, index, crashes >>

\* Mutant of PatchManifest.
PatchManifestLatest ==
  /\ deployment.stage = "written"
  /\ yaml' = [address |-> deployment.contract, startBlock |-> Len(chain)]
  /\ deployment' = [deployment EXCEPT !.stage = "done"]
  /\ UNCHANGED << chain, json, dotenv, seeding, pending, seeded, index, crashes >>

\* startBlock is the block of the deployment, not the latest one.
PatchManifest ==
  /\ deployment.stage = "written"
  /\ yaml' = [address |-> deployment.contract, startBlock |-> deployment.contract]
  /\ deployment' = [deployment EXCEPT !.stage = "done"]
  /\ UNCHANGED << chain, json, dotenv, seeding, pending, seeded, index, crashes >>

DeploymentCrashes ==
  /\ deployment.stage \in {"mined", "written"} /\ crashes < MaxCrashes
  /\ deployment' = [deployment EXCEPT !.stage = "failed"]
  /\ crashes' = crashes + 1
  /\ UNCHANGED << chain, json, yaml, dotenv, seeding, pending, seeded, index >>

\* The operator copies the printed address to .env, once or after each deployment.
SetEnvironment ==
  /\ deployment.stage = "done" /\ dotenv # deployment.contract
  /\ dotenv' = deployment.contract
  /\ UNCHANGED << chain, json, yaml, deployment, seeding, pending, seeded, index, crashes >>

-----------------------------------------------------------------------------
(* register-seeds-testnet.mjs                                                *)

RegistryAddress == IF dotenv # None THEN dotenv ELSE json

\* Mutant of StartSeeding.
ResumeSeeding ==
  /\ seeding.stage = "off" /\ RegistryAddress # None /\ seeded # json
  /\ seeding' = [seeding EXCEPT !.stage = "check", !.address = RegistryAddress]
  /\ UNCHANGED << chain, json, yaml, dotenv, deployment, pending, seeded, index, crashes >>

StartSeeding ==
  /\ seeding.stage = "off" /\ RegistryAddress # None /\ seeded # json
  /\ seeding' = [stage |-> "check", address |-> RegistryAddress, next |-> 1]
  /\ UNCHANGED << chain, json, yaml, dotenv, deployment, pending, seeded, index, crashes >>

\* The next seed, or the end of the run.
NextSeed ==
  IF seeding.next < NumSeeds
  THEN /\ seeding' = [seeding EXCEPT !.stage = "check", !.next = @ + 1]
       /\ UNCHANGED seeded
  ELSE /\ seeding' = [seeding EXCEPT !.stage = "off"]
       /\ seeded' = seeding.address

CheckSeed ==
  /\ seeding.stage = "check"
  /\ IF isVerifiedOn(seeding.address, seeding.next)
     THEN NextSeed
     ELSE seeding' = [seeding EXCEPT !.stage = "send"] /\ UNCHANGED seeded
  /\ UNCHANGED << chain, json, yaml, dotenv, deployment, pending, index, crashes >>

\* The gas estimate fails with "Already registered" if somebody was faster.
SendSeed ==
  /\ seeding.stage = "send"
  /\ IF isVerifiedOn(seeding.address, seeding.next)
     THEN NextSeed /\ UNCHANGED pending
     ELSE /\ pending' = Append(pending, [contract |-> seeding.address, kb |-> seeding.next,
                                         awaited |-> TRUE])
          /\ seeding' = [seeding EXCEPT !.stage = "wait"]
          /\ UNCHANGED seeded
  /\ UNCHANGED << chain, json, yaml, dotenv, deployment, index, crashes >>

\* registerKB; a transaction that reverts in its block makes wait() throw, and
\* the message does not say why.
MineSeed ==
  LET tx      == Head(pending)
      accepts == ~ isVerifiedOn(tx.contract, tx.kb)
  IN  /\ pending # << >>
      /\ pending' = Tail(pending)
      /\ chain' = IF accepts
                  THEN Append(chain, KBRegistered(tx.contract, tx.kb, Deployer, Sources[tx.kb]))
                  ELSE chain
      /\ IF ~ tx.awaited
         THEN UNCHANGED << seeding, seeded >>
         ELSE IF accepts THEN NextSeed
         ELSE seeding' = [seeding EXCEPT !.stage = "off"] /\ UNCHANGED seeded
      /\ UNCHANGED << json, yaml, dotenv, deployment, index, crashes >>

\* What the script has sent is still mined.
SeedingCrashes ==
  /\ seeding.stage # "off" /\ crashes < MaxCrashes
  /\ seeding' = [seeding EXCEPT !.stage = "off"]
  /\ pending' = [i \in DOMAIN pending |-> [pending[i] EXCEPT !.awaited = FALSE]]
  /\ crashes' = crashes + 1
  /\ UNCHANGED << chain, json, yaml, dotenv, deployment, seeded, index >>

\* Anybody may register a seed, and with other parents.
StrangerRegisters(contract, kb) ==
  /\ Cardinality({b \in DOMAIN chain : chain[b].curator = Stranger}) < MaxStrangers
  /\ contract \in DOMAIN chain /\ chain[contract].kb = None
  /\ ~ isVerifiedOn(contract, kb)
  /\ chain' = Append(chain, KBRegistered(contract, kb, Stranger, << >>))
  /\ UNCHANGED << json, yaml, dotenv, deployment, seeding, pending, seeded, index, crashes >>

-----------------------------------------------------------------------------
(* The subgraph.                                                             *)

\* subgraph-deploy.cjs: a new version starts from the manifest, with no entities.
DeploySubgraph ==
  /\ yaml.address # None /\ index.address # yaml.address
  /\ index' = [address |-> yaml.address, block |-> yaml.startBlock, entities |-> << >>]
  /\ UNCHANGED << chain, json, yaml, dotenv, deployment, seeding, pending, seeded, crashes >>

handleKBRegistered(event, entities) ==
  [kb \in DOMAIN entities \cup {event.kb} |->
     IF kb = event.kb
     THEN [curator |-> event.curator, parents |-> event.parents, blockNumber |-> index.block]
     ELSE entities[kb]]

IndexBlock ==
  /\ index.address # None /\ index.block <= Len(chain)
  /\ LET event == chain[index.block]
     IN  index' = [index EXCEPT
           !.block    = @ + 1,
           !.entities = IF event.contract = index.address /\ event.kb # None
                        THEN handleKBRegistered(event, @) ELSE @]
  /\ UNCHANGED << chain, json, yaml, dotenv, deployment, seeding, pending, seeded, crashes >>

-----------------------------------------------------------------------------
RolloutNext ==
  \/ DeployRegistry \/ writeDeployment \/ PatchManifest \/ DeploymentCrashes
  \/ SetEnvironment
  \/ StartSeeding \/ CheckSeed \/ SendSeed \/ MineSeed \/ SeedingCrashes
  \/ \E contract \in DOMAIN chain, kb \in StrangerSeeds : StrangerRegisters(contract, kb)
  \/ DeploySubgraph \/ IndexBlock

\* The operator runs a script again until it succeeds, and keeps an address that
\* is once in .env up to date.  A second deployment is never needed.
RolloutFairness ==
  /\ WF_rolloutVars(deployment.stage = "failed" /\ DeployRegistry)
  /\ WF_rolloutVars(writeDeployment) /\ WF_rolloutVars(PatchManifest)
  /\ WF_rolloutVars(dotenv # None /\ SetEnvironment)
  /\ WF_rolloutVars(StartSeeding) /\ WF_rolloutVars(CheckSeed) /\ WF_rolloutVars(SendSeed)
  /\ WF_rolloutVars(MineSeed)
  /\ WF_rolloutVars(DeploySubgraph) /\ WF_rolloutVars(IndexBlock)

RolloutSpec == RolloutInit /\ [][RolloutNext]_rolloutVars /\ RolloutFairness

-----------------------------------------------------------------------------
\* Although KnowledgeRegistry asks nothing of parents, the seeds that the script
\* registers follow their sources on the same contract, through crashed and
\* repeated runs and redeployments in the middle of one
\* (register-seeds-testnet.mjs:6, 86-108, 128-162).
SeedsFollowSources ==
  \A b \in DOMAIN chain : chain[b].curator = Deployer =>
    \A p \in Range(chain[b].parents) :
      \E a \in 1 .. b - 1 : chain[a].contract = chain[b].contract /\ chain[a].kb = p

\* A subgraph that has caught up holds exactly the Knowledge Blocks of its
\* contract, with curator, parents and block, however early somebody registered
\* one (deploy-testnet.cjs:72-87, mapping.ts:9-25).
IndexIsComplete ==
  index.address # None /\ index.block > Len(chain) =>
    /\ DOMAIN index.entities = {kb \in Seed : isVerifiedOn(index.address, kb)}
    /\ \A kb \in DOMAIN index.entities :
         LET entity == index.entities[kb]
         IN  chain[entity.blockNumber] =
             KBRegistered(index.address, kb, entity.curator, entity.parents)

\* In the end the subgraph serves all seeds, from the contract that the last
\* deployment wrote down (deploy-testnet.cjs:69-87, register-seeds-testnet.mjs:57-64,
\* 140-162).
RolloutCompletes ==
  <>[] /\ index.address = json
       /\ Seed \subseteq DOMAIN index.entities
=============================================================================
