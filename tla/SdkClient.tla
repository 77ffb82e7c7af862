----------------------------- MODULE SdkClient -----------------------------
(***************************************************************************)
(* Clients of the registry: AlexandrianSDK and the command line            *)
(* (packages/sdk/client/AlexandrianSDK.ts, bin/run.ts, commands).          *)
(*                                                                         *)
(* A method is several steps with awaits between them: what it read may    *)
(* be old when it uses it, and a transaction is checked once when its gas  *)
(* is estimated and again when it is mined.  The chain is the registry     *)
(* that AtomicSettlement describes and Registry implements; others publish *)
(* on it, its owner slashes and sets the fee and the minimum stake, and a  *)
(* curator that is a contract begins or ceases to refuse ether, at any     *)
(* time.  A client has a signer, and the node answers.                     *)
(***************************************************************************)
EXTENDS Canonical, Sums

CONSTANTS
  Bps, MaxFeeBps,   \* 10000, and what setProtocolFee accepts
  Client,           \* processes that use the SDK, one call each
  Inputs,           \* arguments of publishDerived
  Envelopes,        \* envelope files of the publish command
  ParentNames,      \* what --parent is given: sequences of names
  Intents,          \* arguments of query
  Scores,           \* scores that the registry may report
  Stakes,           \* what --stake is given
  Domainless,       \* the bodies whose domain is the empty text
  FeeLevels,        \* arguments of setProtocolFee
  FirstMinStake,    \* minStakeAmount of a new registry
  MinStakes,        \* arguments of setMinStake
  Refusers,         \* the blocks whose curator is a contract that may refuse ether
  UInt32Max,        \* the largest value of a counter
  Price,            \* the fee asked for a query
  MaxCandidates     \* query looks at 20 blocks at most

\* What publishDerived is given; weighted says whether weights are, cid whether
\* the identifier is more than the empty text.
DerivedInput ==
  [payload : Payload, body : Body, names : Seq(Name), weighted : BOOLEAN,
   weights : Seq(Nat), stake : Nat, cid : BOOLEAN]

\* A query by type, by domain, by both or by nothing; llm says whether the client
\* was built with a language model.
QueryIntent ==
  [byType : BOOLEAN, kbType : 0 .. 5, byDomain : BOOLEAN, minScore : Nat,
   minTrustTier : 0 .. 2, llm : BOOLEAN]

ASSUME SdkClientAssumption ==
  /\ Bps = 10000 /\ MaxFeeBps \in 0 .. Bps
  /\ FeeLevels \subseteq 0 .. MaxFeeBps
  /\ Envelopes \subseteq Envelope /\ ParentNames \subseteq Seq(Name)
  /\ Inputs \subseteq DerivedInput /\ Intents \subseteq QueryIntent
  /\ Stakes \subseteq Nat /\ Domainless \subseteq Body
  /\ FirstMinStake \in Nat /\ MinStakes \subseteq Nat
  /\ Refusers \subseteq Hash /\ UInt32Max \in Nat
  /\ Price \in Nat /\ MaxCandidates \in Nat

VARIABLES
  published, parents, price, feeBps, slashed, volume, earned,   \* the chain
  minStake,    \* minStakeAmount
  refusing,    \* the blocks whose curator refuses ether now
  recorded,    \* hash -> the type and the tier that were published
  op           \* client -> the call in progress, or its outcome

settledVars == << published, parents, price, feeBps, slashed, volume, earned >>
chainVars == << settledVars, minStake, refusing >>
clientVars == << chainVars, digest, recorded, op >>

Chain == INSTANCE AtomicSettlement

NoCall == [kind |-> "idle", at |-> "start"]
Ended == {"done", "failed"}

ClientInit ==
  /\ Chain!Init /\ feeBps = 200
  /\ parents = [h \in Hash |-> << >>] /\ price = [h \in Hash |-> 0]
  /\ minStake = FirstMinStake /\ refusing = {}
  /\ InitDigest
  /\ recorded = [h \in Hash |-> [kbType |-> 0, trustTier |-> 0]]
  /\ op = [c \in Client |-> NoCall]

(***************************************************************************)
(* Types: the SDK writes numbers and reads them back as names.             *)
(***************************************************************************)
KB_TYPE_NAMES ==
  << "practice", "feature", "stateMachine", "promptEngineering",
     "complianceChecklist", "rubric" >>

\* The types of the second tier have no number and are written as 0.
CANONICAL_TYPE_TO_U8(type) ==
  LET U8 == [practice |-> 0, feature |-> 1, stateMachine |-> 2,
             promptEngineering |-> 3, complianceChecklist |-> 4, rubric |-> 5]
  IN  IF type \in DOMAIN U8 THEN U8[type] ELSE 0

\* The command line builds a block of a known type first, else a practice; domain
\* says whether the domain is more than the empty text.
envelopeToMinimalBlock(env) ==
  [ type |-> IF \E i \in DOMAIN KB_TYPE_NAMES : KB_TYPE_NAMES[i] = env.type
               THEN env.type ELSE "practice",
    tier |-> 0, domain |-> env.body \notin Domainless ]
compiledToRegistryArgs(block) ==
  [kbType |-> CANONICAL_TYPE_TO_U8(block.type), trustTier |-> block.tier]

\* QueryResult.asStructured gives the payload of h, or throws.
asStructured(h) == digest[h].payload.type = KB_TYPE_NAMES[recorded[h].kbType + 1]

(***************************************************************************)
(* Shares of the parents                                                   *)
(***************************************************************************)
ClientBps == 9800    \* what publishDerived takes the distributable part to be

\* Math.round
Round(num, den) == (2 * num + den) \div (2 * den)

Weights(in, n) == IF in.weighted THEN in.weights ELSE [i \in 1 .. n |-> 1]
WeightAt(weights, i) == IF i \in DOMAIN weights THEN weights[i] ELSE 1
TotalWeight(weights) ==
  LET total == SumTo(weights, Len(weights)) IN IF total = 0 THEN 1 ELSE total

\* Mutant: the weights are taken from the end.
DerivedLinksReversed(in, sources) ==
  LET weights == Weights(in, Len(sources))
  IN  [i \in DOMAIN sources |->
         [ parent |-> sources[i].kb,
           bps    |-> Round(WeightAt(weights, Len(sources) + 1 - i) * ClientBps,
                            TotalWeight(weights)) ]]

\* The i-th weight goes to the i-th source of the envelope, which is sorted.
DerivedLinks(in, sources) ==
  LET weights == Weights(in, Len(sources))
  IN  [i \in DOMAIN sources |->
         [ parent |-> sources[i].kb,
           bps    |-> Round(WeightAt(weights, i) * ClientBps, TotalWeight(weights)) ]]

\* The command line divides the whole in equal parts.
CommandLineLinks(names) ==
  [i \in DOMAIN names |-> [parent |-> names[i].kb, bps |-> Bps \div Len(names)]]

TotalBps(links) == SumTo([i \in DOMAIN links |-> links[i].bps], Len(links))

(***************************************************************************)
(* Publication                                                             *)
(***************************************************************************)
\* Mutant: the shares must leave something to the curator.
AcceptedWithRest(call) ==
  /\ call.kb \notin published
  /\ call.stake >= minStake
  /\ call.texts
  /\ \A i \in DOMAIN call.links : call.links[i].parent \in published \ {call.kb}
  /\ TotalBps(call.links) < Bps - feeBps

\* What publishKB requires of a call; texts says that neither the identifier nor
\* the domain is empty.
Accepted(call) ==
  /\ call.kb \notin published
  /\ call.stake >= minStake
  /\ call.texts
  /\ \A i \in DOMAIN call.links : call.links[i].parent \in published \ {call.kb}
  /\ TotalBps(call.links) <= Bps - feeBps

PublishOnChain(h, links, record) ==
  /\ parents' = [parents EXCEPT ![h] = links]
  /\ price' = [price EXCEPT ![h] = Price]
  /\ Chain!Publish(h)
  /\ recorded' = [recorded EXCEPT ![h] = record]
  /\ UNCHANGED << minStake, refusing >>

Publication(kind, h, links, record, stake, texts) ==
  [ kind |-> kind, at |-> "sent", kb |-> h, links |-> links, record |-> record,
    stake |-> stake, texts |-> texts, funded |-> TRUE ]

\* Estimating the gas runs the transaction against the chain as it is; the account
\* may lack the stake or the gas.
Send(c, call) ==
  \E funded \in BOOLEAN :
    op' = [op EXCEPT ![c] =
      [call EXCEPT !.at = IF funded /\ Accepted(call) THEN "sent" ELSE "failed",
                   !.funded = funded]]

DerivedEnvelope(in) == buildDerivedEnvelope(in.payload, in.body, in.names, in.names)

publishDerived(c, in) ==
  LET env == DerivedEnvelope(in)
  IN  /\ op[c] = NoCall
      /\ \E h \in contentHashFromEnvelope(env) :
           /\ Remember(h, env)
           /\ Send(c, Publication("derive", h, DerivedLinks(in, env.sources),
                [kbType |-> CANONICAL_TYPE_TO_U8(env.payload.type), trustTier |-> 0],
                in.stake, in.cid /\ in.body \notin Domainless))
      /\ UNCHANGED << chainVars, recorded >>

publish(c, h, block, links, stake) ==
  Send(c, Publication("publish", h, links, compiledToRegistryArgs(block), stake,
                      block.domain))

publishRegistryCommand(c, env, links, stake) ==
  \E h \in contentHashFromEnvelope(env) :
    /\ Remember(h, env)
    /\ publish(c, h, envelopeToMinimalBlock(env), links, stake)

\* Without --parent the command throws before it does anything.
publishCommand(c, env, names, stake) ==
  /\ op[c] = NoCall
  /\ names # << >>
  /\ publishRegistryCommand(c, env, CommandLineLinks(names), stake)
  /\ UNCHANGED << chainVars, recorded >>

\* Mutant: a transaction that reverts is waited for without end.
MinePublicationAccepted(c) ==
  LET call == op[c]
  IN  /\ call.kind \in {"derive", "publish"} /\ call.at = "sent"
      /\ Accepted(call)
      /\ PublishOnChain(call.kb, call.links, call.record)
      /\ op' = [op EXCEPT ![c].at = "done"]
      /\ UNCHANGED digest

MinePublication(c) ==
  LET call == op[c]
  IN  /\ call.kind \in {"derive", "publish"} /\ call.at = "sent"
      /\ \/ /\ Accepted(call)
            /\ PublishOnChain(call.kb, call.links, call.record)
            /\ op' = [op EXCEPT ![c].at = "done"]
         \/ /\ ~ Accepted(call)
            /\ op' = [op EXCEPT ![c].at = "failed"]
            /\ UNCHANGED << chainVars, recorded >>
      /\ UNCHANGED digest

(***************************************************************************)
(* Query                                                                   *)
(***************************************************************************)
Matching(intent) ==
  CASE intent.byType -> {h \in published : recorded[h].kbType = intent.kbType}
    [] ~ intent.byType /\ intent.byDomain -> published
    [] ~ intent.byType /\ ~ intent.byDomain -> {}

\* The first candidates only; the chain that is modelled keeps no order of them.
Candidates(intent) ==
  {C \in SUBSET Matching(intent) :
     Cardinality(C) = AtMost(Cardinality(Matching(intent)), MaxCandidates)}

query(c, intent) ==
  /\ op[c] = NoCall
  /\ \E C \in Candidates(intent) :
       op' = [op EXCEPT ![c] =
         [ kind |-> "query", at |-> IF C = {} THEN "done" ELSE "reading",
           intent |-> intent, unread |-> C, valid |-> {}, answer |-> 0,
           since |-> slashed ]]
  /\ UNCHANGED << chainVars, digest, recorded >>

\* The command line asks by domain or, without --domain, for nothing at all.
queryCommand(c, byDomain) ==
  query(c, [ byType |-> FALSE, kbType |-> 0, byDomain |-> byDomain, minScore |-> 0,
             minTrustTier |-> 2, llm |-> FALSE ])

\* Mutant: whether the block is slashed is not looked at.
EligibleSlashed(intent, h, score) ==
  score >= intent.minScore /\ recorded[h].trustTier <= intent.minTrustTier

Eligible(intent, h, score) ==
  /\ h \notin slashed
  /\ score >= intent.minScore
  /\ recorded[h].trustTier <= intent.minTrustTier

\* The three reads of a candidate; if one fails, the candidate is left out.
ReadCandidate(c) ==
  LET call == op[c]
  IN  /\ call.kind = "query" /\ call.at = "reading"
      /\ \E h \in call.unread, score \in Scores, answers \in BOOLEAN :
           op' = [op EXCEPT ![c] =
             [call EXCEPT !.unread = @ \ {h},
                          !.valid = IF answers /\ Eligible(call.intent, h, score)
                                      THEN @ \cup {[kb |-> h, score |-> score]}
                                      ELSE @]]
      /\ UNCHANGED << chainVars, digest, recorded >>

\* What the language model ranks first: any candidate, for indices out of range
\* are dropped, and an answer that is no list leaves the order as it is.
semanticRank(valid) == valid
byScore(valid) == {v \in valid : \A w \in valid : w.score <= v.score}

AnswerQuery(c) ==
  LET call   == op[c]
      ranked == call.intent.llm /\ Cardinality(call.valid) > 1
  IN  /\ call.kind = "query" /\ call.at = "reading" /\ call.unread = {}
      /\ \/ /\ call.valid = {}
            /\ op' = [op EXCEPT ![c].at = "done"]
         \/ \E v \in IF ranked THEN semanticRank(call.valid) ELSE byScore(call.valid) :
              op' = [op EXCEPT ![c].at = "done", ![c].answer = v.kb]
         \/ /\ ranked      \* the model fails, or ranks none: ranked[0] is missing
            /\ op' = [op EXCEPT ![c].at = "failed"]
      /\ UNCHANGED << chainVars, digest, recorded >>

(***************************************************************************)
(* Settlement                                                              *)
(***************************************************************************)
Settling(h, at, value) ==
  [kind |-> "settle", at |-> at, kb |-> h, value |-> value, funded |-> TRUE]

\* settleCitation of any hash, or of what a query answered.
settleCitation(c, h) ==
  /\ \/ op[c] = NoCall
     \/ op[c].kind = "query" /\ op[c].at = "done" /\ op[c].answer = h
  /\ op' = [op EXCEPT ![c] = Settling(h, "quoting", 0)]
  /\ UNCHANGED << chainVars, digest, recorded >>

\* Mutant: the client sends what is left when the protocol has its part.
ReadFeeNet(c) ==
  LET h == op[c].kb
  IN  /\ op[c].kind = "settle" /\ op[c].at = "quoting"
      /\ op' = [op EXCEPT ![c] =
                 IF h \in published
                   THEN Settling(h, "quoted", price[h] - (price[h] * feeBps) \div Bps)
                   ELSE Settling(h, "failed", 0)]
      /\ UNCHANGED << chainVars, digest, recorded >>

\* getKnowledgeBlock reverts for a hash that is not registered.
ReadFee(c) ==
  LET h == op[c].kb
  IN  /\ op[c].kind = "settle" /\ op[c].at = "quoting"
      /\ op' = [op EXCEPT ![c] =
                 IF h \in published THEN Settling(h, "quoted", price[h])
                                    ELSE Settling(h, "failed", 0)]
      /\ UNCHANGED << chainVars, digest, recorded >>

\* The curators that a settlement of h sends ether to.
Payees(h) ==
  {parents[h][i].parent : i \in {j \in DOMAIN parents[h] : Chain!Share(h, j) > 0}}
    \cup (IF Chain!Remainder(h) > 0 THEN {h} ELSE {})

\* No counter passes uint32, nor does twice the counter of h, for its score.
Countable(h) ==
  /\ \A p \in Hash : volume[p] + Chain!Count(h, p) <= UInt32Max
  /\ 2 * (volume[h] + Chain!Count(h, h)) <= UInt32Max

\* settleQuery succeeds; a payee that runs out of the gas that was estimated is
\* one that refuses.
Payable(h, value) ==
  /\ h \in published \ slashed
  /\ value = price[h]
  /\ Payees(h) \cap refusing = {}
  /\ Countable(h)

SendSettlement(c) ==
  /\ op[c].kind = "settle" /\ op[c].at = "quoted"
  /\ \E funded \in BOOLEAN :
       op' = [op EXCEPT
         ![c].at = IF funded /\ Payable(op[c].kb, op[c].value) THEN "sent" ELSE "failed",
         ![c].funded = funded]
  /\ UNCHANGED << chainVars, digest, recorded >>

MineSettlement(c) ==
  /\ op[c].kind = "settle" /\ op[c].at = "sent"
  /\ \/ /\ Payable(op[c].kb, op[c].value)
        /\ UNCHANGED << slashed, feeBps, minStake, refusing >>
        /\ Chain!Settle(op[c].kb)
        /\ op' = [op EXCEPT ![c].at = "done"]
     \/ /\ ~ Payable(op[c].kb, op[c].value)
        /\ op' = [op EXCEPT ![c].at = "failed"]
        /\ UNCHANGED chainVars
  /\ UNCHANGED << digest, recorded >>

(***************************************************************************)
(* Everybody else                                                          *)
(***************************************************************************)
\* Somebody publishes a root, with the stake that is asked for.
OthersPublish(env) ==
  /\ env.sources = << >> /\ env.body \notin Domainless
  /\ \E h \in contentHashFromEnvelope(env) :
       /\ h \notin published
       /\ Remember(h, env)
       /\ PublishOnChain(h, << >>, compiledToRegistryArgs(envelopeToMinimalBlock(env)))
  /\ UNCHANGED op

Govern ==
  /\ \/ \E fee \in FeeLevels : feeBps' = fee /\ UNCHANGED << slashed, minStake >>
     \/ \E h \in published : slashed' = slashed \cup {h} /\ UNCHANGED << feeBps, minStake >>
     \/ \E amount \in MinStakes : minStake' = amount /\ UNCHANGED << feeBps, slashed >>
  /\ Chain!Govern
  /\ UNCHANGED << refusing, digest, recorded, op >>

\* The curator of h begins to refuse ether, or ceases to.
ChangeMind(h) ==
  /\ refusing' = IF h \in refusing THEN refusing \ {h} ELSE refusing \cup {h}
  /\ UNCHANGED << settledVars, minStake, digest, recorded, op >>

(***************************************************************************)
(* The specification                                                       *)
(***************************************************************************)
Begin(c) ==
  \/ \E in \in Inputs : publishDerived(c, in)
  \/ \E env \in Envelopes, names \in ParentNames, stake \in Stakes :
       publishCommand(c, env, names, stake)
  \/ \E intent \in Intents : query(c, intent)
  \/ \E byDomain \in BOOLEAN : queryCommand(c, byDomain)
  \/ \E h \in Hash : settleCitation(c, h)

\* The node answers, or a block is mined.
Progress(c) ==
  \/ MinePublication(c)
  \/ ReadCandidate(c) \/ AnswerQuery(c)
  \/ ReadFee(c) \/ SendSettlement(c) \/ MineSettlement(c)

ClientNext ==
  \/ \E c \in Client : Begin(c) \/ Progress(c)
  \/ \E env \in Envelopes : OthersPublish(env)
  \/ Govern
  \/ \E h \in Refusers : ChangeMind(h)

\* The node answers every call and mines every transaction it accepted.
ClientFairness == \A c \in Client : WF_clientVars(Progress(c))

ClientSpec == ClientInit /\ [][ClientNext]_clientVars /\ ClientFairness

(***************************************************************************)
(* Properties                                                              *)
(***************************************************************************)
\* Types of the variables: what a call of each kind remembers between its steps.
Attribution == [parent : Hash, bps : Nat]
TypeAndTier == [kbType : 0 .. 5, trustTier : 0 .. 2]
Publishing ==
  [ kind : {"derive", "publish"}, at : {"sent"} \cup Ended, kb : Hash,
    links : Seq(Attribution), record : TypeAndTier,
    stake : Nat, texts : BOOLEAN, funded : BOOLEAN ]
Querying ==
  [ kind : {"query"}, at : {"reading"} \cup Ended, intent : QueryIntent,
    unread : SUBSET Hash, valid : SUBSET [kb : Hash, score : Scores],
    answer : Hash \cup {0}, since : SUBSET Hash ]
Settlement ==
  [ kind : {"settle"}, at : {"quoting", "quoted", "sent"} \cup Ended, kb : Hash,
    value : Nat, funded : BOOLEAN ]

ClientTypeOK ==
  /\ published \subseteq Hash /\ slashed \subseteq published
  /\ parents \in [Hash -> Seq(Attribution)] /\ price \in [Hash -> Nat]
  /\ feeBps \in 0 .. MaxFeeBps /\ minStake \in Nat /\ refusing \subseteq Refusers
  /\ volume \in [Hash -> Nat] /\ earned \in [Hash -> Nat]
  /\ digest \in [Hash -> Envelope \cup {NotHashed}]
  /\ recorded \in [Hash -> TypeAndTier]
  /\ op \in [Client -> {NoCall} \cup Publishing \cup Querying \cup Settlement]

Fails(c, kind) == op'[c].kind = kind /\ op'[c].at = "failed" /\ op[c].at # "failed"

\* A transaction that the registry accepted when its gas was estimated is refused
\* when it is mined only because, since then, somebody published the block, the
\* owner raised the minimum stake above what is staked (setMinStake, 431), or the
\* owner raised the fee so that the shares exceed the rest: above the 200 that
\* publishDerived takes for granted (497), or to 200 points or less, if rounding to
\* the nearest took the shares above 9800, by at most half a point each (500), or
\* if there is not one weight for each source.  When the call is made, it may also
\* fail because of what it is given: a source is not published, the identifier or
\* the domain is empty, or the account lacks the stake.
DerivedFailsForCause ==
  [][\A c \in Client :
       Fails(c, "derive") =>
         LET call  == op'[c]
             links == call.links
         IN  \/ call.kb \in published
             \/ call.stake < minStake
             \/ /\ TotalBps(links) > Bps - feeBps
                /\ \/ feeBps > Bps - ClientBps
                   \/ /\ TotalBps(links) > ClientBps
                      /\ 2 * (TotalBps(links) - ClientBps) <= Len(links)
                   \/ \E in \in Inputs :
                        /\ digest'[call.kb] = normalizeForHash(DerivedEnvelope(in))
                        /\ links = DerivedLinks(in, DerivedEnvelope(in).sources)
                        /\ in.weighted /\ Len(in.weights) # Len(in.names)
             \/ /\ op[c].at # "sent"
                /\ \/ \E i \in DOMAIN links : links[i].parent \notin published
                   \/ ~ call.texts
                   \/ ~ call.funded]_clientVars

\* The share is the weight's part of 9800, to half a point.
Near(bps, weight, total) ==
  LET twice == 2 * (bps * total - weight * ClientBps)
  IN  -total <= twice /\ twice <= total

\* Each share is the part of the weight at its place, to half a point; it is the
\* share of the source that the caller weighed if the caller's sources, with the
\* prefix, were sorted, and of another one if not ("royalty weight per source (by
\* index)", 117).
SharesByWeight ==
  \A c \in Client : op[c].kind = "derive" =>
    \E in \in Inputs :
      LET weights == Weights(in, Len(in.names))
          given   == AllPrefixed(in.names)
      IN  /\ digest[op[c].kb] = normalizeForHash(DerivedEnvelope(in))
          /\ Len(op[c].links) = Len(in.names)
          /\ \A i \in DOMAIN op[c].links :
               /\ Near(op[c].links[i].bps, WeightAt(weights, i), TotalWeight(weights))
               /\ Sorted(given) = given => op[c].links[i].parent = in.names[i].kb

\* The fee that settleCitation read is still the fee when it is sent and when it is
\* mined, whatever happened on the chain: the settlement of a registered block fails
\* only because the block is slashed, a curator who is to be paid refuses, a counter
\* is full, or the account lacks the fee when the transaction is sent.
SettleFailsForCause ==
  [][\A c \in Client :
       Fails(c, "settle") =>
         LET h == op'[c].kb
         IN  \/ h \notin published /\ op[c].at = "quoting"
             \/ h \in slashed
             \/ Payees(h) \cap refusing # {}
             \/ ~ Countable(h)
             \/ ~ op'[c].funded /\ op[c].at = "quoted"]_clientVars

\* A query answers with a published block that fits the intent and was not
\* slashed when the query began; and if the block was published with a payload of
\* its type, the payload can be read as the type that was recorded unless that type
\* has no number.
AnswersAreEligible ==
  \A c \in Client :
    op[c].kind = "query" /\ op[c].answer # 0 =>
      LET h == op[c].answer
      IN  /\ h \in published \ op[c].since
          /\ h \in Matching(op[c].intent)
          /\ recorded[h].trustTier <= op[c].intent.minTrustTier
          /\ digest[h].type = digest[h].payload.type =>
               ( asStructured(h) <=> \E i \in DOMAIN KB_TYPE_NAMES :
                                       KB_TYPE_NAMES[i] = digest[h].payload.type )

\* Every call of the SDK ends.
CallsEnd == \A c \in Client : op[c] # NoCall ~> op[c].at \in Ended
=============================================================================
