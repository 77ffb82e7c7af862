-------------------------- MODULE VirtualRegistry --------------------------
(***************************************************************************)
(* The protocol sandbox                                                    *)
(* (packages/protocol/src/core/virtualRegistry/VirtualRegistry.ts): an     *)
(* in-memory registry that is said to be stricter than the chain.          *)
(*                                                                         *)
(* registerEnvelope runs up to its only await as one step, and its answer  *)
(* is another step: calls overlap.  A call that is rejected before the     *)
(* store is written changes nothing and is not a step.                     *)
(***************************************************************************)
EXTENDS Canonical

CONSTANTS
  Curator,     \* who registers
  Zero,        \* the address getCurator gives for an unknown block
  Call,        \* the calls of registerEnvelope
  MaxResets,   \* bound: calls of reset
  Submitted    \* the envelopes that callers submit

ASSUME VirtualRegistryAssumption ==
  /\ Zero \notin Curator
  /\ Submitted \subseteq Envelope
  /\ MaxResets \in Nat

VARIABLES
  store,    \* hash -> [curator, parents], or NoBlock
  calls,    \* call -> where it is and what it answers
  resets    \* how often the store was cleared

vars == << digest, store, calls, resets >>

NoBlock == [curator |-> Zero, parents |-> << >>]
StoredBlock == [curator : Curator \cup {Zero}, parents : Seq(Hash)]

Idle == [status |-> "idle"]
CallState == {Idle} \cup
  [status : {"hashing", "answered", "thrown"}, kb : Hash, isNew : BOOLEAN,
   cid : Envelope, since : 0 .. MaxResets]

Init ==
  /\ InitDigest
  /\ store = [h \in Hash |-> NoBlock]
  /\ calls = [c \in Call |-> Idle]
  /\ resets = 0

\* A block that the store has.
Stored == {h \in Hash : store[h] # NoBlock}

Normalized(names) == [i \in DOMAIN names |-> names[i].kb]
Members(list) == {list[i] : i \in DOMAIN list}

(***************************************************************************)
(* The checks of registerEnvelope                                          *)
(***************************************************************************)
SourcesUnique(names) ==
  Cardinality(Members(Normalized(names))) = Len(names)

SourcesSorted(names) ==
  \A i, j \in DOMAIN names : i < j => Rank(names[i]) <= Rank(names[j])

validatePayload(type, payload) ==
  /\ payload.type = type
  /\ PayloadFields[type] \subseteq payload.fields

DerivationInputsValid(derivation, names) ==
  derivation.present =>
    Members(Normalized(derivation.inputs)) \subseteq Members(Normalized(names))

WellFormed(env) ==
  /\ SourcesUnique(env.sources)
  /\ SourcesSorted(env.sources)
  /\ validatePayload(env.type, env.payload)
  /\ DerivationInputsValid(env.derivation, env.sources)

\* What the depth-first search from h has visited when it ends: the least set
\* that has h and, with a stored block, its sources.
ClosedUnderSources(S) == \A k \in S : Members(store[k].parents) \subseteq S
getAncestors(h) ==
  {k \in Hash : \A S \in SUBSET Hash :
                  h \in S /\ ClosedUnderSources(S) => k \in S}

\* Mutant: one of two sources descends from the other.
wouldCreateCycleOneWay(parents) ==
  \E i, j \in DOMAIN parents :
    i < j /\ parents[j] \in getAncestors(parents[i])

wouldCreateCycle(parents) ==
  \E i, j \in DOMAIN parents :
    /\ i < j
    /\ parents[j] \in getAncestors(parents[i])
    /\ parents[i] \in getAncestors(parents[j])

(***************************************************************************)
(* The steps                                                               *)
(***************************************************************************)
\* The identifier is computed from the envelope as it came, not from the form
\* that was hashed: a key `parents' makes it another one, or throws.
Hashing(h, env, isNew) ==
  [ status |-> IF Canonicalizable(env) THEN "hashing" ELSE "thrown",
    kb     |-> h,
    isNew  |-> isNew,
    cid    |-> cidV1FromCanonical(canonicalize(sortSources(env))),
    since  |-> resets ]

\* Mutant: parents are kept in the spelling they came in.
AddBlockAsSpelled(h, env, curator) ==
  store' = [store EXCEPT ![h] =
             [ curator |-> curator,
               parents |-> [i \in DOMAIN env.sources |-> Rank(env.sources[i])] ]]

AddBlock(h, env, curator) ==
  store' = [store EXCEPT ![h] =
             [curator |-> curator, parents |-> Normalized(env.sources)]]

\* Mutant: the sources need not be in the store.
RegisterNewAnyOrder(c, h, env, curator) ==
  /\ h \notin Stored
  /\ ~ wouldCreateCycle(Normalized(env.sources))
  /\ AddBlock(h, env, curator)
  /\ calls' = [calls EXCEPT ![c] = Hashing(h, env, TRUE)]

\* Mutant: without the early return, the last curator owns the block.
RegisterNewAgain(c, h, env, curator) ==
  /\ Members(Normalized(env.sources)) \subseteq Stored
  /\ AddBlock(h, env, curator)
  /\ calls' = [calls EXCEPT ![c] = Hashing(h, env, TRUE)]

RegisterNew(c, h, env, curator) ==
  /\ h \notin Stored
  /\ Members(Normalized(env.sources)) \subseteq Stored
  /\ ~ wouldCreateCycle(Normalized(env.sources))
  /\ AddBlock(h, env, curator)
  /\ calls' = [calls EXCEPT ![c] = Hashing(h, env, TRUE)]

\* The block is there: the first curator stays.
RegisterKnown(c, h, env) ==
  /\ h \in Stored
  /\ calls' = [calls EXCEPT ![c] = Hashing(h, env, FALSE)]
  /\ UNCHANGED store

registerEnvelope(c, env, curator) ==
  /\ calls[c] = Idle
  /\ WellFormed(env)
  /\ \E h \in contentHashFromEnvelope(env) :
       /\ Remember(h, env)
       /\ RegisterNew(c, h, env, curator) \/ RegisterKnown(c, h, env)
  /\ UNCHANGED resets

\* The promise of the hash resolves, and with it the call's.
AnswerCall(c) ==
  /\ calls[c].status = "hashing"
  /\ calls' = [calls EXCEPT ![c].status = "answered"]
  /\ UNCHANGED << digest, store, resets >>

reset ==
  /\ resets < MaxResets
  /\ store' = [h \in Hash |-> NoBlock]
  /\ resets' = resets + 1
  /\ UNCHANGED << digest, calls >>

Next ==
  \/ \E c \in Call, env \in Submitted, curator \in Curator :
       registerEnvelope(c, env, curator)
  \/ \E c \in Call : AnswerCall(c)
  \/ reset

Spec == Init /\ [][Next]_vars

(***************************************************************************)
(* What the registry answers                                               *)
(***************************************************************************)
isVerified(h) == h \in Stored

getCurator(h) == store[h].curator

getKB(h) == [curator |-> getCurator(h), sources |-> store[h].parents, exists |-> h \in Stored]

getAttributionDAG(h) ==
  LET kb == getKB(h)
  IN  [i \in DOMAIN kb.sources |->
         [ parentHash      |-> kb.sources[i],
           royaltyShareBps |-> 10000 \div Len(kb.sources) ]]

getDerivedBlocks(parent) ==
  {h \in Stored : parent \in Members(store[h].parents)}

(***************************************************************************)
(* Properties                                                              *)
(***************************************************************************)
\* Types of the four variables; in particular the store names every parent in
\* the one spelling that its keys have.
TypeOK ==
  /\ digest \in [Hash -> Envelope \cup {NotHashed}]
  /\ store \in [Hash -> StoredBlock]
  /\ calls \in [Call -> CallState]
  /\ resets \in 0 .. MaxResets

\* Every parent of a stored block is stored, in every order of calls, spellings
\* and resets ("register sources before descendants", VirtualRegistry.ts:328).
SourcesFirst ==
  \A h \in Stored : Members(store[h].parents) \subseteq Stored

\* Of all the calls that returned or will return a stored block, exactly one
\* has added it; calls that overlap at the await do not both say so.
AddedBy(h) == {c \in Call : /\ calls[c] # Idle
                            /\ calls[c].kb = h
                            /\ calls[c].isNew
                            /\ calls[c].since = resets}
ExactlyOneNew == \A h \in Stored : Cardinality(AddedBy(h)) = 1

\* The search for cycles rejects no envelope that the other checks let pass:
\* no two blocks of the store are each other's ancestors.
NoFalseCycle ==
  \A h, k \in Stored : h # k => ~ wouldCreateCycle(<< h, k >>)

\* What the sandbox accepts, the registry of the modular stack accepts: every
\* step on the store is a step of that contract, or clears the store.
Lists(S) == UNION {[1 .. n -> S] : n \in 0 .. NumKB}
KR == INSTANCE KnowledgeRegistry
        WITH Account <- Curator, ParentLists <- Lists(Hash), blocks <- store
StricterThanMainnet ==
  [][ (\E curator \in Curator, h \in Hash :
         KR!registerKB(curator, h, store'[h].parents))
      \/ reset ]_store
=============================================================================
