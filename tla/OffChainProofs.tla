--------------------------- MODULE OffChainProofs ---------------------------
(***************************************************************************)
(* Theorems about what runs off the chain, and against it: the sandbox     *)
(* registry (VirtualRegistry), the clients of the registry (SdkClient) and *)
(* the scripts and the subgraph of the modular stack (Rollout), for all    *)
(* numbers of hashes, callers, clients and seeds.                          *)
(***************************************************************************)
EXTENDS VirtualRegistry, SdkClient, Rollout, SumLemmas, FiniteSetTheorems

(***************************************************************************)
(* The sandbox registry                                                    *)
(***************************************************************************)

StoreOK == store \in [Hash -> StoredBlock]

\* No two blocks descend from each other.
Acyclic ==
  \A h, k \in Stored :
    k \in getAncestors(h) /\ h \in getAncestors(k) => h = k

\* A call that added a block since the last reset added one that is stored.
Fields == {"status", "kb", "isNew", "cid", "since"}
AddersOK ==
  /\ resets \in Nat
  /\ DOMAIN calls = Call
  /\ \A c \in Call : calls[c] # Idle => /\ calls[c].since \in 0 .. resets
                                       /\ DOMAIN calls[c] = Fields
  /\ \A h \in Hash \ Stored : AddedBy(h) = {}

OneAdder == \A h \in Stored : \E c \in Call : AddedBy(h) = {c}

IInv == StoreOK /\ SourcesFirst /\ Acyclic /\ AddersOK /\ OneAdder

-----------------------------------------------------------------------------
\* The parents of a well-formed envelope are hashes.
LEMMA NormalizedOK ==
  ASSUME NEW env \in Submitted
  PROVE  Normalized(env.sources) \in Seq(Hash)
<1>1. env.sources \in Seq(Name)
  BY VirtualRegistryAssumption DEF Envelope
<1>2. PICK n \in Nat : env.sources \in [1 .. n -> Name] /\ DOMAIN env.sources = 1 .. n
  BY <1>1
<1>3. Normalized(env.sources) \in [1 .. n -> Hash]
  BY <1>2 DEF Normalized, Name
<1> QED BY <1>3

\* Adding a block stores it and changes no other.
LEMMA Added ==
  ASSUME StoreOK, NEW h \in Hash, NEW env \in Submitted, NEW curator \in Curator,
         AddBlock(h, env, curator)
  PROVE  /\ StoreOK'
         /\ Stored' = Stored \cup {h}
         /\ store'[h] = [curator |-> curator, parents |-> Normalized(env.sources)]
         /\ \A k \in Hash \ {h} : store'[k] = store[k]
<1> DEFINE block == [curator |-> curator, parents |-> Normalized(env.sources)]
<1>1. block \in StoredBlock /\ block # NoBlock
  <2>1. block.curator # Zero /\ NoBlock.curator = Zero
    BY VirtualRegistryAssumption DEF NoBlock
  <2> QED BY <2>1, NormalizedOK DEF StoredBlock
<1>2. store' = [store EXCEPT ![h] = block]
  BY DEF AddBlock
<1> HIDE DEF block
<1>3. StoreOK' /\ store'[h] = block /\ \A k \in Hash \ {h} : store'[k] = store[k]
  BY <1>1, <1>2 DEF StoreOK
<1>4. Stored' = Stored \cup {h}
  BY <1>1, <1>3 DEF Stored
<1> QED BY <1>3, <1>4 DEF block

\* What descends from stored blocks only does not depend on a block that is
\* added: with it, a stored block has no new ancestors.
LEMMA OldAncestors ==
  ASSUME StoreOK, SourcesFirst, NEW b \in Hash \ Stored,
         \A k \in Hash \ {b} : store'[k] = store[k], NEW h \in Stored
  PROVE  /\ getAncestors(h)' \subseteq getAncestors(h)
         /\ getAncestors(h)' \subseteq Stored
<1>1. Stored \subseteq Hash /\ h \in Hash
  BY DEF Stored
<1>2. ASSUME NEW k \in getAncestors(h)', NEW S \in SUBSET Hash, h \in S,
             ClosedUnderSources(S)
      PROVE  k \in S \cap Stored
  <2>1. PICK T \in SUBSET Hash : T = S \cap Stored
    BY <1>1
  <2>2. \A k1 \in T : Members(store'[k1].parents) \subseteq T
    <3> SUFFICES ASSUME NEW k1 \in T
                 PROVE  Members(store'[k1].parents) \subseteq T
      OBVIOUS
    <3>1. store'[k1] = store[k1]
      BY <1>1, <2>1
    <3>2. Members(store[k1].parents) \subseteq S
      BY <1>2, <2>1 DEF ClosedUnderSources
    <3>3. Members(store[k1].parents) \subseteq Stored
      BY <2>1 DEF SourcesFirst
    <3> QED BY <2>1, <3>1, <3>2, <3>3
  <2>3. \A S1 \in SUBSET Hash :
           h \in S1 /\ (\A k1 \in S1 : Members(store'[k1].parents) \subseteq S1)
             => k \in S1
    BY <1>2 DEF getAncestors, ClosedUnderSources, Members
  <2>4. h \in T
    BY <1>1, <1>2, <2>1
  <2> QED BY <2>1, <2>2, <2>3, <2>4
<1>3. ClosedUnderSources(Stored)
  BY DEF SourcesFirst, ClosedUnderSources
<1>4. getAncestors(h)' \subseteq Hash
  BY DEF getAncestors
<1> QED BY <1>1, <1>2, <1>3, <1>4 DEF getAncestors

-----------------------------------------------------------------------------
\* The search for cycles finds none.
LEMMA AcyclicSuffices == Acyclic => NoFalseCycle
<1> SUFFICES ASSUME Acyclic, NEW h \in Stored, NEW k \in Stored, h # k,
                    wouldCreateCycle(<< h, k >>)
             PROVE  FALSE
  BY DEF NoFalseCycle
<1>1. PICK i \in {1, 2}, j \in {1, 2} :
        /\ i < j
        /\ << h, k >>[j] \in getAncestors(<< h, k >>[i])
        /\ << h, k >>[i] \in getAncestors(<< h, k >>[j])
  BY DEF wouldCreateCycle
<1>2. i = 1 /\ j = 2
  BY <1>1
<1> QED BY <1>1, <1>2 DEF Acyclic

\* At the start nothing is stored and nothing is called.
LEMMA InitIInv == Init => IInv
<1> SUFFICES ASSUME Init PROVE IInv
  OBVIOUS
<1>1. StoreOK
  BY DEF Init, StoreOK, StoredBlock, NoBlock
<1>2. Stored = {}
  BY DEF Init, Stored
<1>3. \A h \in Hash : AddedBy(h) = {}
  BY DEF Init, AddedBy
<1>4. AddersOK
  BY <1>3 DEF Init, AddersOK
<1> QED BY <1>1, <1>2, <1>4 DEF IInv, SourcesFirst, Acyclic, OneAdder

\* A new block keeps every part of the invariant.
LEMMA RegisterNewIInv ==
  ASSUME IInv, NEW c \in Call, NEW env \in Submitted, NEW curator \in Curator,
         NEW h \in Hash, calls[c] = Idle, RegisterNew(c, h, env, curator),
         resets' = resets
  PROVE  IInv'
<1> DEFINE P == Members(Normalized(env.sources))
<1>1. /\ StoreOK /\ SourcesFirst /\ Acyclic /\ AddersOK /\ OneAdder
      /\ h \notin Stored /\ P \subseteq Stored /\ AddBlock(h, env, curator)
      /\ calls' = [calls EXCEPT ![c] = Hashing(h, env, TRUE)]
  BY DEF IInv, RegisterNew
<1>2. /\ StoreOK'
      /\ Stored' = Stored \cup {h}
      /\ store'[h].parents = Normalized(env.sources)
      /\ \A k \in Hash \ {h} : store'[k] = store[k]
  <2>1. /\ StoreOK'
        /\ Stored' = Stored \cup {h}
        /\ store'[h] = [curator |-> curator, parents |-> Normalized(env.sources)]
        /\ \A k \in Hash \ {h} : store'[k] = store[k]
    BY <1>1, Added, Zenon
  <2>2. store'[h].parents = Normalized(env.sources)
    BY <2>1
  <2> QED BY <2>1, <2>2
<1>3. SourcesFirst'
  BY <1>1, <1>2 DEF SourcesFirst, Stored
<1>4. Acyclic'
  <2> SUFFICES ASSUME NEW k1 \in Stored', NEW k2 \in Stored',
                      k2 \in getAncestors(k1)', k1 \in getAncestors(k2)'
               PROVE  k1 = k2
    BY DEF Acyclic
  <2>1. \A k \in Stored : /\ getAncestors(k)' \subseteq getAncestors(k)
                          /\ getAncestors(k)' \subseteq Stored
    BY <1>1, <1>2, OldAncestors
  <2>2. CASE k1 \in Stored /\ k2 \in Stored
    BY <1>1, <2>1, <2>2 DEF Acyclic
  <2>3. CASE k1 \in Stored /\ k2 = h
    BY <1>1, <2>1, <2>3
  <2>4. CASE k1 = h /\ k2 \in Stored
    BY <1>1, <2>1, <2>4
  <2> QED BY <1>2, <2>2, <2>3, <2>4
<1>5. /\ AddedBy(h)' = {c}
      /\ \A k \in Hash \ {h} : AddedBy(k)' = AddedBy(k)
      /\ AddersOK'
  <2>1. /\ calls'[c] # Idle /\ calls'[c].kb = h /\ calls'[c].isNew
        /\ calls'[c].since = resets /\ DOMAIN calls'[c] = Fields
        /\ \A d \in Call \ {c} : calls'[d] = calls[d]
        /\ DOMAIN calls' = Call
    <3>1. /\ Hashing(h, env, TRUE) # Idle /\ Hashing(h, env, TRUE).kb = h
          /\ Hashing(h, env, TRUE).isNew /\ Hashing(h, env, TRUE).since = resets
          /\ DOMAIN Hashing(h, env, TRUE) = Fields
      BY DEF Hashing, Idle, Fields
    <3> HIDE DEF Hashing
    <3> QED BY <1>1, <3>1 DEF AddersOK
  <2>2. AddedBy(h) = {}
    BY <1>1 DEF AddersOK
  <2>3. AddedBy(h)' = {c}
    BY <2>1, <2>2 DEF AddedBy
  <2>4. \A k \in Hash \ {h} : AddedBy(k)' = AddedBy(k)
    BY <1>1, <2>1 DEF AddedBy
  <2>5. AddersOK'
    <3>1. \A d \in Call : calls'[d] # Idle => /\ calls'[d].since \in 0 .. resets'
                                              /\ DOMAIN calls'[d] = Fields
      <4>1. resets \in 0 .. resets' /\ resets' = resets
        BY <1>1 DEF AddersOK
      <4>2. \A d \in Call \ {c} : calls[d] # Idle => /\ calls[d].since \in 0 .. resets
                                                  /\ DOMAIN calls[d] = Fields
        BY <1>1 DEF AddersOK
      <4> QED BY <2>1, <4>1, <4>2
    <3>2. \A k \in Hash \ Stored' : AddedBy(k)' = {}
      BY <1>1, <1>2, <2>4 DEF AddersOK
    <3> QED BY <1>1, <2>1, <3>1, <3>2 DEF AddersOK
  <2> QED BY <2>3, <2>4, <2>5
<1>6. OneAdder'
  BY <1>1, <1>2, <1>5 DEF OneAdder, Stored
<1> QED BY <1>2, <1>3, <1>4, <1>5, <1>6 DEF IInv

\* The parts of the invariant about the store depend on nothing else.
LEMMA SameStore ==
  ASSUME StoreOK, SourcesFirst, Acyclic, store' = store
  PROVE  StoreOK' /\ SourcesFirst' /\ Acyclic' /\ Stored' = Stored
<1>1. Stored' = Stored
  BY DEF Stored
<1>2. StoreOK' /\ SourcesFirst'
  BY <1>1 DEF StoreOK, SourcesFirst, Members
<1>3. \A h \in Hash : getAncestors(h)' = getAncestors(h)
  BY DEF getAncestors, ClosedUnderSources, Members
<1>4. Stored \subseteq Hash
  BY DEF Stored
<1>5. Acyclic'
  BY <1>1, <1>3, <1>4 DEF Acyclic
<1> QED BY <1>1, <1>2, <1>5

\* The answer to a call that found its block changes no call that added one.
LEMMA RegisterKnownIInv ==
  ASSUME IInv, NEW c \in Call, NEW env \in Submitted, NEW h \in Hash,
         calls[c] = Idle, RegisterKnown(c, h, env), resets' = resets
  PROVE  IInv'
<1>1. /\ StoreOK /\ SourcesFirst /\ Acyclic /\ AddersOK /\ OneAdder
      /\ calls' = [calls EXCEPT ![c] = Hashing(h, env, FALSE)] /\ store' = store
  BY DEF IInv, RegisterKnown
<1>2. /\ ~ calls'[c].isNew /\ calls'[c].since = resets
      /\ DOMAIN calls'[c] = Fields
      /\ \A d \in Call \ {c} : calls'[d] = calls[d]
      /\ DOMAIN calls' = Call
  <2>1. ~ Hashing(h, env, FALSE).isNew /\ Hashing(h, env, FALSE).since = resets
        /\ DOMAIN Hashing(h, env, FALSE) = Fields
    BY DEF Hashing, Fields
  <2> HIDE DEF Hashing
  <2> QED BY <1>1, <2>1 DEF AddersOK
<1>3. \A k \in Hash : AddedBy(k)' = AddedBy(k)
  BY <1>2 DEF AddedBy
<1>4. /\ StoreOK' /\ SourcesFirst' /\ Acyclic' /\ Stored' = Stored
  BY <1>1, SameStore
<1>5. AddersOK'
  <2>1. resets \in 0 .. resets' /\ resets' = resets
    BY <1>1 DEF AddersOK
  <2>2. \A d \in Call \ {c} : calls[d] # Idle => /\ calls[d].since \in 0 .. resets
                                                  /\ DOMAIN calls[d] = Fields
    BY <1>1 DEF AddersOK
  <2>3. \A d \in Call : calls'[d] # Idle => /\ calls'[d].since \in 0 .. resets'
                                            /\ DOMAIN calls'[d] = Fields
    BY <1>2, <2>1, <2>2
  <2> QED BY <1>1, <1>2, <1>3, <1>4, <2>3 DEF AddersOK
<1>6. OneAdder'
  BY <1>1, <1>3, <1>4 DEF OneAdder, Stored
<1> QED BY <1>4, <1>5, <1>6 DEF IInv

\* An answer moves a call on and leaves what it says.
LEMMA AnswerIInv ==
  ASSUME IInv, NEW c \in Call, AnswerCall(c)
  PROVE  IInv'
<1> DEFINE new == [calls[c] EXCEPT !.status = "answered"]
<1>1. /\ StoreOK /\ SourcesFirst /\ Acyclic /\ AddersOK /\ OneAdder
      /\ calls' = [calls EXCEPT ![c] = new]
      /\ store' = store /\ resets' = resets /\ calls[c].status = "hashing"
  BY DEF IInv, AnswerCall
<1>2. calls[c] # Idle
  BY <1>1 DEF Idle
<1>3. /\ new.kb = calls[c].kb /\ new.isNew = calls[c].isNew
      /\ new.since = calls[c].since /\ DOMAIN new = Fields /\ new # Idle
  <2>1. DOMAIN calls[c] = Fields
    BY <1>1, <1>2 DEF AddersOK
  <2> QED BY <2>1 DEF Fields, Idle
<1> HIDE DEF new
<1>4. /\ calls'[c] = new /\ DOMAIN calls' = Call
      /\ \A d \in Call \ {c} : calls'[d] = calls[d]
  BY <1>1 DEF AddersOK
<1>5. \A k \in Hash : AddedBy(k)' = AddedBy(k)
  BY <1>1, <1>2, <1>3, <1>4 DEF AddedBy
<1>6. /\ StoreOK' /\ SourcesFirst' /\ Acyclic' /\ Stored' = Stored
  BY <1>1, SameStore
<1>7. AddersOK'
  <2>1. calls[c].since \in 0 .. resets
    BY <1>1, <1>2 DEF AddersOK
  <2>2. \A d \in Call : calls'[d] # Idle => /\ calls'[d].since \in 0 .. resets'
                                            /\ DOMAIN calls'[d] = Fields
    BY <1>1, <1>3, <1>4, <2>1 DEF AddersOK
  <2> QED BY <1>1, <1>4, <1>5, <1>6, <2>2 DEF AddersOK
<1>8. OneAdder'
  BY <1>1, <1>5, <1>6 DEF OneAdder, Stored
<1> QED BY <1>6, <1>7, <1>8 DEF IInv

\* Clearing the store begins a new count.
LEMMA ResetIInv == IInv /\ reset => IInv'
<1> SUFFICES ASSUME IInv, reset PROVE IInv'
  OBVIOUS
<1>1. /\ store' = [h \in Hash |-> NoBlock] /\ resets' = resets + 1
      /\ calls' = calls /\ AddersOK
  BY DEF IInv, reset
<1>2. StoreOK' /\ Stored' = {}
  BY <1>1 DEF StoreOK, Stored, StoredBlock, NoBlock
<1>3. AddersOK'
  <2>1. resets' \in Nat /\ resets \in Nat
    BY <1>1 DEF AddersOK
  <2>2. \A c \in Call : calls'[c] # Idle => /\ calls'[c].since \in 0 .. resets
                                            /\ DOMAIN calls'[c] = Fields
    BY <1>1 DEF AddersOK
  <2>3. \A n \in 0 .. resets : n \in 0 .. resets' /\ n # resets'
    BY <1>1, <2>1
  <2>4. \A h \in Hash : AddedBy(h)' = {}
    BY <2>2, <2>3 DEF AddedBy
  <2> QED BY <1>1, <2>1, <2>2, <2>3, <2>4 DEF AddersOK
<1> QED BY <1>2, <1>3 DEF IInv, SourcesFirst, Acyclic, OneAdder

\* Every step keeps the invariant.
LEMMA NextIInv == IInv /\ [Next]_vars => IInv'
<1> SUFFICES ASSUME IInv, [Next]_vars PROVE IInv'
  OBVIOUS
<1>1. ASSUME NEW c \in Call, NEW env \in Submitted, NEW curator \in Curator,
             registerEnvelope(c, env, curator)
      PROVE  IInv'
  <2>1. PICK h \in Hash :
          /\ calls[c] = Idle /\ resets' = resets
          /\ RegisterNew(c, h, env, curator) \/ RegisterKnown(c, h, env)
    BY <1>1 DEF registerEnvelope, contentHashFromEnvelope, Hashes
  <2> QED BY <2>1, RegisterNewIInv, RegisterKnownIInv
<1>2. CASE UNCHANGED vars
  <2>1. store' = store /\ calls' = calls /\ resets' = resets
    BY <1>2 DEF vars
  <2>2. StoreOK' /\ SourcesFirst' /\ Acyclic' /\ Stored' = Stored
    BY <2>1, SameStore DEF IInv
  <2>3. \A h \in Hash : AddedBy(h)' = AddedBy(h)
    BY <2>1 DEF AddedBy
  <2>4. AddersOK' /\ OneAdder'
    BY <2>1, <2>2, <2>3 DEF IInv, AddersOK, OneAdder, Stored
  <2> QED BY <2>2, <2>4 DEF IInv
<1> QED BY <1>1, <1>2, AnswerIInv, ResetIInv DEF Next

-----------------------------------------------------------------------------
\* The inductive invariant holds in every behaviour.
THEOREM Invariance == Spec => []IInv
BY InitIInv, NextIInv, PTL DEF Spec

\* A block is stored only with all its parents stored.
THEOREM SourcesAreFirst == Spec => []SourcesFirst
<1>1. IInv => SourcesFirst
  BY DEF IInv
<1> QED BY Invariance, <1>1, PTL

\* Overlapping calls agree on which of them added a block.
THEOREM OneNewPerBlock == Spec => []ExactlyOneNew
<1>1. IInv => ExactlyOneNew
  BY FS_Singleton DEF IInv, OneAdder, ExactlyOneNew
<1> QED BY Invariance, <1>1, PTL

\* The depth-first search never rejects an envelope: the sources come first.
THEOREM SearchFindsNothing == Spec => []NoFalseCycle
<1>1. IInv => NoFalseCycle
  BY AcyclicSuffices DEF IInv
<1> QED BY Invariance, <1>1, PTL

\* The sandbox implements the registry of the modular stack, except for reset.
THEOREM ImplementsKnowledgeRegistry == Spec => StricterThanMainnet
<1> DEFINE A == \/ \E curator \in Curator, h \in Hash :
                     KR!registerKB(curator, h, store'[h].parents)
                \/ reset
<1>1. ASSUME IInv, [Next]_vars PROVE [A]_store
  <2>1. ASSUME NEW c \in Call, NEW env \in Submitted, NEW curator \in Curator,
               NEW h \in Hash, RegisterNew(c, h, env, curator)
        PROVE  KR!registerKB(curator, h, store'[h].parents)
    <3>1. StoreOK /\ h \notin Stored /\ AddBlock(h, env, curator)
      BY <1>1, <2>1 DEF IInv, RegisterNew
    <3>2. store[h].curator = Zero
      BY <3>1 DEF Stored, NoBlock
    <3>3. store'[h] = [curator |-> curator, parents |-> Normalized(env.sources)]
      BY <3>1 DEF AddBlock, StoreOK
    <3>4. store'[h].parents = Normalized(env.sources)
      BY <3>3
    <3>5. store' = [store EXCEPT ![h] =
                     [curator |-> curator, parents |-> store'[h].parents]]
      BY <3>1, <3>4 DEF AddBlock
    <3> QED BY <3>2, <3>5 DEF KR!registerKB, KR!isVerified
  <2>2. ASSUME NEW c \in Call, NEW env \in Submitted, NEW curator \in Curator,
               registerEnvelope(c, env, curator)
        PROVE  A \/ UNCHANGED store
    <3>1. PICK h \in Hash :
            RegisterNew(c, h, env, curator) \/ RegisterKnown(c, h, env)
      BY <2>2 DEF registerEnvelope, contentHashFromEnvelope, Hashes
    <3> QED BY <2>1, <3>1 DEF RegisterKnown
  <2> QED BY <1>1, <2>2 DEF Next, vars, AnswerCall
<1> QED BY Invariance, <1>1, PTL DEF Spec, StricterThanMainnet

-----------------------------------------------------------------------------
(* Sorting: an array of names can always be arranged by rank.                *)

\* One of n ranks is the highest.
LEMMA HighestRank ==
  ASSUME NEW n \in Nat \ {0}, NEW rank, \A i \in 1 .. n : rank[i] \in Nat
  PROVE  \E m \in 1 .. n : \A i \in 1 .. n : rank[i] <= rank[m]
<1> DEFINE T == {k \in 0 .. n : k = 0 \/ \E m \in 1 .. k : \A i \in 1 .. k : rank[i] <= rank[m]}
<1>1. 0 \in T
  OBVIOUS
<1>2. ASSUME NEW k \in 0 .. n - 1, k \in T PROVE k + 1 \in T
  <2>1. k + 1 \in 0 .. n /\ k + 1 \in 1 .. n /\ 1 .. k + 1 = 1 .. k \cup {k + 1}
    OBVIOUS
  <2>2. CASE k = 0
    <3>1. 1 \in 1 .. 1 /\ \A i \in 1 .. 1 : rank[i] <= rank[1] OBVIOUS
    <3> QED BY <2>1, <2>2, <3>1
  <2>3. CASE k # 0
    <3>1. PICK m \in 1 .. k : \A i \in 1 .. k : rank[i] <= rank[m] BY <1>2, <2>3
    <3>2. m \in 1 .. k + 1 /\ rank[m] \in Nat /\ rank[k + 1] \in Nat BY <2>1
    <3>3. CASE rank[k + 1] <= rank[m] BY <2>1, <3>1, <3>2, <3>3
    <3>4. CASE rank[m] <= rank[k + 1]
      <4>1. \A i \in 1 .. k + 1 : rank[i] <= rank[k + 1]
        <5> TAKE i \in 1 .. k + 1
        <5>1. CASE i = k + 1 BY <3>2, <5>1
        <5>2. CASE i \in 1 .. k
          <6>1. rank[i] \in Nat /\ rank[i] <= rank[m] BY <3>1, <5>2
          <6> QED BY <6>1, <3>2, <3>4
        <5> QED BY <2>1, <5>1, <5>2
      <4> QED BY <2>1, <4>1
    <3> QED BY <3>2, <3>3, <3>4
  <2> QED BY <2>2, <2>3
<1>3. n \in T
  <2> HIDE DEF T
  <2>1. \A k \in 0 .. n : k \in T
    BY <1>1, <1>2, UpTo, Zenon
  <2> QED BY <2>1
<1> QED BY <1>3

\* `from' takes each place's element from a place of its own, in the order of rank.
Arranges(from, rank, n) ==
  /\ from \in [1 .. n -> 1 .. n]
  /\ \A i, j \in 1 .. n : from[i] = from[j] => i = j
  /\ \A i, j \in 1 .. n : i < j => rank[from[i]] <= rank[from[j]]

\* With the highest rank at the end, the others are arranged as a shorter array,
\* in which the last element has taken its place.
LEMMA ArrangementExists ==
  ASSUME NEW n \in Nat, NEW r \in [1 .. n -> Nat]
  PROVE  \E from : Arranges(from, r, n)
<1> DEFINE T == {k \in 0 .. n : \A rank \in [1 .. k -> Nat] : \E from : Arranges(from, rank, k)}
<1>1. 0 \in T
  <2>1. \A rank : Arranges([i \in 1 .. 0 |-> i], rank, 0) BY DEF Arranges
  <2> QED BY <2>1
<1>2. ASSUME NEW k \in 0 .. n - 1, k \in T PROVE k + 1 \in T
  <2> SUFFICES ASSUME NEW rank \in [1 .. k + 1 -> Nat]
               PROVE  \E from : Arranges(from, rank, k + 1)
    OBVIOUS
  <2>0. /\ k + 1 \in Nat \ {0} /\ 1 .. k + 1 = 1 .. k \cup {k + 1} /\ k + 1 \notin 1 .. k
        /\ k \in Nat
    OBVIOUS
  <2>1. PICK m \in 1 .. k + 1 : \A i \in 1 .. k + 1 : rank[i] <= rank[m]
    BY <2>0, HighestRank
  <2> DEFINE rest == [i \in 1 .. k |-> IF i = m THEN rank[k + 1] ELSE rank[i]]
  <2>2. rest \in [1 .. k -> Nat]
    BY <2>0
  <2>3. PICK f : Arranges(f, rest, k)
    BY <1>2, <2>2
  <2> DEFINE from == [i \in 1 .. k + 1 |-> IF i = k + 1 THEN m
                                           ELSE IF f[i] = m THEN k + 1 ELSE f[i]]
  <2>4. /\ f \in [1 .. k -> 1 .. k] /\ \A i, j \in 1 .. k : f[i] = f[j] => i = j
        /\ \A i, j \in 1 .. k : i < j => rest[f[i]] <= rest[f[j]]
    BY <2>3 DEF Arranges
  <2>5. \A x \in 1 .. k : f[x] # k + 1
    <3> TAKE x \in 1 .. k
    <3>1. f[x] \in 1 .. k BY <2>4
    <3> QED BY <2>0, <3>1
  <2>6. /\ from[k + 1] = m
        /\ \A i \in 1 .. k : /\ from[i] = IF f[i] = m THEN k + 1 ELSE f[i]
                             /\ from[i] \in 1 .. k + 1
                             /\ rank[from[i]] = rest[f[i]]
    BY <2>0, <2>4
  <2>7. from \in [1 .. k + 1 -> 1 .. k + 1]
    BY <2>0, <2>4
  <2> HIDE DEF from, rest
  <2>8. ASSUME NEW i \in 1 .. k + 1, NEW j \in 1 .. k + 1, from[i] = from[j] PROVE i = j
    <3>0. \A x \in 1 .. k : from[x] # m
      <4> TAKE x \in 1 .. k
      <4>1. f[x] # k + 1 BY <2>5
      <4> QED BY <2>6, <4>1
    <3>1. CASE i = k + 1 /\ j \in 1 .. k BY <2>6, <2>8, <3>0, <3>1
    <3>2. CASE j = k + 1 /\ i \in 1 .. k BY <2>6, <2>8, <3>0, <3>2
    <3>3. CASE i \in 1 .. k /\ j \in 1 .. k
      <4>1. f[i] # k + 1 /\ f[j] # k + 1
        BY <2>5, <3>3
      <4>2. f[i] = f[j]
        BY <2>6, <2>8, <3>3, <4>1
      <4> QED BY <2>4, <3>3, <4>2
    <3> QED BY <2>0, <3>1, <3>2, <3>3
  <2>9. ASSUME NEW i \in 1 .. k + 1, NEW j \in 1 .. k + 1, i < j
        PROVE  rank[from[i]] <= rank[from[j]]
    <3>1. CASE j = k + 1 BY <2>1, <2>6, <2>7, <3>1
    <3>2. CASE j \in 1 .. k
      <4>1. i \in 1 .. k BY <2>9, <3>2
      <4> QED BY <2>4, <2>6, <2>9, <3>2, <4>1
    <3> QED BY <2>0, <3>1, <3>2
  <2> QED BY <2>7, <2>8, <2>9 DEF Arranges
<1>3. n \in T
  <2> HIDE DEF T
  <2>1. \A k \in 0 .. n : k \in T
    BY <1>1, <1>2, UpTo, Zenon
  <2> QED BY <2>1
<1> QED BY <1>3

\* A sorted array of names has the names of the array, in the order of rank.
LEMMA SortedNames ==
  ASSUME NEW names \in Seq(Name)
  PROVE  /\ Sorted(names) \in Seq(Name)
         /\ Len(Sorted(names)) = Len(names)
         /\ \A i, j \in 1 .. Len(names) :
               i < j => Rank(Sorted(names)[i]) <= Rank(Sorted(names)[j])
<1>1. PICK n \in Nat : names \in [1 .. n -> Name] /\ DOMAIN names = 1 .. n /\ Len(names) = n
  OBVIOUS
<1> DEFINE r == [i \in 1 .. n |-> Rank(names[i])]
<1>2. r \in [1 .. n -> Nat]
  BY <1>1, CanonicalAssumption DEF Rank, Name, Hash
<1> DEFINE P(from) == /\ IsInjective(from)
                      /\ \A i, j \in DOMAIN names :
                            i < j => Rank(names[from[i]]) <= Rank(names[from[j]])
<1>3. \E from \in [DOMAIN names -> DOMAIN names] : P(from)
  <2>1. PICK from : Arranges(from, r, n)
    <3> HIDE DEF r
    <3> QED BY <1>2, ArrangementExists
  <2>2. P(from) /\ from \in [DOMAIN names -> DOMAIN names]
    BY <1>1, <2>1 DEF Arranges, IsInjective
  <2> QED BY <2>2
<1>4. Arrangement(names) \in [DOMAIN names -> DOMAIN names] /\ P(Arrangement(names))
  <2>1. Arrangement(names) = CHOOSE from \in [DOMAIN names -> DOMAIN names] : P(from)
    BY DEF Arrangement
  <2> HIDE DEF P
  <2> QED BY <1>3, <2>1
<1>5. Sorted(names) \in [1 .. n -> Name]
      /\ \A i \in 1 .. n : Sorted(names)[i] = names[Arrangement(names)[i]]
  BY <1>1, <1>4 DEF Sorted
<1> QED BY <1>1, <1>4, <1>5

\* Sorting the sources leaves an envelope an envelope, of the same type and payload.
LEMMA SortedEnvelope ==
  ASSUME NEW env \in Envelope
  PROVE  /\ sortSources(env) \in Envelope
         /\ normalizeForHash(env) \in Envelope
         /\ normalizeForHash(env) # NotHashed
         /\ normalizeForHash(env).type = env.type
         /\ normalizeForHash(env).payload = env.payload
<1>1. env.sources \in Seq(Name)
  BY DEF Envelope
<1>2. PICK s \in Seq(Name) : s = Sorted(env.sources)
  BY <1>1, SortedNames
<1>3. "absent" \in Parents
  BY DEF Parents
<1>4. sortSources(env) = [env EXCEPT !.sources = s]
  BY <1>2 DEF sortSources
<1>5. normalizeForHash(env) = [env EXCEPT !.sources = s, !.parents = "absent"]
  BY <1>2 DEF normalizeForHash
<1>6. normalizeForHash(env) # NotHashed
  <2>1. "type" \in DOMAIN normalizeForHash(env) BY <1>5 DEF Envelope
  <2>2. "type" \notin DOMAIN NotHashed BY DEF NotHashed
  <2> QED BY <2>1, <2>2
<1> QED BY <1>2, <1>3, <1>4, <1>5, <1>6 DEF Envelope

\* What is hashed is remembered, under a hash that nothing else has.
DigestOK == digest \in [Hash -> Envelope \cup {NotHashed}]
\* Remembering a form under one of its hashes keeps the digests typed.
LEMMA Remembered ==
  ASSUME DigestOK, NEW env \in Envelope, NEW h \in contentHashFromEnvelope(env),
         Remember(h, env)
  PROVE  /\ h \in Hash
         /\ DigestOK'
         /\ digest'[h] = normalizeForHash(env)
         /\ \A k \in Hash : digest[k] # NotHashed => digest'[k] = digest[k]
<1>1. PICK form \in Envelope : form = normalizeForHash(env) /\ form # NotHashed
  BY SortedEnvelope
<1>2. digest' = [digest EXCEPT ![h] = form]
  BY <1>1 DEF Remember, canonicalize
<1>3. h \in Hash /\ (digest[h] = form \/ digest[h] = NotHashed)
  BY <1>1 DEF contentHashFromEnvelope, Hashes, canonicalize
<1> QED BY <1>1, <1>2, <1>3 DEF DigestOK

\* The types of the sandbox are right; the lists of parents hold hashes, whatever
\* spelling they came in.
LEMMA SandboxTypesInit == Init => TypeOK
<1> SUFFICES ASSUME Init PROVE TypeOK
  OBVIOUS
<1>1. StoreOK
  BY InitIInv DEF IInv
<1> QED BY <1>1, VirtualRegistryAssumption
        DEF Init, InitDigest, TypeOK, CallState, StoreOK

\* Every step of the sandbox keeps the types.
LEMMA SandboxTypesStep == TypeOK /\ IInv' /\ [Next]_vars => TypeOK'
<1> SUFFICES ASSUME TypeOK, IInv', [Next]_vars PROVE TypeOK'
  OBVIOUS
<1>0. DigestOK /\ store' \in [Hash -> StoredBlock]
  BY DEF TypeOK, DigestOK, IInv, StoreOK
<1>1. ASSUME NEW c \in Call, NEW env \in Submitted, NEW curator \in Curator,
             registerEnvelope(c, env, curator)
      PROVE  TypeOK'
  <2>1. PICK h \in contentHashFromEnvelope(env) :
          /\ Remember(h, env) /\ resets' = resets
          /\ \E isNew \in BOOLEAN : calls' = [calls EXCEPT ![c] = Hashing(h, env, isNew)]
    BY <1>1 DEF registerEnvelope, RegisterNew, RegisterKnown
  <2>2. env \in Envelope
    BY VirtualRegistryAssumption
  <2>3. h \in Hash /\ DigestOK'
    BY <1>0, <2>1, <2>2, Remembered
  <2>4. \A isNew \in BOOLEAN : Hashing(h, env, isNew) \in CallState
    BY <2>2, <2>3, SortedEnvelope
       DEF Hashing, CallState, TypeOK, cidV1FromCanonical, canonicalize
  <2>5. calls' \in [Call -> CallState]
    BY <2>1, <2>4 DEF TypeOK
  <2> QED BY <1>0, <2>1, <2>3, <2>5 DEF TypeOK, DigestOK
<1>2. ASSUME NEW c \in Call, AnswerCall(c) PROVE TypeOK'
  <2>1. [calls[c] EXCEPT !.status = "answered"] \in CallState
    BY <1>2 DEF AnswerCall, TypeOK, CallState, Idle
  <2> QED BY <1>0, <1>2, <2>1 DEF AnswerCall, TypeOK
<1>3. CASE reset
  BY <1>0, <1>3, VirtualRegistryAssumption DEF reset, TypeOK, CallState
<1>4. CASE UNCHANGED vars
  BY <1>4 DEF vars, TypeOK
<1> QED BY <1>1, <1>2, <1>3, <1>4 DEF Next

\* Type correctness of the sandbox: the store, the digests and the pending
\* calls of registerEnvelope keep their types, for any envelopes.
THEOREM SandboxTypeCorrect == Spec => []TypeOK
BY SandboxTypesInit, SandboxTypesStep, Invariance, PTL DEF Spec

-----------------------------------------------------------------------------
(* Shares of the parents.                                                    *)

\* Rounding to the nearest integer is off by half at most.
LEMMA RoundNear ==
  ASSUME NEW num \in Nat, NEW den \in Nat \ {0}
  PROVE  /\ Round(num, den) \in Nat
         /\ 2 * den * Round(num, den) <= 2 * num + den
         /\ 2 * num <= 2 * den * Round(num, den) + den
<1>1. 2 * num + den \in Nat /\ 2 * den \in Nat \ {0}
  OBVIOUS
<1>2. PICK q : q = (2 * num + den) \div (2 * den)
  OBVIOUS
<1>3. q \in Nat /\ (2 * den) * q <= 2 * num + den /\ 2 * num + den < (2 * den) * q + 2 * den
  BY <1>1, <1>2, DivBounds
<1>4. Round(num, den) = q
  BY <1>2 DEF Round
<1>5. (2 * den) * q \in Nat /\ 2 * den * q = (2 * den) * q
  BY <1>3, SMT
<1> QED BY <1>3, <1>4, <1>5

\* What publishDerived puts into the envelope and the links, for given arguments.
WeightsOf(in) == Weights(in, Len(in.names))
\* What publishDerived is given: names, and natural weights.
LEMMA WeightsOK ==
  ASSUME NEW in \in Inputs
  PROVE  /\ in.names \in Seq(Name)
         /\ WeightsOf(in) \in Seq(Nat)
         /\ \A i \in 1 .. Len(in.names) : WeightAt(WeightsOf(in), i) \in Nat
         /\ TotalWeight(WeightsOf(in)) \in Nat \ {0}
<1>1. in \in DerivedInput
  BY SdkClientAssumption
<1>2. in.names \in Seq(Name) /\ in.weights \in Seq(Nat)
  BY <1>1 DEF DerivedInput
<1>3. PICK w \in Seq(Nat) : w = WeightsOf(in)
  <2>1. Len(in.names) \in Nat BY <1>2
  <2>2. [i \in 1 .. Len(in.names) |-> 1] \in Seq(Nat) BY <2>1
  <2> QED BY <1>2, <2>2 DEF WeightsOf, Weights
<1>4. \A i \in 1 .. Len(in.names) : WeightAt(w, i) \in Nat
  BY DEF WeightAt
<1>5. Len(w) \in Nat /\ \A i \in 1 .. Len(w) : w[i] \in Nat
  OBVIOUS
<1>6. SumTo(w, Len(w)) \in Nat
  BY <1>5, SumNat, Zenon
<1> QED BY <1>2, <1>3, <1>4, <1>6 DEF TotalWeight

\* The envelope that publishDerived builds has its payload's type.
LEMMA DerivedEnvelopeOK ==
  ASSUME NEW in \in Inputs
  PROVE  /\ DerivedEnvelope(in) \in Envelope
         /\ DerivedEnvelope(in).type = DerivedEnvelope(in).payload.type
         /\ DerivedEnvelope(in).sources \in Seq(Name)
         /\ Len(DerivedEnvelope(in).sources) = Len(in.names)
         /\ Sorted(AllPrefixed(in.names)) = AllPrefixed(in.names) =>
               \A i \in 1 .. Len(in.names) :
                  DerivedEnvelope(in).sources[i].kb = in.names[i].kb
<1>1. in \in DerivedInput
  BY SdkClientAssumption
<1>2. in.names \in Seq(Name) /\ in.payload \in Payload /\ in.body \in Body
  BY <1>1 DEF DerivedInput
<1>3. PICK n \in Nat : in.names \in [1 .. n -> Name] /\ Len(in.names) = n
  BY <1>2
<1>4. PICK given \in Seq(Name) :
        /\ given = AllPrefixed(in.names) /\ Len(given) = n
        /\ \A i \in 1 .. n : given[i].kb = in.names[i].kb
  <2>1. AllPrefixed(in.names) \in [1 .. n -> Name]
        /\ \A i \in 1 .. n : AllPrefixed(in.names)[i].kb = in.names[i].kb
    BY <1>3 DEF AllPrefixed, Prefixed, Name
  <2> QED BY <2>1
<1>5. PICK s \in Seq(Name) : s = Sorted(given) /\ Len(s) = n
  BY <1>4, SortedNames
<1>6. PICK t \in Seq(Name) : t = Sorted(s) /\ Len(t) = n
  BY <1>5, SortedNames
<1> DEFINE e == [ type |-> in.payload.type, body |-> in.body, payload |-> in.payload,
                  sources |-> s, derivation |-> [present |-> TRUE, inputs |-> given],
                  parents |-> "absent" ]
<1>7. DerivedEnvelope(in) = [e EXCEPT !.sources = t]
  <2>1. DerivedEnvelope(in) = sortSources(e)
    BY <1>4, <1>5 DEF DerivedEnvelope, buildDerivedEnvelope
  <2>2. sortSources(e) = [e EXCEPT !.sources = Sorted(e.sources)]
    BY DEF sortSources
  <2>3. e.sources = s
    OBVIOUS
  <2> HIDE DEF e
  <2> QED BY <1>6, <2>1, <2>2, <2>3
<1>8. in.payload.type \in KBType
  BY <1>2 DEF Payload
<1>9. DerivedEnvelope(in) = [e EXCEPT !.sources = t] /\ e \in Envelope
  BY <1>2, <1>7, <1>8 DEF Envelope, Derivation, Parents
<1>10. DerivedEnvelope(in).type = in.payload.type /\ DerivedEnvelope(in).payload = in.payload
       /\ DerivedEnvelope(in).sources = t
  BY <1>7
<1>11. DerivedEnvelope(in) \in Envelope
  BY <1>6, <1>9 DEF Envelope
<1>12. \A i \in 1 .. n : Sorted(given) = given => t[i].kb = in.names[i].kb
  BY <1>4, <1>5, <1>6
<1> HIDE DEF e
<1> QED BY <1>3, <1>4, <1>6, <1>10, <1>11, <1>12

\* The links of a derived block: one for each source, with a rounded share.
LEMMA DerivedLinksOK ==
  ASSUME NEW in \in Inputs
  PROVE  LET links   == DerivedLinks(in, DerivedEnvelope(in).sources)
             weights == WeightsOf(in)
             total   == TotalWeight(weights)
         IN  /\ links \in Seq(Attribution) /\ Len(links) = Len(in.names)
             /\ \A i \in 1 .. Len(in.names) :
                  /\ links[i].parent = DerivedEnvelope(in).sources[i].kb
                  /\ links[i].bps = Round(WeightAt(weights, i) * ClientBps, total)
<1>1. PICK s \in Seq(Name) : s = DerivedEnvelope(in).sources /\ Len(s) = Len(in.names)
  BY DerivedEnvelopeOK
<1>n. PICK n \in Nat : n = Len(in.names)
  BY <1>1
<1>0. s \in [1 .. n -> Name] /\ DOMAIN s = 1 .. n
  BY <1>1, <1>n
<1>2. PICK total \in Nat \ {0}, weights \in Seq(Nat) :
        /\ weights = WeightsOf(in) /\ total = TotalWeight(weights)
        /\ \A i \in 1 .. n : WeightAt(weights, i) \in Nat
  BY <1>n, WeightsOK
<1>3. \A i \in 1 .. n : Round(WeightAt(weights, i) * ClientBps, total) \in Nat
  <2> TAKE i \in 1 .. n
  <2>1. WeightAt(weights, i) * ClientBps \in Nat BY <1>2, SMT DEF ClientBps
  <2> QED BY <1>2, <2>1, RoundNear
<1> DEFINE links == [i \in 1 .. n |->
                       [ parent |-> s[i].kb,
                         bps    |-> Round(WeightAt(weights, i) * ClientBps, total) ]]
<1>4. DerivedLinks(in, s) = links
  BY <1>0, <1>1, <1>2, <1>n DEF DerivedLinks, WeightsOf
<1>5. links \in [1 .. n -> Attribution]
  BY <1>0, <1>3 DEF Attribution, Name
<1>6. \A i \in 1 .. n : /\ links[i].parent = s[i].kb
                        /\ links[i].bps = Round(WeightAt(weights, i) * ClientBps, total)
  OBVIOUS
<1>7. links \in Seq(Attribution) /\ Len(links) = n
  <2> HIDE DEF links
  <2> QED BY <1>0, <1>5
<1> HIDE DEF links
<1> QED BY <1>1, <1>2, <1>4, <1>6, <1>7, <1>n

-----------------------------------------------------------------------------
(* The inductive invariant of the clients.                                   *)

\* What the registry recorded of a block fits the envelope that was hashed.
RecordsOK ==
  \A h \in published : /\ digest[h] # NotHashed
                       /\ recorded[h].kbType = CANONICAL_TYPE_TO_U8(digest[h].type)

\* A publication is of an envelope that was hashed, with the links of the arguments.
FromInput(c) ==
  \E in \in Inputs : /\ digest[op[c].kb] = normalizeForHash(DerivedEnvelope(in))
                     /\ op[c].links = DerivedLinks(in, DerivedEnvelope(in).sources)
\* What was accepted stays so, but for the hash, the stake and the shares.
WellGiven(call) ==
  /\ call.texts
  /\ \A i \in DOMAIN call.links : call.links[i].parent \in published \ {call.kb}
PublicationOK(c) ==
  op[c].kind \in {"derive", "publish"} =>
    /\ digest[op[c].kb] # NotHashed
    /\ op[c].record.kbType = CANONICAL_TYPE_TO_U8(digest[op[c].kb].type)
    /\ op[c].kind = "derive" => FromInput(c)
    /\ op[c].kind = "publish" =>
         \E names \in ParentNames \ {<< >>} : op[c].links = CommandLineLinks(names)
    /\ op[c].at = "sent" => WellGiven(op[c])

\* What a query keeps was eligible, and stays so except for slashing.
Fits(c, h) == /\ h \in Matching(op[c].intent) \ op[c].since
              /\ recorded[h].trustTier <= op[c].intent.minTrustTier
QueryOK(c) ==
  op[c].kind = "query" =>
    /\ op[c].since \subseteq slashed /\ op[c].unread \subseteq Matching(op[c].intent)
    /\ \A v \in op[c].valid : Fits(c, v.kb)
    /\ op[c].answer # 0 => Fits(c, op[c].answer)

\* The fee that was read is still the fee.
SettlementOK(c) ==
  op[c].kind = "settle" /\ op[c].at \in {"quoted", "sent"} =>
    op[c].kb \in published /\ op[c].value = price[op[c].kb]

CallsOK(c) == PublicationOK(c) /\ QueryOK(c) /\ SettlementOK(c)
ClientInv == ClientTypeOK /\ RecordsOK /\ \A c \in Client : CallsOK(c)

\* What no step takes back: publication with its price and record, slashing, hashing.
Keeps ==
  /\ published \subseteq published' /\ slashed \subseteq slashed'
  /\ \A h \in published : price'[h] = price[h] /\ recorded'[h] = recorded[h]
  /\ \A h \in Hash : digest[h] # NotHashed => digest'[h] = digest[h]

\* A call is of one kind.
LEMMA Kinds ==
  ASSUME NEW call \in {NoCall} \cup Publishing \cup Querying \cup Settlement
  PROVE  /\ call.kind \in {"idle", "derive", "publish", "query", "settle"}
         /\ call.kind = "idle" => call = NoCall
         /\ call.kind \in {"derive", "publish"} => call \in Publishing
         /\ call.kind = "query" => call \in Querying
         /\ call.kind = "settle" => call \in Settlement
BY DEF NoCall, Publishing, Querying, Settlement

\* A client that does nothing is not disturbed by the others.
LEMMA CallKept ==
  ASSUME ClientTypeOK, Keeps, NEW c \in Client, op'[c] = op[c], CallsOK(c)
  PROVE  CallsOK(c)'
<1>1. PICK call \in {NoCall} \cup Publishing \cup Querying \cup Settlement :
        op[c] = call /\ op'[c] = call
  BY DEF ClientTypeOK
<1>2. PublicationOK(c)'
  <2> SUFFICES ASSUME call.kind \in {"derive", "publish"} PROVE PublicationOK(c)'
    BY <1>1 DEF PublicationOK
  <2>1. call.kb \in Hash /\ digest[call.kb] # NotHashed
    BY <1>1, Kinds DEF Publishing, CallsOK, PublicationOK
  <2>2. digest'[call.kb] = digest[call.kb]
    BY <2>1 DEF Keeps
  <2>3. WellGiven(call) => WellGiven(call)'
    BY DEF WellGiven, Keeps
  <2> QED BY <1>1, <2>1, <2>2, <2>3 DEF CallsOK, PublicationOK, FromInput
<1>3. QueryOK(c)'
  <2> SUFFICES ASSUME call.kind = "query" PROVE QueryOK(c)'
    BY <1>1 DEF QueryOK
  <2>1. \A h \in Matching(call.intent) :
          h \in Matching(call.intent)' /\ recorded'[h] = recorded[h]
    BY DEF Matching, Keeps
  <2>2. \A h : Fits(c, h) => Fits(c, h)'
    BY <1>1, <2>1 DEF Fits
  <2>3. call.since \subseteq slashed' /\ call.unread \subseteq Matching(call.intent)'
    BY <1>1, <2>1 DEF CallsOK, QueryOK, Keeps
  <2>4. \A v \in call.valid : Fits(c, v.kb)'
    BY <1>1, <2>2 DEF CallsOK, QueryOK
  <2>5. call.answer # 0 => Fits(c, call.answer)'
    BY <1>1, <2>2 DEF CallsOK, QueryOK
  <2> QED BY <1>1, <2>3, <2>4, <2>5 DEF QueryOK, Fits
<1>4. SettlementOK(c)'
  BY <1>1 DEF CallsOK, SettlementOK, Keeps
<1> QED BY <1>2, <1>3, <1>4 DEF CallsOK

\* A step of one client, whose own call stays right, keeps the invariant.
LEMMA StepOf ==
  ASSUME ClientInv, Keeps, ClientTypeOK', RecordsOK', NEW c \in Client, CallsOK(c)',
         \A d \in Client \ {c} : op'[d] = op[d]
  PROVE  ClientInv'
<1>1. ASSUME NEW d \in Client PROVE CallsOK(d)'
  BY CallKept DEF ClientInv
<1> QED BY <1>1 DEF ClientInv

\* A step that disturbs no call keeps the invariant.
LEMMA StepOfOthers ==
  ASSUME ClientInv, Keeps, ClientTypeOK', RecordsOK', op' = op
  PROVE  ClientInv'
<1>1. ASSUME NEW d \in Client PROVE CallsOK(d)'
  BY CallKept DEF ClientInv
<1> QED BY <1>1 DEF ClientInv

\* The clients start well.
LEMMA ClientInvInit == ClientInit => ClientInv
<1> SUFFICES ASSUME ClientInit PROVE ClientInv
  OBVIOUS
<1>1. /\ Bps = 10000 /\ 200 \in 0 .. MaxFeeBps
  BY SdkClientAssumption DEF ClientInit, Chain!Init
<1>2. [kbType |-> 0, trustTier |-> 0] \in TypeAndTier
  BY DEF TypeAndTier
<1>3. ClientTypeOK
  <2>1. << >> \in Seq(Attribution)
    OBVIOUS
  <2>2. parents \in [Hash -> Seq(Attribution)] /\ price \in [Hash -> Nat]
    BY <2>1 DEF ClientInit
  <2>3. published \subseteq Hash /\ slashed \subseteq published /\ feeBps \in 0 .. MaxFeeBps
    BY <1>1 DEF ClientInit, Chain!Init
  <2>4. Chain!Hash = Hash
    BY DEF Chain!Hash, Hash
  <2>5. volume \in [Hash -> Nat] /\ earned \in [Hash -> Nat]
    BY <2>4 DEF ClientInit, Chain!Init
  <2>6. /\ digest \in [Hash -> Envelope \cup {NotHashed}]
        /\ recorded \in [Hash -> TypeAndTier]
        /\ op \in [Client -> {NoCall} \cup Publishing \cup Querying \cup Settlement]
    BY <1>2 DEF ClientInit, InitDigest
  <2>7. minStake \in Nat /\ refusing \subseteq Refusers
    BY SdkClientAssumption DEF ClientInit
  <2> QED BY <2>2, <2>3, <2>5, <2>6, <2>7 DEF ClientTypeOK
<1>4. RecordsOK
  BY DEF RecordsOK, ClientInit, Chain!Init
<1>5. \A c \in Client : CallsOK(c)
  BY DEF ClientInit, NoCall, CallsOK, PublicationOK, QueryOK, SettlementOK
<1> QED BY <1>3, <1>4, <1>5 DEF ClientInv

-----------------------------------------------------------------------------
(* Each action keeps it.                                                     *)

\* The number of a type is the number of the type that the command line puts down.
LEMMA NumberOfType ==
  ASSUME NEW type
  PROVE  /\ CANONICAL_TYPE_TO_U8(type) \in 0 .. 5
         /\ \A env : env.type = type =>
              CANONICAL_TYPE_TO_U8(envelopeToMinimalBlock(env).type) = CANONICAL_TYPE_TO_U8(type)
<1>1. CANONICAL_TYPE_TO_U8(type) \in 0 .. 5
  BY DEF CANONICAL_TYPE_TO_U8
<1>2. DOMAIN KB_TYPE_NAMES = 1 .. 6 /\ 1 \in 1 .. 6 /\ 2 \in 1 .. 6 /\ 3 \in 1 .. 6
      /\ 4 \in 1 .. 6 /\ 5 \in 1 .. 6 /\ 6 \in 1 .. 6
  BY DEF KB_TYPE_NAMES
<1>3. /\ KB_TYPE_NAMES[1] = "practice" /\ KB_TYPE_NAMES[2] = "feature"
      /\ KB_TYPE_NAMES[3] = "stateMachine" /\ KB_TYPE_NAMES[4] = "promptEngineering"
      /\ KB_TYPE_NAMES[5] = "complianceChecklist" /\ KB_TYPE_NAMES[6] = "rubric"
  BY DEF KB_TYPE_NAMES
<1>4. ASSUME NEW env, env.type = type
      PROVE  CANONICAL_TYPE_TO_U8(envelopeToMinimalBlock(env).type) = CANONICAL_TYPE_TO_U8(type)
  <2>1. CASE \E i \in DOMAIN KB_TYPE_NAMES : KB_TYPE_NAMES[i] = env.type
    BY <1>4, <2>1 DEF envelopeToMinimalBlock
  <2>2. CASE ~ \E i \in DOMAIN KB_TYPE_NAMES : KB_TYPE_NAMES[i] = env.type
    <3>1. envelopeToMinimalBlock(env).type = "practice"
      BY <2>2 DEF envelopeToMinimalBlock
    <3>2. type \notin {"practice", "feature", "stateMachine", "promptEngineering",
                       "complianceChecklist", "rubric"}
      BY <1>2, <1>3, <1>4, <2>2
    <3> QED BY <3>1, <3>2 DEF CANONICAL_TYPE_TO_U8
  <2> QED BY <2>1, <2>2
<1> QED BY <1>1, <1>4

\* What the command line records of a file.
LEMMA RecordOfFile ==
  ASSUME NEW env
  PROVE  \E record \in TypeAndTier :
           /\ record = compiledToRegistryArgs(envelopeToMinimalBlock(env))
           /\ record.kbType = CANONICAL_TYPE_TO_U8(env.type)
<1>1. /\ CANONICAL_TYPE_TO_U8(envelopeToMinimalBlock(env).type) = CANONICAL_TYPE_TO_U8(env.type)
      /\ CANONICAL_TYPE_TO_U8(env.type) \in 0 .. 5
  BY NumberOfType, Zenon
<1>2. envelopeToMinimalBlock(env).tier = 0
  BY DEF envelopeToMinimalBlock
<1>3. PICK number \in 0 .. 5 :
        /\ number = CANONICAL_TYPE_TO_U8(envelopeToMinimalBlock(env).type)
        /\ number = CANONICAL_TYPE_TO_U8(env.type)
  BY <1>1, Zenon
<1>4. compiledToRegistryArgs(envelopeToMinimalBlock(env)) = [kbType |-> number, trustTier |-> 0]
  BY <1>2, <1>3, Zenon DEF compiledToRegistryArgs
<1>5. [kbType |-> number, trustTier |-> 0] \in TypeAndTier
  BY DEF TypeAndTier
<1>6. [kbType |-> number, trustTier |-> 0].kbType = CANONICAL_TYPE_TO_U8(env.type)
  BY <1>3
<1> QED BY <1>4, <1>5, <1>6, Zenon

\* The links that the command line builds: equal parts of the whole.
LEMMA CommandLineLinksOK ==
  ASSUME NEW names \in Seq(Name), names # << >>
  PROVE  /\ CommandLineLinks(names) \in Seq(Attribution)
         /\ Len(CommandLineLinks(names)) = Len(names)
         /\ Bps \div Len(names) \in Nat
         /\ Bps < Len(names) * (Bps \div Len(names)) + Len(names)
         /\ \A i \in 1 .. Len(names) : CommandLineLinks(names)[i].bps = Bps \div Len(names)
<1>1. PICK n \in Nat \ {0} : n = Len(names) /\ names \in [1 .. n -> Name]
  OBVIOUS
<1>2. Bps \in Nat
  BY SdkClientAssumption
<1>3. PICK q \in Nat : q = Bps \div n /\ Bps < n * q + n
  BY <1>1, <1>2, DivBounds
<1>4. PICK links \in [1 .. n -> Attribution] :
        links = CommandLineLinks(names) /\ \A i \in 1 .. n : links[i].bps = q
  <2>1. CommandLineLinks(names) = [i \in 1 .. n |-> [parent |-> names[i].kb, bps |-> q]]
    BY <1>1, <1>3 DEF CommandLineLinks
  <2>2. \A i \in 1 .. n : [parent |-> names[i].kb, bps |-> q] \in Attribution
    BY <1>1 DEF Attribution, Name
  <2> QED BY <2>1, <2>2
<1>5. links \in Seq(Attribution) /\ Len(links) = n
  BY <1>1
<1> QED BY <1>1, <1>3, <1>4, <1>5

\* A client that only moves on with its own call.
LEMMA OwnCall ==
  ASSUME ClientInv, UNCHANGED << chainVars, recorded >>, NEW c \in Client,
         NEW call \in {NoCall} \cup Publishing \cup Querying \cup Settlement,
         op' = [op EXCEPT ![c] = call], DigestOK',
         \A h \in Hash : digest[h] # NotHashed => digest'[h] = digest[h],
         CallsOK(c)'
  PROVE  ClientInv'
<1>1. ClientTypeOK'
  BY DEF ClientInv, ClientTypeOK, chainVars, settledVars, DigestOK
<1>2. published \subseteq Hash
  BY DEF ClientInv, ClientTypeOK
<1>3. RecordsOK'
  BY <1>2 DEF ClientInv, RecordsOK, chainVars, settledVars
<1>4. Keeps
  BY DEF Keeps, chainVars, settledVars
<1>5. \A d \in Client \ {c} : op'[d] = op[d]
  BY DEF ClientInv, ClientTypeOK
<1> QED BY <1>1, <1>3, <1>4, <1>5, StepOf

\* A query or a settlement moves on.
LEMMA OwnStep ==
  ASSUME ClientInv, UNCHANGED << chainVars, digest, recorded >>, NEW c \in Client,
         NEW call \in {NoCall} \cup Publishing \cup Querying \cup Settlement,
         op' = [op EXCEPT ![c] = call], CallsOK(c)'
  PROVE  ClientInv'
<1>1. DigestOK'
  BY DEF ClientInv, ClientTypeOK, DigestOK
<1> QED BY <1>1, OwnCall

\* A publication that is sent was accepted; if it was accepted and is not sent, the
\* account lacks the stake.
LEMMA Sending ==
  ASSUME ClientInv, NEW c \in Client,
         NEW kind \in {"derive", "publish"}, NEW h \in Hash, NEW links \in Seq(Attribution),
         NEW record \in TypeAndTier, NEW stake \in Nat, NEW texts \in BOOLEAN,
         Send(c, Publication(kind, h, links, record, stake, texts))
  PROVE  \E call \in Publishing :
           /\ op' = [op EXCEPT ![c] = call] /\ op'[c] = call
           /\ call.kind = kind /\ call.kb = h /\ call.links = links /\ call.record = record
           /\ call.stake = stake /\ call.texts = texts /\ call.at \in {"sent", "failed"}
           /\ call.at = "sent" => Accepted(call)
           /\ call.at = "failed" => ~ call.funded \/ ~ Accepted(call)
<1> DEFINE sent == Publication(kind, h, links, record, stake, texts)
<1>1. PICK funded \in BOOLEAN :
        op' = [op EXCEPT ![c] =
          [sent EXCEPT !.at = IF funded /\ Accepted(sent) THEN "sent" ELSE "failed",
                       !.funded = funded]]
  BY DEF Send
<1>2. PICK at \in {"sent", "failed"} :
        /\ at = IF funded /\ Accepted(sent) THEN "sent" ELSE "failed"
        /\ at = "sent" => Accepted(sent)
        /\ at = "failed" => ~ funded \/ ~ Accepted(sent)
  OBVIOUS
<1> DEFINE call == [sent EXCEPT !.at = at, !.funded = funded]
<1>3. /\ sent \in Publishing /\ sent.kind = kind /\ sent.kb = h /\ sent.links = links
      /\ sent.record = record /\ sent.stake = stake /\ sent.texts = texts
  BY DEF Publication, Publishing
<1> HIDE DEF sent
<1>4. call \in Publishing
  BY <1>3 DEF Publishing, Ended
<1>8. /\ call.kind = kind /\ call.kb = h /\ call.links = links /\ call.record = record
      /\ call.stake = stake /\ call.texts = texts /\ call.at = at /\ call.funded = funded
  BY <1>3 DEF Publishing
<1>5. Accepted(sent) <=> Accepted(call)
  BY <1>3, <1>8 DEF Accepted
<1>6. op' = [op EXCEPT ![c] = call]
  BY <1>1, <1>2
<1> HIDE DEF call
<1>7. op'[c] = call
  BY <1>6 DEF ClientInv, ClientTypeOK
<1> QED BY <1>2, <1>4, <1>5, <1>6, <1>7, <1>8

\* What publishDerived sends: the links of its own envelope.
LEMMA DerivedSent ==
  ASSUME ClientInv, NEW c \in Client, NEW in \in Inputs, publishDerived(c, in)
  PROVE  \E call \in Publishing :
           /\ op' = [op EXCEPT ![c] = call] /\ op'[c] = call
           /\ UNCHANGED << chainVars, recorded >>
           /\ DigestOK' /\ \A k \in Hash : digest[k] # NotHashed => digest'[k] = digest[k]
           /\ call.kind = "derive" /\ digest'[call.kb] # NotHashed
           /\ call.record.kbType = CANONICAL_TYPE_TO_U8(digest'[call.kb].type)
           /\ digest'[call.kb] = normalizeForHash(DerivedEnvelope(in))
           /\ call.links = DerivedLinks(in, DerivedEnvelope(in).sources)
           /\ call.at \in {"sent", "failed"}
           /\ call.at = "sent" => Accepted(call)
           /\ call.at = "failed" => ~ call.funded \/ ~ Accepted(call)
<1>1. PICK env \in Envelope :
        /\ env = DerivedEnvelope(in) /\ env.type = env.payload.type
        /\ env.sources \in Seq(Name) /\ Len(env.sources) = Len(in.names)
  BY DerivedEnvelopeOK
<1>2. PICK h \in contentHashFromEnvelope(env) :
        /\ Remember(h, env) /\ UNCHANGED << chainVars, recorded >>
        /\ Send(c, Publication("derive", h, DerivedLinks(in, env.sources),
             [kbType |-> CANONICAL_TYPE_TO_U8(env.payload.type), trustTier |-> 0],
             in.stake, in.cid /\ in.body \notin Domainless))
  BY <1>1 DEF publishDerived
<1>3. DigestOK
  BY DEF ClientInv, ClientTypeOK, DigestOK
<1>4. /\ h \in Hash /\ DigestOK' /\ digest'[h] = normalizeForHash(env)
      /\ \A k \in Hash : digest[k] # NotHashed => digest'[k] = digest[k]
  BY <1>2, <1>3, Remembered
<1>5. PICK links \in Seq(Attribution) : links = DerivedLinks(in, env.sources)
  BY <1>1, DerivedLinksOK
<1>6. PICK record \in TypeAndTier :
        /\ record = [kbType |-> CANONICAL_TYPE_TO_U8(env.payload.type), trustTier |-> 0]
        /\ record.kbType = CANONICAL_TYPE_TO_U8(env.payload.type)
  <2>1. CANONICAL_TYPE_TO_U8(env.payload.type) \in 0 .. 5
    BY NumberOfType, Zenon
  <2>2. [kbType |-> CANONICAL_TYPE_TO_U8(env.payload.type), trustTier |-> 0] \in TypeAndTier
    BY <2>1 DEF TypeAndTier
  <2> QED BY <2>2, Zenon
<1>7. PICK stake \in Nat, texts \in BOOLEAN :
        stake = in.stake /\ texts = (in.cid /\ in.body \notin Domainless)
  <2>1. in \in DerivedInput
    BY SdkClientAssumption
  <2> QED BY <2>1 DEF DerivedInput
<1>8. PICK call \in Publishing :
        /\ op' = [op EXCEPT ![c] = call] /\ op'[c] = call
        /\ call.kind = "derive" /\ call.kb = h /\ call.links = links /\ call.record = record
        /\ call.at \in {"sent", "failed"}
        /\ call.at = "sent" => Accepted(call)
        /\ call.at = "failed" => ~ call.funded \/ ~ Accepted(call)
  <2>1. Send(c, Publication("derive", h, links, record, stake, texts))
    BY <1>2, <1>5, <1>6, <1>7, Zenon
  <2> QED BY <1>4, <2>1, Sending
<1>9. digest'[h] # NotHashed /\ digest'[h].type = env.type
  BY <1>4, SortedEnvelope
<1>10. call.record.kbType = CANONICAL_TYPE_TO_U8(digest'[h].type)
  BY <1>1, <1>6, <1>8, <1>9, Zenon
<1> QED BY <1>1, <1>2, <1>4, <1>5, <1>8, <1>9, <1>10

\* A publication that has been sent or refused is as it should be.
LEMMA SendingKeeps ==
  ASSUME ClientInv, NEW c \in Client, NEW call \in Publishing,
         op' = [op EXCEPT ![c] = call], op'[c] = call, UNCHANGED << chainVars, recorded >>,
         DigestOK', \A k \in Hash : digest[k] # NotHashed => digest'[k] = digest[k],
         digest'[call.kb] # NotHashed,
         call.record.kbType = CANONICAL_TYPE_TO_U8(digest'[call.kb].type),
         call.kind = "derive" => FromInput(c)',
         call.kind = "publish" =>
           \E names \in ParentNames \ {<< >>} : call.links = CommandLineLinks(names),
         call.at = "sent" => Accepted(call)
  PROVE  ClientInv'
<1>1. call.at = "sent" => WellGiven(call)'
  BY DEF Accepted, WellGiven, chainVars, settledVars
<1>2. PublicationOK(c)'
  BY <1>1 DEF PublicationOK
<1>3. call.kind \in {"derive", "publish"}
  BY DEF Publishing
<1>4. CallsOK(c)'
  BY <1>2, <1>3 DEF CallsOK, QueryOK, SettlementOK
<1> QED BY <1>4, OwnCall

\* publishDerived: what is sent carries the links of its own envelope.
LEMMA PublishDerivedKeeps ==
  ASSUME ClientInv, NEW c \in Client, NEW in \in Inputs, publishDerived(c, in)
  PROVE  ClientInv'
<1>1. PICK call \in Publishing :
        /\ op' = [op EXCEPT ![c] = call] /\ op'[c] = call
        /\ UNCHANGED << chainVars, recorded >>
        /\ DigestOK' /\ \A k \in Hash : digest[k] # NotHashed => digest'[k] = digest[k]
        /\ call.kind = "derive" /\ digest'[call.kb] # NotHashed
        /\ call.record.kbType = CANONICAL_TYPE_TO_U8(digest'[call.kb].type)
        /\ digest'[call.kb] = normalizeForHash(DerivedEnvelope(in))
        /\ call.links = DerivedLinks(in, DerivedEnvelope(in).sources)
        /\ call.at = "sent" => Accepted(call)
  BY DerivedSent
<1>2. FromInput(c)'
  BY <1>1 DEF FromInput
<1> QED BY <1>1, <1>2, SendingKeeps

\* The publish command: what is sent carries equal parts.
LEMMA PublishCommandKeeps ==
  ASSUME ClientInv, NEW c \in Client, NEW env \in Envelopes, NEW names \in ParentNames,
         NEW stake \in Stakes, publishCommand(c, env, names, stake)
  PROVE  ClientInv'
<1>1. env \in Envelope /\ names \in Seq(Name) /\ names # << >> /\ stake \in Nat
  BY SdkClientAssumption DEF publishCommand
<1>2. PICK h \in contentHashFromEnvelope(env) :
        /\ Remember(h, env) /\ UNCHANGED << chainVars, recorded >>
        /\ Send(c, Publication("publish", h, CommandLineLinks(names),
             compiledToRegistryArgs(envelopeToMinimalBlock(env)), stake,
             envelopeToMinimalBlock(env).domain))
  BY DEF publishCommand, publishRegistryCommand, publish
<1>3. DigestOK
  BY DEF ClientInv, ClientTypeOK, DigestOK
<1>4. /\ h \in Hash /\ DigestOK' /\ digest'[h] = normalizeForHash(env)
      /\ \A k \in Hash : digest[k] # NotHashed => digest'[k] = digest[k]
  BY <1>1, <1>2, <1>3, Remembered
<1>5. PICK links \in Seq(Attribution) : links = CommandLineLinks(names)
  BY <1>1, CommandLineLinksOK
<1>6. PICK record \in TypeAndTier :
        /\ record = compiledToRegistryArgs(envelopeToMinimalBlock(env))
        /\ record.kbType = CANONICAL_TYPE_TO_U8(env.type)
  BY RecordOfFile, Zenon
<1>7. PICK texts \in BOOLEAN : texts = envelopeToMinimalBlock(env).domain
  BY DEF envelopeToMinimalBlock
<1>8. PICK call \in Publishing :
        /\ op' = [op EXCEPT ![c] = call] /\ op'[c] = call
        /\ call.kind = "publish" /\ call.kb = h /\ call.links = links /\ call.record = record
        /\ call.at = "sent" => Accepted(call)
  <2>1. Send(c, Publication("publish", h, links, record, stake, texts))
    BY <1>2, <1>5, <1>6, <1>7, Zenon
  <2> QED BY <1>1, <1>4, <2>1, Sending
<1>9. digest'[h] # NotHashed /\ digest'[h].type = env.type
  BY <1>1, <1>4, SortedEnvelope
<1>10. call.record.kbType = CANONICAL_TYPE_TO_U8(digest'[h].type)
  BY <1>6, <1>8, <1>9, Zenon
<1>11. \E given \in ParentNames \ {<< >>} : call.links = CommandLineLinks(given)
  BY <1>1, <1>5, <1>8
<1>12. call.kind # "derive" /\ call.kb = h
  BY <1>8
<1> QED BY <1>2, <1>4, <1>8, <1>9, <1>10, <1>11, <1>12, SendingKeeps

\* Publishing a block that was hashed, with the record of its type.
LEMMA PublishOnChainKeeps ==
  ASSUME ClientInv, NEW h \in Hash, NEW links \in Seq(Attribution), NEW record \in TypeAndTier,
         PublishOnChain(h, links, record), h \notin published,
         DigestOK', digest'[h] # NotHashed,
         record.kbType = CANONICAL_TYPE_TO_U8(digest'[h].type),
         \A k \in Hash : digest[k] # NotHashed => digest'[k] = digest[k],
         op' \in [Client -> {NoCall} \cup Publishing \cup Querying \cup Settlement]
  PROVE  Keeps /\ ClientTypeOK' /\ RecordsOK'
<1>1. ClientTypeOK /\ Price \in Nat
  BY SdkClientAssumption DEF ClientInv
<1>2. /\ published' = published \cup {h} /\ UNCHANGED << feeBps, slashed, volume, earned >>
      /\ parents' = [parents EXCEPT ![h] = links] /\ price' = [price EXCEPT ![h] = Price]
      /\ recorded' = [recorded EXCEPT ![h] = record]
  BY DEF PublishOnChain, Chain!Publish
<1>a. UNCHANGED << minStake, refusing >>
  BY DEF PublishOnChain
<1>3. published \subseteq Hash /\ price \in [Hash -> Nat] /\ recorded \in [Hash -> TypeAndTier]
  BY <1>1 DEF ClientTypeOK
<1>4. Keeps
  BY <1>2, <1>3 DEF Keeps
<1>5. ClientTypeOK'
  BY <1>1, <1>2, <1>a DEF ClientTypeOK, DigestOK
<1>6. RecordsOK'
  BY <1>2, <1>3 DEF ClientInv, RecordsOK
<1> QED BY <1>4, <1>5, <1>6

\* A publication is mined or reverts.
LEMMA MinePublicationKeeps ==
  ASSUME ClientInv, NEW c \in Client, MinePublication(c)
  PROVE  ClientInv'
<1>1. PICK call \in Publishing :
        /\ op[c] = call /\ call.at = "sent" /\ call.kb \in Hash
        /\ call.links \in Seq(Attribution) /\ call.record \in TypeAndTier
  <2>1. op[c] \in {NoCall} \cup Publishing \cup Querying \cup Settlement
        /\ op[c].kind \in {"derive", "publish"} /\ op[c].at = "sent"
    BY DEF MinePublication, ClientInv, ClientTypeOK
  <2>2. op[c] \in Publishing
    BY <2>1, Kinds
  <2> QED BY <2>1, <2>2 DEF Publishing, Ended
<1>a. \A at \in Ended : \E new \in Publishing :
        /\ new = [call EXCEPT !.at = at] /\ new.kind = call.kind /\ new.kb = call.kb
        /\ new.links = call.links /\ new.record = call.record /\ new.at # "sent"
  <2> TAKE at \in Ended
  <2> DEFINE new == [call EXCEPT !.at = at]
  <2>1. new \in Publishing
    BY DEF Publishing
  <2>2. /\ new.kind = call.kind /\ new.kb = call.kb
        /\ new.links = call.links /\ new.record = call.record /\ new.at # "sent"
    BY DEF Publishing, Ended
  <2> HIDE DEF new
  <2> QED BY <2>1, <2>2 DEF new
<1>2. PublicationOK(c)
  BY DEF ClientInv, CallsOK
<1>3. DigestOK /\ digest' = digest /\ call.kind \in {"derive", "publish"}
  BY <1>1 DEF MinePublication, ClientInv, ClientTypeOK, DigestOK
<1>4. ASSUME NEW new \in Publishing, op' = [op EXCEPT ![c] = new],
             new.kind = call.kind, new.kb = call.kb,
             new.links = call.links, new.record = call.record, new.at # "sent"
      PROVE  CallsOK(c)'
  <2>1. op'[c] = new
    BY <1>4 DEF ClientInv, ClientTypeOK
  <2> QED BY <1>1, <1>2, <1>3, <1>4, <2>1
          DEF CallsOK, PublicationOK, FromInput, QueryOK, SettlementOK
<1>5. CASE Accepted(call)
  <2>1. /\ PublishOnChain(call.kb, call.links, call.record)
        /\ op' = [op EXCEPT ![c] = [call EXCEPT !.at = "done"]]
    BY <1>1, <1>5 DEF MinePublication
  <2>a. PICK new \in Publishing :
          /\ new = [call EXCEPT !.at = "done"] /\ new.kind = call.kind /\ new.kb = call.kb
          /\ new.links = call.links /\ new.record = call.record /\ new.at # "sent"
    BY <1>a DEF Ended
  <2>2. CallsOK(c)'
    BY <1>4, <2>1, <2>a
  <2>3. op' \in [Client -> {NoCall} \cup Publishing \cup Querying \cup Settlement]
    BY <2>1, <2>a DEF ClientInv, ClientTypeOK
  <2>4. call.kb \notin published
    BY <1>5 DEF Accepted
  <2>5. /\ digest'[call.kb] # NotHashed
        /\ call.record.kbType = CANONICAL_TYPE_TO_U8(digest'[call.kb].type)
    BY <1>1, <1>2, <1>3 DEF PublicationOK
  <2>6. DigestOK' /\ \A k \in Hash : digest[k] # NotHashed => digest'[k] = digest[k]
    BY <1>3 DEF DigestOK
  <2>7. Keeps /\ ClientTypeOK' /\ RecordsOK'
    BY <1>1, <2>1, <2>3, <2>4, <2>5, <2>6, PublishOnChainKeeps
  <2>8. \A d \in Client \ {c} : op'[d] = op[d]
    BY <2>1 DEF ClientInv, ClientTypeOK
  <2> QED BY <2>2, <2>7, <2>8, StepOf
<1>6. CASE ~ Accepted(call)
  <2>1. /\ UNCHANGED << chainVars, recorded >>
        /\ op' = [op EXCEPT ![c] = [call EXCEPT !.at = "failed"]]
    BY <1>1, <1>6 DEF MinePublication
  <2>a. PICK new \in Publishing :
          /\ new = [call EXCEPT !.at = "failed"] /\ new.kind = call.kind /\ new.kb = call.kb
          /\ new.links = call.links /\ new.record = call.record /\ new.at # "sent"
    BY <1>a DEF Ended
  <2>2. CallsOK(c)'
    BY <1>4, <2>1, <2>a
  <2> QED BY <1>3, <2>1, <2>2, <2>a, OwnStep
<1> QED BY <1>5, <1>6

\* Somebody else publishes a source block.
LEMMA OthersPublishKeeps ==
  ASSUME ClientInv, NEW env \in Envelopes, OthersPublish(env)
  PROVE  ClientInv'
<1>1. env \in Envelope
  BY SdkClientAssumption
<1>2. PICK h \in contentHashFromEnvelope(env) :
        /\ h \notin published /\ Remember(h, env) /\ op' = op
        /\ PublishOnChain(h, << >>, compiledToRegistryArgs(envelopeToMinimalBlock(env)))
  BY DEF OthersPublish
<1>3. DigestOK
  BY DEF ClientInv, ClientTypeOK, DigestOK
<1>4. /\ h \in Hash /\ DigestOK' /\ digest'[h] = normalizeForHash(env)
      /\ \A k \in Hash : digest[k] # NotHashed => digest'[k] = digest[k]
  BY <1>1, <1>2, <1>3, Remembered
<1>5. PICK record \in TypeAndTier :
        /\ record = compiledToRegistryArgs(envelopeToMinimalBlock(env))
        /\ record.kbType = CANONICAL_TYPE_TO_U8(env.type)
  BY RecordOfFile, Zenon
<1>6. digest'[h] # NotHashed /\ digest'[h].type = env.type
  BY <1>1, <1>4, SortedEnvelope
<1>7. << >> \in Seq(Attribution)
  OBVIOUS
<1>8. op' \in [Client -> {NoCall} \cup Publishing \cup Querying \cup Settlement]
  BY <1>2 DEF ClientInv, ClientTypeOK
<1>9. Keeps /\ ClientTypeOK' /\ RecordsOK'
  BY <1>2, <1>4, <1>5, <1>6, <1>7, <1>8, PublishOnChainKeeps
<1> QED BY <1>2, <1>9, StepOfOthers

\* A query picks its candidates.
LEMMA QueryKeeps ==
  ASSUME ClientInv, NEW c \in Client, NEW intent \in QueryIntent, query(c, intent)
  PROVE  ClientInv'
<1>1. published \subseteq Hash /\ slashed \subseteq published
  BY DEF ClientInv, ClientTypeOK
<1>2. Matching(intent) \subseteq published
  BY DEF Matching
<1>3. PICK C \in SUBSET Matching(intent) :
        op' = [op EXCEPT ![c] =
         [ kind |-> "query", at |-> IF C = {} THEN "done" ELSE "reading",
           intent |-> intent, unread |-> C, valid |-> {}, answer |-> 0,
           since |-> slashed ]]
  BY DEF query, Candidates
<1>4. PICK call \in Querying :
        /\ op' = [op EXCEPT ![c] = call] /\ call.kind = "query" /\ call.intent = intent
        /\ call.unread = C /\ call.valid = {} /\ call.answer = 0 /\ call.since = slashed
  <2> DEFINE at   == IF C = {} THEN "done" ELSE "reading"
             call == [ kind |-> "query", at |-> at, intent |-> intent, unread |-> C,
                       valid |-> {}, answer |-> 0, since |-> slashed ]
  <2>1. at \in {"reading"} \cup Ended /\ C \in SUBSET Hash /\ slashed \in SUBSET Hash
    BY <1>1, <1>2 DEF Ended
  <2>2. call \in Querying
    BY <2>1 DEF Querying
  <2>3. /\ call.kind = "query" /\ call.intent = intent
        /\ call.unread = C /\ call.valid = {} /\ call.answer = 0 /\ call.since = slashed
    OBVIOUS
  <2>4. op' = [op EXCEPT ![c] = call]
    BY <1>3
  <2> HIDE DEF call
  <2> QED BY <2>2, <2>3, <2>4
<1>5. op'[c] = call /\ UNCHANGED << chainVars, digest, recorded >>
  BY <1>4 DEF ClientInv, ClientTypeOK, query
<1>6. C \subseteq Matching(intent)' /\ slashed' = slashed
  BY <1>5 DEF Matching, chainVars, settledVars
<1>7. QueryOK(c)'
  BY <1>4, <1>5, <1>6 DEF QueryOK
<1>8. CallsOK(c)'
  BY <1>4, <1>5, <1>7 DEF CallsOK, PublicationOK, SettlementOK
<1> QED BY <1>4, <1>5, <1>8, OwnStep

\* While a query is on its way.
LEMMA QueryInProgress ==
  ASSUME ClientInv, NEW c \in Client, op[c].kind = "query"
  PROVE  op[c] \in Querying /\ QueryOK(c)
<1>1. op[c] \in {NoCall} \cup Publishing \cup Querying \cup Settlement
  BY DEF ClientInv, ClientTypeOK
<1> QED BY <1>1, Kinds DEF ClientInv, CallsOK

\* A candidate is read: only those that fit stay.
LEMMA ReadCandidateKeeps ==
  ASSUME ClientInv, NEW c \in Client, ReadCandidate(c)
  PROVE  ClientInv'
<1>1. PICK call \in Querying : op[c] = call
  BY QueryInProgress DEF ReadCandidate
<1>2. /\ call.intent \in QueryIntent /\ call.unread \subseteq Hash
      /\ call.valid \subseteq [kb : Hash, score : Scores] /\ call.kind = "query"
  BY <1>1 DEF Querying
<1>3. QueryOK(c)
  BY <1>1, <1>2, QueryInProgress
<1>4. PICK h \in call.unread, score \in Scores, answers \in BOOLEAN :
        op' = [op EXCEPT ![c] =
             [call EXCEPT !.unread = @ \ {h},
                          !.valid = IF answers /\ Eligible(call.intent, h, score)
                                      THEN @ \cup {[kb |-> h, score |-> score]}
                                      ELSE @]]
  BY <1>1 DEF ReadCandidate
<1>5. PICK valid \in SUBSET [kb : Hash, score : Scores] :
        /\ op' = [op EXCEPT ![c] = [call EXCEPT !.unread = call.unread \ {h}, !.valid = valid]]
        /\ \A v \in valid : v \in call.valid \/ (v.kb = h /\ Eligible(call.intent, h, score))
  <2>1. CASE answers /\ Eligible(call.intent, h, score)
    <3>1. [kb |-> h, score |-> score] \in [kb : Hash, score : Scores]
      BY <1>2
    <3>2. call.valid \cup {[kb |-> h, score |-> score]} \in SUBSET [kb : Hash, score : Scores]
      BY <1>2, <3>1
    <3>3. op' = [op EXCEPT ![c] = [call EXCEPT !.unread = call.unread \ {h},
                   !.valid = call.valid \cup {[kb |-> h, score |-> score]}]]
      BY <1>4, <2>1
    <3>4. \A v \in call.valid \cup {[kb |-> h, score |-> score]} :
            v \in call.valid \/ (v.kb = h /\ Eligible(call.intent, h, score))
      BY <2>1
    <3> QED BY <3>2, <3>3, <3>4, Zenon
  <2>2. CASE ~ (answers /\ Eligible(call.intent, h, score))
    <3>1. op' = [op EXCEPT ![c] = [call EXCEPT !.unread = call.unread \ {h},
                                               !.valid = call.valid]]
      BY <1>4, <2>2
    <3> QED BY <1>2, <3>1
  <2> QED BY <2>1, <2>2
<1>6. PICK new \in Querying :
        /\ op' = [op EXCEPT ![c] = new] /\ new.kind = "query" /\ new.intent = call.intent
        /\ new.unread = call.unread \ {h} /\ new.valid = valid
        /\ new.answer = call.answer /\ new.since = call.since
  <2> DEFINE new == [call EXCEPT !.unread = call.unread \ {h}, !.valid = valid]
  <2>1. new \in Querying
    BY <1>2, <1>5 DEF Querying
  <2>2. /\ new.kind = "query" /\ new.intent = call.intent
        /\ new.unread = call.unread \ {h} /\ new.valid = valid
        /\ new.answer = call.answer /\ new.since = call.since
    BY DEF Querying
  <2>3. op' = [op EXCEPT ![c] = new]
    BY <1>5
  <2> HIDE DEF new
  <2> QED BY <2>1, <2>2, <2>3
<1>7. op'[c] = new /\ UNCHANGED << chainVars, digest, recorded >>
  BY <1>6 DEF ClientInv, ClientTypeOK, ReadCandidate
<1>8. Matching(call.intent)' = Matching(call.intent) /\ slashed' = slashed
  BY <1>7 DEF Matching, chainVars, settledVars
<1>9. \A k : Fits(c, k) => Fits(c, k)'
  BY <1>1, <1>6, <1>7, <1>8 DEF Fits
<1>10. Eligible(call.intent, h, score) => Fits(c, h)
  BY <1>1, <1>2, <1>3 DEF Eligible, Fits, QueryOK
<1>11. \A v \in valid : Fits(c, v.kb)
  BY <1>1, <1>2, <1>3, <1>5, <1>10 DEF QueryOK
<1>12. QueryOK(c)'
  BY <1>1, <1>2, <1>3, <1>6, <1>7, <1>8, <1>9, <1>11 DEF QueryOK
<1>13. CallsOK(c)'
  BY <1>6, <1>7, <1>12 DEF CallsOK, PublicationOK, SettlementOK
<1> QED BY <1>6, <1>7, <1>13, OwnStep

\* A query ends: its answer is one of those that stayed.
LEMMA AnswerQueryKeeps ==
  ASSUME ClientInv, NEW c \in Client, AnswerQuery(c)
  PROVE  ClientInv'
<1>1. PICK call \in Querying : op[c] = call
  BY QueryInProgress DEF AnswerQuery
<1>2. /\ call.intent \in QueryIntent /\ call.unread \subseteq Hash
      /\ call.valid \subseteq [kb : Hash, score : Scores] /\ call.kind = "query"
      /\ call.answer \in Hash \cup {0}
  BY <1>1 DEF Querying
<1>3. QueryOK(c)
  BY <1>1, <1>2, QueryInProgress
<1>4. PICK at \in Ended, answer \in Hash \cup {0} :
        /\ op' = [op EXCEPT ![c] = [call EXCEPT !.at = at, !.answer = answer]]
        /\ answer = call.answer \/ \E v \in call.valid : answer = v.kb
  <2>1. CASE op' = [op EXCEPT ![c].at = "done"] \/ op' = [op EXCEPT ![c].at = "failed"]
    <3>1. op' = [op EXCEPT ![c] = [call EXCEPT !.at = "done", !.answer = call.answer]]
          \/ op' = [op EXCEPT ![c] = [call EXCEPT !.at = "failed", !.answer = call.answer]]
      BY <1>1, <2>1 DEF Querying
    <3> QED BY <1>2, <3>1 DEF Ended
  <2>2. ASSUME NEW v \in call.valid, op' = [op EXCEPT ![c].at = "done", ![c].answer = v.kb]
        PROVE  \E at \in Ended, answer \in Hash \cup {0} :
                 /\ op' = [op EXCEPT ![c] = [call EXCEPT !.at = at, !.answer = answer]]
                 /\ answer = call.answer \/ \E w \in call.valid : answer = w.kb
    <3>1. op' = [op EXCEPT ![c] = [call EXCEPT !.at = "done", !.answer = v.kb]]
      BY <1>1, <2>2 DEF ClientInv, ClientTypeOK
    <3>2. v.kb \in Hash \cup {0}
      BY <1>2
    <3> QED BY <3>1, <3>2 DEF Ended
  <2>3. semanticRank(call.valid) \subseteq call.valid /\ byScore(call.valid) \subseteq call.valid
    BY DEF semanticRank, byScore
  <2> QED BY <1>1, <2>1, <2>2, <2>3 DEF AnswerQuery
<1>5. PICK new \in Querying :
        /\ op' = [op EXCEPT ![c] = new] /\ new.kind = "query" /\ new.intent = call.intent
        /\ new.unread = call.unread /\ new.valid = call.valid
        /\ new.answer = answer /\ new.since = call.since
  <2> DEFINE new == [call EXCEPT !.at = at, !.answer = answer]
  <2>1. new \in Querying
    BY <1>2, <1>4 DEF Querying
  <2>2. /\ new.kind = "query" /\ new.intent = call.intent
        /\ new.unread = call.unread /\ new.valid = call.valid
        /\ new.answer = answer /\ new.since = call.since
    BY DEF Querying
  <2>3. op' = [op EXCEPT ![c] = new]
    BY <1>4
  <2> HIDE DEF new
  <2> QED BY <2>1, <2>2, <2>3
<1>6. op'[c] = new /\ UNCHANGED << chainVars, digest, recorded >>
  BY <1>5 DEF ClientInv, ClientTypeOK, AnswerQuery
<1>7. Matching(call.intent)' = Matching(call.intent) /\ slashed' = slashed
  BY <1>6 DEF Matching, chainVars, settledVars
<1>8. \A k : Fits(c, k) => Fits(c, k)'
  BY <1>1, <1>5, <1>6, <1>7 DEF Fits
<1>9. answer # 0 => Fits(c, answer)
  BY <1>1, <1>2, <1>3, <1>4 DEF QueryOK
<1>10. QueryOK(c)'
  BY <1>1, <1>2, <1>3, <1>5, <1>6, <1>7, <1>8, <1>9 DEF QueryOK
<1>11. CallsOK(c)'
  BY <1>5, <1>6, <1>10 DEF CallsOK, PublicationOK, SettlementOK
<1> QED BY <1>5, <1>6, <1>11, OwnStep

\* A settlement in any of its stages.
LEMMA SettlingKeeps ==
  ASSUME ClientInv, NEW c \in Client, NEW call \in Settlement,
         op' = [op EXCEPT ![c] = call], UNCHANGED << chainVars, digest, recorded >>,
         call.at \in {"quoted", "sent"} => call.kb \in published /\ call.value = price[call.kb]
  PROVE  ClientInv'
<1>1. call.kind = "settle"
  BY DEF Settlement
<1>2. op'[c] = call
  BY DEF ClientInv, ClientTypeOK
<1>3. CallsOK(c)'
  BY <1>1, <1>2 DEF CallsOK, PublicationOK, QueryOK, SettlementOK, chainVars, settledVars
<1> QED BY <1>3, OwnStep

\* A settlement between its steps.
LEMMA SettlingOK ==
  ASSUME NEW h \in Hash, NEW value \in Nat, NEW at \in {"quoting", "quoted", "sent"} \cup Ended
  PROVE  \E call \in Settlement : /\ call = Settling(h, at, value) /\ call.kind = "settle"
                                 /\ call.at = at /\ call.kb = h /\ call.value = value
<1>1. Settling(h, at, value) \in Settlement
  BY DEF Settling, Settlement
<1>2. /\ Settling(h, at, value).kind = "settle" /\ Settling(h, at, value).at = at
      /\ Settling(h, at, value).kb = h /\ Settling(h, at, value).value = value
  BY DEF Settling
<1> QED BY <1>1, <1>2

\* While a settlement is on its way.
LEMMA SettlementInProgress ==
  ASSUME ClientInv, NEW c \in Client, op[c].kind = "settle"
  PROVE  /\ op[c] \in Settlement /\ op[c].kb \in Hash /\ op[c].value \in Nat
         /\ SettlementOK(c)
<1>1. PICK call : call = op[c] /\ call \in {NoCall} \cup Publishing \cup Querying \cup Settlement
  BY DEF ClientInv, ClientTypeOK
<1>2. call \in Settlement
  BY <1>1, Kinds
<1> QED BY <1>1, <1>2 DEF Settlement, ClientInv, CallsOK

\* A settlement that goes on is one still.
LEMMA SettlementMoves ==
  ASSUME NEW call \in Settlement, NEW at \in {"quoting", "quoted", "sent"} \cup Ended
  PROVE  \E new \in Settlement :
           /\ new = [call EXCEPT !.at = at] /\ new.kind = "settle" /\ new.at = at
           /\ new.kb = call.kb /\ new.value = call.value
<1> DEFINE new == [call EXCEPT !.at = at]
<1>1. new \in Settlement
  BY DEF Settlement
<1>2. /\ new.kind = "settle" /\ new.at = at
      /\ new.kb = call.kb /\ new.value = call.value
  BY DEF Settlement
<1> HIDE DEF new
<1> QED BY <1>1, <1>2 DEF new

\* A settlement begins.
LEMMA SettleCitationKeeps ==
  ASSUME ClientInv, NEW c \in Client, NEW h \in Hash, settleCitation(c, h)
  PROVE  ClientInv'
<1>1. PICK call \in Settlement : call = Settling(h, "quoting", 0) /\ call.at = "quoting"
  BY SettlingOK
<1> QED BY <1>1, SettlingKeeps DEF settleCitation

\* The fee that is read is the fee for good.
LEMMA ReadFeeKeeps ==
  ASSUME ClientInv, NEW c \in Client, ReadFee(c)
  PROVE  ClientInv'
<1>1. PICK h \in Hash : h = op[c].kb
  BY SettlementInProgress DEF ReadFee
<1>2. price[h] \in Nat
  BY DEF ClientInv, ClientTypeOK
<1>3. UNCHANGED << chainVars, digest, recorded >>
  BY DEF ReadFee
<1>4. CASE h \in published
  <2>1. op' = [op EXCEPT ![c] = Settling(h, "quoted", price[h])]
    BY <1>1, <1>4 DEF ReadFee
  <2>2. PICK call \in Settlement : /\ call = Settling(h, "quoted", price[h])
                                   /\ call.kb = h /\ call.value = price[h]
    BY <1>2, SettlingOK
  <2> QED BY <1>3, <1>4, <2>1, <2>2, SettlingKeeps
<1>5. CASE h \notin published
  <2>1. op' = [op EXCEPT ![c] = Settling(h, "failed", 0)]
    BY <1>1, <1>5 DEF ReadFee
  <2>2. PICK call \in Settlement : call = Settling(h, "failed", 0) /\ call.at = "failed"
    BY SettlingOK DEF Ended
  <2> QED BY <1>3, <2>1, <2>2, SettlingKeeps
<1> QED BY <1>4, <1>5

\* A settlement is sent or its estimate fails.
LEMMA SendSettlementKeeps ==
  ASSUME ClientInv, NEW c \in Client, SendSettlement(c)
  PROVE  ClientInv'
<1>1. PICK call \in Settlement : call = op[c]
  BY SettlementInProgress DEF SendSettlement
<1>2. /\ UNCHANGED << chainVars, digest, recorded >>
      /\ call.kb \in published /\ call.value = price[call.kb]
  BY <1>1, SettlementInProgress DEF SendSettlement, SettlementOK
<1>3. PICK funded \in BOOLEAN, at \in {"sent", "failed"} :
        op' = [op EXCEPT ![c].at = at, ![c].funded = funded]
  BY DEF SendSettlement
<1> DEFINE new == [call EXCEPT !.at = at, !.funded = funded]
<1>4. new \in Settlement
  BY DEF Settlement, Ended
<1>5. new.kb = call.kb /\ new.value = call.value
  BY DEF Settlement
<1>6. op' = [op EXCEPT ![c] = new]
  BY <1>1, <1>3 DEF ClientInv, ClientTypeOK
<1> HIDE DEF new
<1> QED BY <1>2, <1>4, <1>5, <1>6, SettlingKeeps

\* What a settlement pays is not less than nothing.
LEMMA FeePart ==
  ASSUME NEW fee \in Nat, NEW whole \in Nat \ {0}, NEW bps \in 0 .. whole
  PROVE  /\ (fee * bps) \div whole \in Nat
         /\ fee - ((fee * bps) \div whole) \in Nat
<1>1. PICK product \in Nat : product = fee * bps
  BY SMT
<1>2. PICK q \in Nat : q = product \div whole /\ whole * q <= product
  BY DivBounds
<1>3. product <= fee * whole
  <2>1. PICK d \in Nat : whole = bps + d
    <3>1. whole - bps \in Nat /\ whole = bps + (whole - bps) OBVIOUS
    <3> QED BY <3>1
  <2>2. fee * (bps + d) = fee * bps + fee * d /\ fee * d \in Nat
    BY SMT
  <2> QED BY <1>1, <2>1, <2>2
<1>4. q <= fee
  BY <1>2, <1>3
<1>5. (fee * bps) \div whole = q
  BY <1>1, <1>2
<1> QED BY <1>4, <1>5

\* What a settlement adds to volumes and earnings is natural.
LEMMA SettledAmounts ==
  ASSUME ClientTypeOK, NEW h \in Hash, NEW p \in Hash, Chain!Remainder(h) >= 0
  PROVE  Chain!Count(h, p) \in Nat /\ Chain!Gain(h, p) \in Nat
<1>1. PICK links \in Seq(Attribution) : links = parents[h]
  BY DEF ClientTypeOK
<1>2. PICK n \in Nat : n = Len(links) /\ DOMAIN links = 1 .. n
                       /\ \A i \in 1 .. n : links[i].bps \in Nat
  <2>1. \A i \in 1 .. Len(links) : links[i] \in Attribution
    OBVIOUS
  <2> QED BY <2>1 DEF Attribution
<1>3. Bps = 10000 /\ feeBps \in 0 .. 10000 /\ price[h] \in Nat
  BY SdkClientAssumption DEF ClientTypeOK
<1>4. PICK amount \in Nat : amount = Chain!Distributable(h)
  <2>1. PICK fee \in Nat, whole \in Nat \ {0} : fee = price[h] /\ whole = Bps
    BY <1>3
  <2>2. PICK bps \in 0 .. whole : bps = feeBps
    BY <1>3, <2>1
  <2>3. fee - ((fee * bps) \div whole) \in Nat
    BY FeePart
  <2>4. Chain!Distributable(h) = fee - ((fee * bps) \div whole)
    BY <2>1, <2>2 DEF Chain!Distributable
  <2> QED BY <2>3, <2>4
<1>5. \A i \in 1 .. n : Chain!Share(h, i) \in Nat
  <2> TAKE i \in 1 .. n
  <2>1. amount * links[i].bps \in Nat BY <1>2, SMT
  <2>2. (amount * links[i].bps) \div 10000 \in Nat BY <2>1, DivBounds
  <2> QED BY <1>1, <1>3, <1>4, <2>2 DEF Chain!Share
<1>6. PICK shares \in [1 .. n -> Nat] :
        shares = [i \in DOMAIN parents[h] |-> Chain!Share(h, i)]
  BY <1>1, <1>2, <1>5
<1>7. SumTo(shares, n) \in Nat
  BY SumNat
<1>a. \A g, k : Chain!SumTo(g, k) = SumTo(g, k)
  BY DEF Chain!SumTo, SumTo
<1>8. Chain!Remainder(h) \in Nat
  <2>1. Chain!Remainder(h) = amount - SumTo(shares, n)
    BY <1>1, <1>2, <1>4, <1>6, <1>a DEF Chain!Remainder
  <2> QED BY <1>7, <2>1
<1>9. PICK gains \in [1 .. n -> Nat] :
        gains = [i \in DOMAIN parents[h] |->
                   IF parents[h][i].parent = p THEN Chain!Share(h, i) ELSE 0]
  BY <1>1, <1>2, <1>5
<1>10. PICK counts \in [1 .. n -> Nat] :
        counts = [i \in DOMAIN parents[h] |->
                   IF parents[h][i].parent = p /\ Chain!Share(h, i) > 0 THEN 1 ELSE 0]
  BY <1>1, <1>2
<1>11. SumTo(gains, n) \in Nat /\ SumTo(counts, n) \in Nat
  BY SumNat
<1>12. Chain!Gain(h, p) \in Nat
  <2>1. Chain!Gain(h, p) = SumTo(gains, n) + (IF p = h THEN Chain!Remainder(h) ELSE 0)
    BY <1>1, <1>2, <1>9, <1>a DEF Chain!Gain
  <2> QED BY <1>8, <1>11, <2>1
<1>13. Chain!Count(h, p) \in Nat
  <2>1. Chain!Count(h, p) = SumTo(counts, n) + (IF p = h THEN 1 ELSE 0)
    BY <1>1, <1>2, <1>10, <1>a DEF Chain!Count
  <2> QED BY <1>11, <2>1
<1> QED BY <1>12, <1>13

\* A settlement is mined or reverts.
LEMMA MineSettlementKeeps ==
  ASSUME ClientInv, NEW c \in Client, MineSettlement(c)
  PROVE  ClientInv'
<1>1. PICK h \in Hash, value \in Nat : h = op[c].kb /\ value = op[c].value
  BY SettlementInProgress DEF MineSettlement
<1>2. op[c].kind = "settle" /\ UNCHANGED << digest, recorded >>
  BY DEF MineSettlement
<1>a. PICK call \in Settlement : call = op[c]
  BY <1>2, SettlementInProgress
<1>3. CASE Payable(h, value)
  <2>1. /\ Chain!Settle(h) /\ UNCHANGED << slashed, feeBps, minStake, refusing >>
        /\ op' = [op EXCEPT ![c].at = "done"]
    BY <1>1, <1>3 DEF MineSettlement
  <2>2. PICK new \in Settlement :
          new = [call EXCEPT !.at = "done"] /\ new.kind = "settle" /\ new.at = "done"
    BY SettlementMoves DEF Ended
  <2>3. op' = [op EXCEPT ![c] = new]
    BY <1>a, <2>1, <2>2 DEF ClientInv, ClientTypeOK
  <2>4. /\ ClientTypeOK /\ \A p \in Hash : Chain!Count(h, p) \in Nat /\ Chain!Gain(h, p) \in Nat
    BY <2>1, SettledAmounts DEF ClientInv, Chain!Settle
  <2>5. volume' \in [Hash -> Nat] /\ earned' \in [Hash -> Nat]
    <3>1. Chain!Hash = Hash
      BY DEF Chain!Hash, Hash
    <3>2. /\ volume' = [p \in Hash |-> volume[p] + Chain!Count(h, p)]
          /\ earned' = [p \in Hash |-> earned[p] + Chain!Gain(h, p)]
      BY <2>1, <3>1 DEF Chain!Settle
    <3>3. \A p \in Hash : volume[p] \in Nat /\ earned[p] \in Nat
      BY <2>4 DEF ClientTypeOK
    <3>4. \A p \in Hash : /\ volume[p] + Chain!Count(h, p) \in Nat
                          /\ earned[p] + Chain!Gain(h, p) \in Nat
      BY <2>4, <3>3
    <3> QED BY <3>2, <3>4
  <2>6. UNCHANGED << published, parents, price, slashed, feeBps >>
    BY <2>1 DEF Chain!Settle
  <2>7. ClientTypeOK'
    BY <1>2, <2>1, <2>2, <2>3, <2>4, <2>5, <2>6 DEF ClientTypeOK
  <2>8. Keeps /\ RecordsOK'
    BY <1>2, <2>6 DEF Keeps, ClientInv, RecordsOK
  <2>9. op'[c] = new /\ \A d \in Client \ {c} : op'[d] = op[d]
    BY <2>3, <2>4 DEF ClientTypeOK
  <2>10. CallsOK(c)'
    BY <2>2, <2>9 DEF CallsOK, PublicationOK, QueryOK, SettlementOK
  <2> QED BY <2>7, <2>8, <2>9, <2>10, StepOf
<1>4. CASE ~ Payable(h, value)
  <2>1. UNCHANGED chainVars /\ op' = [op EXCEPT ![c].at = "failed"]
    BY <1>1, <1>4 DEF MineSettlement
  <2>2. PICK new \in Settlement : new = [call EXCEPT !.at = "failed"] /\ new.at = "failed"
    BY SettlementMoves DEF Ended
  <2>3. op' = [op EXCEPT ![c] = new]
    BY <1>a, <2>1, <2>2 DEF ClientInv, ClientTypeOK
  <2> QED BY <1>2, <2>1, <2>2, <2>3, SettlingKeeps
<1> QED BY <1>3, <1>4

\* The owner slashes, or sets the fee or the minimum stake.
LEMMA GovernKeeps ==
  ASSUME ClientInv, Govern
  PROVE  ClientInv'
<1>1. /\ UNCHANGED << refusing, digest, recorded, op, published, parents, price, volume, earned >>
      /\ slashed \subseteq slashed' /\ feeBps' \in 0 .. MaxFeeBps
      /\ slashed' \subseteq published /\ minStake' \in Nat
  BY SdkClientAssumption DEF Govern, Chain!Govern, Chain!Governed, ClientInv, ClientTypeOK
<1>2. ClientTypeOK'
  BY <1>1 DEF ClientInv, ClientTypeOK
<1>3. Keeps /\ RecordsOK'
  BY <1>1 DEF Keeps, ClientInv, RecordsOK
<1> QED BY <1>1, <1>2, <1>3, StepOfOthers

\* A curator changes its mind.
LEMMA ChangeMindKeeps ==
  ASSUME ClientInv, NEW h \in Refusers, ChangeMind(h)
  PROVE  ClientInv'
<1>1. /\ UNCHANGED << settledVars, minStake, digest, recorded, op >>
      /\ refusing' \subseteq Refusers
  BY DEF ChangeMind, ClientInv, ClientTypeOK
<1>2. ClientTypeOK'
  BY <1>1 DEF ClientInv, ClientTypeOK, settledVars
<1>3. Keeps /\ RecordsOK'
  BY <1>1 DEF Keeps, ClientInv, RecordsOK, settledVars
<1> QED BY <1>1, <1>2, <1>3, StepOfOthers

\* Every step keeps the invariant of the clients.
LEMMA ClientInvStep == ClientInv /\ [ClientNext]_clientVars => ClientInv'
<1> SUFFICES ASSUME ClientInv, [ClientNext]_clientVars PROVE ClientInv'
  OBVIOUS
<1>1. ASSUME NEW c \in Client, Begin(c) PROVE ClientInv'
  <2>1. ASSUME NEW in \in Inputs, publishDerived(c, in) PROVE ClientInv'
    BY <2>1, PublishDerivedKeeps
  <2>2. ASSUME NEW env \in Envelopes, NEW names \in ParentNames, NEW stake \in Stakes,
               publishCommand(c, env, names, stake)
        PROVE  ClientInv'
    BY <2>2, PublishCommandKeeps
  <2>3. ASSUME NEW intent \in Intents, query(c, intent) PROVE ClientInv'
    BY <2>3, QueryKeeps, SdkClientAssumption
  <2>4. ASSUME NEW byDomain \in BOOLEAN, queryCommand(c, byDomain) PROVE ClientInv'
    <3>1. [byType |-> FALSE, kbType |-> 0, byDomain |-> byDomain, minScore |-> 0,
           minTrustTier |-> 2, llm |-> FALSE] \in QueryIntent
      BY DEF QueryIntent
    <3> QED BY <2>4, <3>1, QueryKeeps DEF queryCommand
  <2>5. ASSUME NEW h \in Hash, settleCitation(c, h) PROVE ClientInv'
    BY <2>5, SettleCitationKeeps
  <2> QED BY <1>1, <2>1, <2>2, <2>3, <2>4, <2>5 DEF Begin
<1>2. ASSUME NEW c \in Client, Progress(c) PROVE ClientInv'
  BY <1>2, MinePublicationKeeps, ReadCandidateKeeps, AnswerQueryKeeps, ReadFeeKeeps,
     SendSettlementKeeps, MineSettlementKeeps DEF Progress
<1>3. ASSUME NEW env \in Envelopes, OthersPublish(env) PROVE ClientInv'
  BY <1>3, OthersPublishKeeps
<1>4. CASE Govern
  BY <1>4, GovernKeeps
<1>6. ASSUME NEW h \in Refusers, ChangeMind(h) PROVE ClientInv'
  BY <1>6, ChangeMindKeeps
<1>5. CASE UNCHANGED clientVars
  <2>1. ClientTypeOK' /\ RecordsOK' /\ Keeps
    BY <1>5 DEF clientVars, chainVars, settledVars, ClientInv, ClientTypeOK, RecordsOK, Keeps
  <2> QED BY <1>5, <2>1, StepOfOthers DEF clientVars
<1> QED BY <1>1, <1>2, <1>3, <1>4, <1>5, <1>6 DEF ClientNext

\* The invariant of the clients holds.
LEMMA ClientInvariance == ClientSpec => []ClientInv
BY ClientInvInit, ClientInvStep, PTL DEF ClientSpec

-----------------------------------------------------------------------------
(* The properties of the clients.                                            *)

\* A call changes by a step of its own client.
LEMMA ActsAlone ==
  ASSUME ClientInv, [ClientNext]_clientVars, NEW c \in Client
  PROVE  op'[c] = op[c] \/ Begin(c) \/ Progress(c)
<1>0. op \in [Client -> {NoCall} \cup Publishing \cup Querying \cup Settlement]
  BY DEF ClientInv, ClientTypeOK
<1> SUFFICES ASSUME NEW d \in Client, Begin(d) \/ Progress(d), d # c PROVE op'[c] = op[c]
  <2>1. ASSUME NEW env \in Envelopes, OthersPublish(env) PROVE op' = op
    BY <2>1 DEF OthersPublish
  <2>2. CASE Govern
    BY <2>2 DEF Govern
  <2>3. CASE UNCHANGED clientVars
    BY <2>3 DEF clientVars
  <2>4. ASSUME NEW h \in Refusers, ChangeMind(h) PROVE op' = op
    BY <2>4 DEF ChangeMind
  <2> QED BY <2>1, <2>2, <2>3, <2>4 DEF ClientNext
<1>1. \A call : Send(d, call) => op'[c] = op[c]
  BY <1>0 DEF Send
<1>2. \A intent : query(d, intent) => op'[c] = op[c]
  BY <1>0 DEF query
<1>3. CASE Begin(d)
  <2>1. \A in : publishDerived(d, in) => op'[c] = op[c]
    BY <1>1 DEF publishDerived
  <2>2. \A env, names, stake : publishCommand(d, env, names, stake) => op'[c] = op[c]
    BY <1>1 DEF publishCommand, publishRegistryCommand, publish
  <2>3. \A byDomain : queryCommand(d, byDomain) => op'[c] = op[c]
    BY <1>2 DEF queryCommand
  <2>4. \A h : settleCitation(d, h) => op'[c] = op[c]
    BY <1>0 DEF settleCitation
  <2> QED BY <1>2, <1>3, <2>1, <2>2, <2>3, <2>4 DEF Begin
<1>4. CASE Progress(d)
  <2>1. MinePublication(d) => op'[c] = op[c]
    BY <1>0 DEF MinePublication
  <2>2. ReadCandidate(d) => op'[c] = op[c]
    BY <1>0 DEF ReadCandidate
  <2>3. AnswerQuery(d) => op'[c] = op[c]
    BY <1>0 DEF AnswerQuery
  <2>4. ReadFee(d) \/ SendSettlement(d) \/ MineSettlement(d) => op'[c] = op[c]
    BY <1>0 DEF ReadFee, SendSettlement, MineSettlement
  <2> QED BY <1>4, <2>1, <2>2, <2>3, <2>4 DEF Progress
<1> QED BY <1>3, <1>4

\* In each case the call goes on as a call of a certain kind.
LEMMA NextKind ==
  ASSUME ClientInv, NEW c \in Client
  PROVE  /\ \A in : publishDerived(c, in) => op'[c].kind = "derive"
         /\ \A env, names, stake : publishCommand(c, env, names, stake) => op'[c].kind = "publish"
         /\ \A intent : query(c, intent) => op'[c].kind = "query"
         /\ \A byDomain : queryCommand(c, byDomain) => op'[c].kind = "query"
         /\ \A h : settleCitation(c, h) => op'[c].kind = "settle" /\ op'[c].at = "quoting"
         /\ MinePublication(c) => /\ op[c].kind \in {"derive", "publish"}
                                  /\ op'[c].kind = op[c].kind
                                  /\ op'[c].kb = op[c].kb /\ op'[c].links = op[c].links
                                  /\ op'[c].stake = op[c].stake
                                  /\ op'[c].texts = op[c].texts
         /\ ReadCandidate(c) \/ AnswerQuery(c) =>
              op[c].kind = "query" /\ op'[c].kind = "query"
         /\ ReadFee(c) \/ SendSettlement(c) \/ MineSettlement(c) =>
              op[c].kind = "settle" /\ op'[c].kind = "settle"
<1>0. op \in [Client -> {NoCall} \cup Publishing \cup Querying \cup Settlement]
  BY DEF ClientInv, ClientTypeOK
<1>1. \A kind, h, links, record, stake, texts :
        Send(c, Publication(kind, h, links, record, stake, texts)) => op'[c].kind = kind
  BY <1>0 DEF Send, Publication
<1>2. \A in : publishDerived(c, in) => op'[c].kind = "derive"
  BY <1>1 DEF publishDerived
<1>3. \A env, names, stake : publishCommand(c, env, names, stake) => op'[c].kind = "publish"
  BY <1>1 DEF publishCommand, publishRegistryCommand, publish
<1>4. \A intent : query(c, intent) => op'[c].kind = "query"
  BY <1>0 DEF query
<1>5. \A byDomain : queryCommand(c, byDomain) => op'[c].kind = "query"
  BY <1>4 DEF queryCommand
<1>6. \A h : settleCitation(c, h) => op'[c].kind = "settle" /\ op'[c].at = "quoting"
  BY <1>0 DEF settleCitation, Settling
<1>7. ASSUME MinePublication(c)
      PROVE  /\ op[c].kind \in {"derive", "publish"} /\ op'[c].kind = op[c].kind
             /\ op'[c].kb = op[c].kb /\ op'[c].links = op[c].links
             /\ op'[c].stake = op[c].stake /\ op'[c].texts = op[c].texts
  <2>1. op[c].kind \in {"derive", "publish"}
    BY <1>7 DEF MinePublication
  <2>2. op[c] \in Publishing
    BY <1>0, <2>1, Kinds
  <2>3. \E at : op' = [op EXCEPT ![c].at = at]
    BY <1>7 DEF MinePublication
  <2> QED BY <1>0, <2>1, <2>2, <2>3 DEF Publishing
<1>8. ASSUME ReadCandidate(c) \/ AnswerQuery(c)
      PROVE  op[c].kind = "query" /\ op'[c].kind = "query"
  <2>1. op[c].kind = "query"
    BY <1>8 DEF ReadCandidate, AnswerQuery
  <2>2. op[c] \in Querying
    BY <1>0, <2>1, Kinds
  <2>3. CASE ReadCandidate(c)
    BY <1>0, <2>1, <2>2, <2>3 DEF ReadCandidate, Querying
  <2>4. CASE AnswerQuery(c)
    BY <1>0, <2>1, <2>2, <2>4 DEF AnswerQuery, Querying
  <2> QED BY <1>8, <2>1, <2>3, <2>4
<1>9. ASSUME ReadFee(c) \/ SendSettlement(c) \/ MineSettlement(c)
      PROVE  op[c].kind = "settle" /\ op'[c].kind = "settle"
  <2>1. op[c].kind = "settle"
    BY <1>9 DEF ReadFee, SendSettlement, MineSettlement
  <2>2. op[c] \in Settlement
    BY <1>0, <2>1, Kinds
  <2>3. CASE ReadFee(c)
    BY <1>0, <2>1, <2>2, <2>3 DEF ReadFee, Settling
  <2>4. CASE SendSettlement(c)
    <3>1. \E at, funded : op' = [op EXCEPT ![c].at = at, ![c].funded = funded]
      BY <2>4 DEF SendSettlement
    <3> QED BY <1>0, <2>1, <2>2, <3>1 DEF Settlement
  <2>5. CASE MineSettlement(c)
    <3>1. \E at : op' = [op EXCEPT ![c].at = at]
      BY <2>5 DEF MineSettlement
    <3> QED BY <1>0, <2>1, <2>2, <3>1 DEF Settlement
  <2> QED BY <1>9, <2>1, <2>3, <2>4, <2>5
<1> QED BY <1>2, <1>3, <1>4, <1>5, <1>6, <1>7, <1>8, <1>9

\* A rounded share is the weight's part of 9800, to half a point.
LEMMA NearToWeight ==
  ASSUME NEW weight \in Nat, NEW total \in Nat \ {0}
  PROVE  /\ Near(Round(weight * ClientBps, total), weight, total)
         /\ Round(weight * ClientBps, total) \in Nat
         /\ (2 * total) * Round(weight * ClientBps, total) <= 2 * (weight * ClientBps) + total
<1>0. PICK most \in Nat : most = ClientBps
  BY DEF ClientBps
<1>1. PICK num \in Nat : num = weight * most
  BY SMT
<1>2. PICK bps \in Nat : /\ bps = Round(num, total)
                         /\ 2 * total * bps <= 2 * num + total
                         /\ 2 * num <= 2 * total * bps + total
  BY RoundNear
<1>3. PICK product \in Nat : product = bps * total
  BY SMT
<1>4. 2 * total * bps = 2 * product /\ (2 * total) * bps = 2 * product
  BY <1>3, SMT
<1>5. Near(bps, weight, total)
  <2>1. 2 * (bps * total - weight * ClientBps) = 2 * product - 2 * num
    BY <1>0, <1>1, <1>3
  <2> QED BY <1>2, <1>4, <2>1 DEF Near
<1>6. Round(weight * ClientBps, total) = bps
  BY <1>0, <1>1, <1>2, Zenon
<1>7. (2 * total) * bps <= 2 * (weight * ClientBps) + total
  BY <1>0, <1>1, <1>2, <1>4
<1> QED BY <1>5, <1>6, <1>7, Zenon

\* The invariant implies SharesByWeight.
LEMMA SharesFollowWeights == ClientInv => SharesByWeight
<1> SUFFICES ASSUME ClientInv, NEW c \in Client, op[c].kind = "derive"
             PROVE  \E in \in Inputs :
      LET weights == Weights(in, Len(in.names))
          given   == AllPrefixed(in.names)
      IN  /\ digest[op[c].kb] = normalizeForHash(DerivedEnvelope(in))
          /\ Len(op[c].links) = Len(in.names)
          /\ \A i \in DOMAIN op[c].links :
               /\ Near(op[c].links[i].bps, WeightAt(weights, i), TotalWeight(weights))
               /\ Sorted(given) = given => op[c].links[i].parent = in.names[i].kb
  BY DEF SharesByWeight
<1>1. PICK in \in Inputs : /\ digest[op[c].kb] = normalizeForHash(DerivedEnvelope(in))
                           /\ op[c].links = DerivedLinks(in, DerivedEnvelope(in).sources)
  BY DEF ClientInv, CallsOK, PublicationOK, FromInput
<1> DEFINE weights == Weights(in, Len(in.names))
           given   == AllPrefixed(in.names)
<1>2. weights = WeightsOf(in)
  BY DEF WeightsOf
<1>3. PICK links \in Seq(Attribution) :
        /\ links = op[c].links /\ Len(links) = Len(in.names)
        /\ \A i \in 1 .. Len(in.names) :
             /\ links[i].parent = DerivedEnvelope(in).sources[i].kb
             /\ links[i].bps = Round(WeightAt(weights, i) * ClientBps, TotalWeight(weights))
  BY <1>1, <1>2, DerivedLinksOK
<1>4. DOMAIN links = 1 .. Len(in.names)
  BY <1>3
<1>5. ASSUME NEW i \in 1 .. Len(in.names)
      PROVE  Near(links[i].bps, WeightAt(weights, i), TotalWeight(weights))
  <2> HIDE DEF weights
  <2>1. PICK weight \in Nat, total \in Nat \ {0} :
          weight = WeightAt(weights, i) /\ total = TotalWeight(weights)
    BY <1>2, WeightsOK
  <2>2. links[i].bps = Round(weight * ClientBps, total)
    BY <1>3, <2>1, Zenon
  <2>3. Near(Round(weight * ClientBps, total), weight, total)
    BY NearToWeight, Zenon
  <2> QED BY <2>1, <2>2, <2>3, Zenon
<1>6. ASSUME NEW i \in 1 .. Len(in.names), Sorted(given) = given
      PROVE  links[i].parent = in.names[i].kb
  BY <1>3, <1>6, DerivedEnvelopeOK
<1> HIDE DEF weights, given
<1>7. /\ digest[op[c].kb] = normalizeForHash(DerivedEnvelope(in))
      /\ Len(op[c].links) = Len(in.names)
      /\ \A i \in DOMAIN op[c].links :
           /\ Near(op[c].links[i].bps, WeightAt(weights, i), TotalWeight(weights))
           /\ Sorted(given) = given => op[c].links[i].parent = in.names[i].kb
  BY <1>1, <1>3, <1>4, <1>5, <1>6
<1> QED BY <1>7 DEF weights, given

\* The invariant implies AnswersAreEligible.
LEMMA AnswersFit == ClientInv => AnswersAreEligible
<1> SUFFICES ASSUME ClientInv, NEW c \in Client, op[c].kind = "query", op[c].answer # 0
             PROVE  LET h == op[c].answer
                    IN  /\ h \in published \ op[c].since
                        /\ h \in Matching(op[c].intent)
                        /\ recorded[h].trustTier <= op[c].intent.minTrustTier
                        /\ digest[h].type = digest[h].payload.type =>
                             ( asStructured(h) <=> \E i \in DOMAIN KB_TYPE_NAMES :
                                       KB_TYPE_NAMES[i] = digest[h].payload.type )
  BY DEF AnswersAreEligible
<1>1. PICK h : h = op[c].answer
  OBVIOUS
<1>2. Fits(c, h)
  BY <1>1, QueryInProgress DEF QueryOK
<1>3. h \in published \ op[c].since /\ h \in Matching(op[c].intent)
      /\ recorded[h].trustTier <= op[c].intent.minTrustTier
  BY <1>2 DEF Fits, Matching
<1>4. recorded[h].kbType = CANONICAL_TYPE_TO_U8(digest[h].type)
  BY <1>3 DEF ClientInv, RecordsOK
<1>5. PICK type : type = digest[h].payload.type
  OBVIOUS
<1>6. digest[h].type = type =>
        ( asStructured(h) <=> \E i \in DOMAIN KB_TYPE_NAMES : KB_TYPE_NAMES[i] = type )
  <2> SUFFICES ASSUME digest[h].type = type
               PROVE  asStructured(h) <=> \E i \in 1 .. 6 : KB_TYPE_NAMES[i] = type
    BY DEF KB_TYPE_NAMES
  <2>1. asStructured(h) <=> type = KB_TYPE_NAMES[CANONICAL_TYPE_TO_U8(type) + 1]
    BY <1>4, <1>5 DEF asStructured
  <2>2. CANONICAL_TYPE_TO_U8(type) + 1 \in 1 .. 6
    <3>1. CANONICAL_TYPE_TO_U8(type) \in 0 .. 5 BY NumberOfType, Zenon
    <3> QED BY <3>1
  <2>3. \A i \in 1 .. 6 : KB_TYPE_NAMES[CANONICAL_TYPE_TO_U8(KB_TYPE_NAMES[i]) + 1] = KB_TYPE_NAMES[i]
    BY DEF KB_TYPE_NAMES, CANONICAL_TYPE_TO_U8
  <2> QED BY <2>1, <2>2, <2>3
<1> QED BY <1>1, <1>3, <1>5, <1>6

\* Rounding each share to the nearest point adds half a point for each at most.
LEMMA RoundedShares ==
  ASSUME NEW n \in Nat, NEW w, NEW bps, NEW total \in Nat \ {0},
         \A i \in 1 .. n : w[i] \in Nat,
         \A i \in 1 .. n : bps[i] = Round(w[i] * ClientBps, total),
         SumTo(w, n) <= total
  PROVE  /\ SumTo(bps, n) \in Nat
         /\ 2 * (SumTo(bps, n) - ClientBps) <= n
<1>0. PICK most \in Nat : most = ClientBps
  BY DEF ClientBps
<1>1. \A i \in 1 .. n : /\ bps[i] \in Nat /\ w[i] \in Nat
                        /\ (2 * total) * bps[i] <= 2 * (w[i] * most) + total
  <2> TAKE i \in 1 .. n
  <2>1. PICK weight \in Nat : weight = w[i]
    OBVIOUS
  <2>2. /\ Round(weight * ClientBps, total) \in Nat
        /\ (2 * total) * Round(weight * ClientBps, total) <= 2 * (weight * ClientBps) + total
    BY NearToWeight
  <2>3. bps[i] = Round(weight * ClientBps, total)
    BY <2>1, Zenon
  <2> QED BY <1>0, <2>1, <2>2, <2>3
<1> DEFINE T == {k \in 0 .. n : (2 * total) * SumTo(bps, k) <= 2 * (SumTo(w, k) * most) + k * total}
<1>2. \A k \in 0 .. n : SumTo(bps, k) \in Nat /\ SumTo(w, k) \in Nat
  <2> TAKE k \in 0 .. n
  <2>1. k \in Nat /\ \A i \in 1 .. k : bps[i] \in Nat /\ w[i] \in Nat
    BY <1>1
  <2> QED BY <2>1, SumNat
<1>3. 0 \in T
  <2>1. SumTo(bps, 0) = 0 /\ SumTo(w, 0) = 0
    BY SumZero
  <2>2. (2 * total) * 0 = 0 /\ 0 * most = 0 /\ 0 * total = 0
    OBVIOUS
  <2> QED BY <2>1, <2>2
<1>4. ASSUME NEW k \in 0 .. n - 1, k \in T PROVE k + 1 \in T
  <2>1. k + 1 \in 1 .. n /\ k \in 0 .. n
    OBVIOUS
  <2>2. /\ SumTo(bps, k + 1) = SumTo(bps, k) + bps[k + 1]
        /\ SumTo(w, k + 1) = SumTo(w, k) + w[k + 1]
    <3>1. \A i \in 1 .. n : bps[i] \in Int /\ w[i] \in Int BY <1>1
    <3> QED BY <3>1, SumStep
  <2>3. PICK b \in Nat, v \in Nat : /\ b = bps[k + 1] /\ v = w[k + 1]
                                    /\ (2 * total) * b <= 2 * (v * most) + total
    BY <1>1, <2>1
  <2>4. PICK B \in Nat, V \in Nat : /\ B = SumTo(bps, k) /\ V = SumTo(w, k)
                                    /\ (2 * total) * B <= 2 * (V * most) + k * total
    BY <1>2, <1>4, <2>1
  <2>5. /\ (2 * total) * (B + b) = (2 * total) * B + (2 * total) * b
        /\ (V + v) * most = V * most + v * most
        /\ (k + 1) * total = k * total + total
    BY SMT
  <2>6. V * most \in Nat /\ v * most \in Nat /\ k * total \in Nat
        /\ (2 * total) * B \in Nat /\ (2 * total) * b \in Nat
    BY SMT
  <2>7. (2 * total) * (B + b) <= 2 * ((V + v) * most) + (k + 1) * total
    BY <2>3, <2>4, <2>5, <2>6
  <2> QED BY <2>1, <2>2, <2>3, <2>4, <2>7
<1>5. n \in T
  <2> HIDE DEF T
  <2>1. \A k \in 0 .. n : k \in T
    BY <1>3, <1>4, UpTo, Zenon
  <2> QED BY <2>1
<1>6. PICK B \in Nat, V \in Nat : /\ B = SumTo(bps, n) /\ V = SumTo(w, n) /\ V <= total
                                  /\ (2 * total) * B <= 2 * (V * most) + n * total
  BY <1>2, <1>5
<1>7. V * most <= total * most
  <2>1. PICK d \in Nat : total = V + d
    <3>1. total - V \in Nat /\ total = V + (total - V) BY <1>6
    <3> QED BY <3>1
  <2>2. (V + d) * most = V * most + d * most /\ d * most \in Nat /\ V * most \in Nat
    BY SMT
  <2> QED BY <2>1, <2>2
<1>8. total * (2 * B) <= total * (2 * most + n)
  <2>1. /\ total * (2 * B) = (2 * total) * B
        /\ total * (2 * most + n) = 2 * (total * most) + n * total
        /\ V * most \in Nat /\ total * most \in Nat
    BY SMT
  <2> QED BY <1>6, <1>7, <2>1
<1>9. 2 * B <= 2 * most + n
  <2> SUFFICES ASSUME 2 * B > 2 * most + n PROVE FALSE
    OBVIOUS
  <2>1. PICK d \in Nat \ {0} : 2 * B = 2 * most + n + d
    <3>1. 2 * B - (2 * most + n) \in Nat \ {0}
          /\ 2 * B = 2 * most + n + (2 * B - (2 * most + n)) OBVIOUS
    <3> QED BY <3>1
  <2>2. /\ total * ((2 * most + n) + d) = total * (2 * most + n) + total * d
        /\ total * d > 0 /\ total * d \in Nat /\ total * (2 * most + n) \in Nat
    BY SMT
  <2> QED BY <1>8, <2>1, <2>2
<1> QED BY <1>0, <1>6, <1>9

\* With one weight for each source the shares exceed 9800 by half a point each at most.
LEMMA DerivedSharesBounded ==
  ASSUME NEW in \in Inputs, in.weighted => Len(in.weights) = Len(in.names)
  PROVE  LET links == DerivedLinks(in, DerivedEnvelope(in).sources)
         IN  /\ TotalBps(links) \in Nat
             /\ 2 * (TotalBps(links) - ClientBps) <= Len(links)
<1>1. PICK n \in Nat : n = Len(in.names) /\ in.names \in Seq(Name)
  BY WeightsOK
<1>2. PICK weights \in Seq(Nat) : weights = WeightsOf(in)
  BY WeightsOK
<1>3. Len(weights) = n /\ \A i \in 1 .. n : WeightAt(weights, i) = weights[i]
  <2>1. in.weighted => weights = in.weights
    BY <1>2 DEF WeightsOf, Weights
  <2>2. ~ in.weighted => weights = [i \in 1 .. n |-> 1]
    BY <1>1, <1>2 DEF WeightsOf, Weights
  <2>3. Len(weights) = n
    BY <1>1, <2>1, <2>2
  <2>4. DOMAIN weights = 1 .. n
    BY <2>3
  <2> QED BY <2>3, <2>4 DEF WeightAt
<1>4. \A i \in 1 .. n : weights[i] \in Nat
  BY <1>3
<1>5. PICK total \in Nat \ {0} : total = TotalWeight(weights) /\ SumTo(weights, n) <= total
  <2>1. SumTo(weights, n) \in Nat
    BY <1>4, SumNat
  <2> QED BY <1>3, <2>1 DEF TotalWeight
<1>6. PICK links \in Seq(Attribution) :
        /\ links = DerivedLinks(in, DerivedEnvelope(in).sources) /\ Len(links) = n
        /\ \A i \in 1 .. n : links[i].bps = Round(WeightAt(weights, i) * ClientBps, total)
  BY <1>1, <1>2, <1>5, DerivedLinksOK
<1> DEFINE bps == [i \in DOMAIN links |-> links[i].bps]
<1>7. \A i \in 1 .. n : bps[i] = Round(weights[i] * ClientBps, total)
  <2> TAKE i \in 1 .. n
  <2>1. bps[i] = links[i].bps
    BY <1>6
  <2>2. links[i].bps = Round(WeightAt(weights, i) * ClientBps, total)
    BY <1>6, Zenon
  <2>3. WeightAt(weights, i) = weights[i]
    BY <1>3
  <2> HIDE DEF bps
  <2> QED BY <2>1, <2>2, <2>3, Zenon
<1>8. TotalBps(links) = SumTo(bps, n)
  BY <1>6 DEF TotalBps
<1> HIDE DEF bps
<1>9. SumTo(bps, n) \in Nat /\ 2 * (SumTo(bps, n) - ClientBps) <= n
  BY <1>4, <1>5, <1>7, RoundedShares
<1> QED BY <1>6, <1>8, <1>9

\* One step of DerivedFailsForCause.
DerivedFailure(c) ==
  Fails(c, "derive") =>
    LET call  == op'[c]
        links == call.links
    IN  \/ call.kb \in published
        \/ call.stake < minStake
        \/ /\ TotalBps(links) > Bps - feeBps
           /\ \/ feeBps > Bps - ClientBps
              \/ /\ TotalBps(links) > ClientBps
                 /\ 2 * (TotalBps(links) - ClientBps) <= Len(links)
              \/ \E in \in Inputs :
                   /\ digest'[call.kb] = normalizeForHash(DerivedEnvelope(in))
                   /\ links = DerivedLinks(in, DerivedEnvelope(in).sources)
                   /\ in.weighted /\ Len(in.weights) # Len(in.names)
        \/ /\ op[c].at # "sent"
           /\ \/ \E i \in DOMAIN links : links[i].parent \notin published
              \/ ~ call.texts
              \/ ~ call.funded

\* Shares of publishDerived that are too much.
LEMMA TooMuch ==
  ASSUME ClientInv, NEW in \in Inputs, NEW links,
         links = DerivedLinks(in, DerivedEnvelope(in).sources),
         ~ (TotalBps(links) <= Bps - feeBps),
         ~ (in.weighted /\ Len(in.weights) # Len(in.names))
  PROVE  /\ TotalBps(links) > Bps - feeBps
         /\ \/ feeBps > Bps - ClientBps
            \/ /\ TotalBps(links) > ClientBps
               /\ 2 * (TotalBps(links) - ClientBps) <= Len(links)
<1>1. TotalBps(links) \in Nat /\ 2 * (TotalBps(links) - ClientBps) <= Len(links)
  BY DerivedSharesBounded
<1>2. feeBps \in Nat /\ Bps \in Nat /\ ClientBps \in Nat
  BY SdkClientAssumption DEF ClientInv, ClientTypeOK, ClientBps
<1> QED BY <1>1, <1>2

\* The sum of the shares of publishDerived is a number, whatever the weights.
LEMMA DerivedTotal ==
  ASSUME NEW in \in Inputs
  PROVE  TotalBps(DerivedLinks(in, DerivedEnvelope(in).sources)) \in Nat
<1>1. PICK links \in Seq(Attribution) : links = DerivedLinks(in, DerivedEnvelope(in).sources)
  BY DerivedLinksOK
<1>2. PICK n \in Nat : n = Len(links) /\ DOMAIN links = 1 .. n
  OBVIOUS
<1> DEFINE bps == [i \in DOMAIN links |-> links[i].bps]
<1>3. \A i \in 1 .. n : bps[i] \in Nat
  <2>1. \A i \in 1 .. n : links[i] \in Attribution
    BY <1>2
  <2> QED BY <1>2, <2>1 DEF Attribution
<1>4. TotalBps(links) = SumTo(bps, n)
  BY <1>2 DEF TotalBps
<1> HIDE DEF bps
<1>5. SumTo(bps, n) \in Nat
  BY <1>3, SumNat
<1> QED BY <1>1, <1>4, <1>5

\* What is not accepted has one of the causes; a missing parent or text is found
\* when the gas is estimated.
LEMMA RejectedForCause ==
  ASSUME ClientInv, NEW c \in Client, NEW in \in Inputs,
         digest'[op'[c].kb] = normalizeForHash(DerivedEnvelope(in)),
         op'[c].links = DerivedLinks(in, DerivedEnvelope(in).sources),
         op'[c] \in Publishing,
         ~ Accepted(op'[c]),
         op[c].at = "sent" => WellGiven(op'[c])
  PROVE  DerivedFailure(c)
<1>1. PICK call \in Publishing : call = op'[c]
  OBVIOUS
<1>2. PICK links : links = call.links
  OBVIOUS
<1>3. call.stake \in Nat /\ minStake \in Nat
  BY <1>1 DEF Publishing, ClientInv, ClientTypeOK
<1>4. CASE call.kb \in published
  BY <1>1, <1>4 DEF DerivedFailure
<1>5. CASE ~ (call.stake >= minStake)
  <2>1. call.stake < minStake
    BY <1>3, <1>5
  <2> QED BY <1>1, <2>1 DEF DerivedFailure
<1>6. CASE ~ (TotalBps(links) <= Bps - feeBps)
  <2>1. CASE in.weighted /\ Len(in.weights) # Len(in.names)
    <3>1. TotalBps(links) \in Nat /\ Bps - feeBps \in Int
      BY <1>1, <1>2, DerivedTotal, SdkClientAssumption DEF ClientInv, ClientTypeOK
    <3>2. TotalBps(links) > Bps - feeBps
      BY <1>6, <3>1
    <3> QED BY <1>1, <1>2, <2>1, <3>2 DEF DerivedFailure
  <2>2. CASE ~ (in.weighted /\ Len(in.weights) # Len(in.names))
    BY <1>1, <1>2, <1>6, <2>2, TooMuch DEF DerivedFailure
  <2> QED BY <2>1, <2>2
<1>7. CASE /\ call.kb \notin published
           /\ ~ call.texts \/ \E i \in DOMAIN links : links[i].parent \notin published \ {call.kb}
  <2>1. op[c].at # "sent"
    BY <1>1, <1>2, <1>7 DEF WellGiven
  <2>2. ~ call.texts \/ \E i \in DOMAIN links : links[i].parent \notin published
    BY <1>7
  <2> QED BY <1>1, <1>2, <2>1, <2>2 DEF DerivedFailure
<1>8. \/ call.kb \in published \/ ~ (call.stake >= minStake)
      \/ ~ (TotalBps(links) <= Bps - feeBps)
      \/ ~ call.texts \/ \E i \in DOMAIN links : links[i].parent \notin published \ {call.kb}
  BY <1>1, <1>2 DEF Accepted
<1> QED BY <1>4, <1>5, <1>6, <1>7, <1>8

\* A step in which publishDerived fails has one of the causes.
LEMMA DerivedFailsStep ==
  ASSUME ClientInv, [ClientNext]_clientVars, NEW c \in Client
  PROVE  DerivedFailure(c)
<1>0. op \in [Client -> {NoCall} \cup Publishing \cup Querying \cup Settlement]
  BY DEF ClientInv, ClientTypeOK
<1> SUFFICES ASSUME Fails(c, "derive") PROVE DerivedFailure(c)
  BY DEF DerivedFailure
<1>1. op'[c].kind = "derive" /\ op'[c].at = "failed" /\ op[c].at # "failed"
  BY DEF Fails
<1>2. (\E in \in Inputs : publishDerived(c, in)) \/ MinePublication(c)
  BY <1>1, ActsAlone, NextKind DEF Begin, Progress
<1>3. ASSUME NEW in \in Inputs, publishDerived(c, in) PROVE DerivedFailure(c)
  <2>1. PICK call \in Publishing :
          /\ op'[c] = call
          /\ digest'[call.kb] = normalizeForHash(DerivedEnvelope(in))
          /\ call.links = DerivedLinks(in, DerivedEnvelope(in).sources)
          /\ call.at = "failed" => ~ call.funded \/ ~ Accepted(call)
    BY <1>3, DerivedSent
  <2>2. op[c].at # "sent"
    BY <1>3 DEF publishDerived, NoCall
  <2>3. CASE ~ call.funded
    BY <2>1, <2>2, <2>3 DEF DerivedFailure
  <2>4. CASE ~ Accepted(call)
    BY <2>1, <2>2, <2>4, RejectedForCause
  <2> QED BY <1>1, <2>1, <2>3, <2>4
<1>4. CASE MinePublication(c)
  <2>1. PICK call \in Publishing : call = op[c] /\ call.kind = "derive" /\ call.at = "sent"
    <3>1. op[c].kind = "derive" /\ op[c].at = "sent"
      BY <1>1, <1>4, NextKind DEF MinePublication
    <3> QED BY <1>0, <3>1, Kinds
  <2>2. digest' = digest
    BY <1>4 DEF MinePublication
  <2>3. PICK in \in Inputs : /\ digest[call.kb] = normalizeForHash(DerivedEnvelope(in))
                             /\ call.links = DerivedLinks(in, DerivedEnvelope(in).sources)
    BY <2>1 DEF ClientInv, CallsOK, PublicationOK, FromInput
  <2>4. WellGiven(call)
    BY <2>1 DEF ClientInv, CallsOK, PublicationOK
  <2>5. ~ Accepted(call) /\ op'[c] = [call EXCEPT !.at = "failed"]
    <3>1. op' = [op EXCEPT ![c].at = "done"] => op'[c].at = "done"
      BY <1>0, <2>1 DEF Publishing
    <3> QED BY <1>0, <1>1, <1>4, <2>1, <3>1 DEF MinePublication
  <2>6. PICK new \in Publishing :
          /\ new = op'[c] /\ new.kb = call.kb /\ new.links = call.links
          /\ new.stake = call.stake /\ new.texts = call.texts
    <3>1. [call EXCEPT !.at = "failed"] \in Publishing
      BY DEF Publishing, Ended
    <3> QED BY <2>5, <3>1 DEF Publishing
  <2>7. ~ Accepted(new) /\ WellGiven(new)
    BY <2>4, <2>5, <2>6 DEF Accepted, WellGiven
  <2> QED BY <2>2, <2>3, <2>6, <2>7, RejectedForCause
<1> QED BY <1>2, <1>3, <1>4

\* Equal parts of the whole are almost the whole.
LEMMA EqualParts ==
  ASSUME NEW names \in Seq(Name), names # << >>
  PROVE  /\ TotalBps(CommandLineLinks(names)) \in Nat
         /\ Bps < TotalBps(CommandLineLinks(names)) + Len(names)
<1>1. PICK n \in Nat : n = Len(names)
  OBVIOUS
<1>2. PICK links \in Seq(Attribution), q \in Nat :
        /\ links = CommandLineLinks(names) /\ Len(links) = n
        /\ Bps < n * q + n /\ \A i \in 1 .. n : links[i].bps = q
  BY <1>1, CommandLineLinksOK
<1> DEFINE bps == [i \in DOMAIN links |-> links[i].bps]
           one == [i \in 1 .. n |-> 1]
<1>3. \A i \in 1 .. n : bps[i] = q * one[i] /\ one[i] = 1
  BY <1>2
<1>4. TotalBps(links) = SumTo(bps, n)
  BY <1>2 DEF TotalBps
<1> HIDE DEF bps, one
<1>5. SumTo(one, n) = n
  BY <1>3, SumOfOnes
<1>6. SumTo(bps, n) = q * SumTo(one, n)
  <2>1. \A i \in 1 .. n : one[i] \in Nat BY <1>3
  <2> QED BY <1>3, <2>1, SumScaled
<1>7. q * n = n * q /\ q * n \in Nat
  BY SMT
<1> QED BY <1>1, <1>2, <1>4, <1>5, <1>6, <1>7

\* Equal parts of the whole leave room for the fee only by rounding.
LEMMA CommandLineStep ==
  ASSUME ClientInv, [ClientNext]_clientVars, NEW c \in Client,
         op[c].kind = "publish", op[c].at = "sent", op'[c].at = "done"
  PROVE  feeBps < Len(op[c].links)
<1>0. op \in [Client -> {NoCall} \cup Publishing \cup Querying \cup Settlement]
  BY DEF ClientInv, ClientTypeOK
<1>1. ~ Begin(c)
  <2>1. op[c] # NoCall /\ op[c].kind # "query"
    BY DEF NoCall
  <2>2. \A intent : ~ query(c, intent)
    BY <2>1 DEF query
  <2> QED BY <2>1, <2>2 DEF Begin, publishDerived, publishCommand, queryCommand, settleCitation
<1>2. MinePublication(c)
  BY <1>1, ActsAlone, NextKind DEF Progress
<1>3. Accepted(op[c])
  <2>1. op[c] \in Publishing
    BY <1>0, Kinds
  <2>2. op' = [op EXCEPT ![c].at = "failed"] => op'[c].at = "failed"
    BY <1>0, <2>1 DEF Publishing
  <2> QED BY <1>2, <2>2 DEF MinePublication
<1>4. PICK names \in ParentNames \ {<< >>} : op[c].links = CommandLineLinks(names)
  BY DEF ClientInv, CallsOK, PublicationOK
<1>5. names \in Seq(Name) /\ names # << >>
  BY SdkClientAssumption
<1>6. Len(op[c].links) = Len(names) /\ Len(names) \in Nat
  BY <1>4, <1>5, CommandLineLinksOK
<1>7. TotalBps(op[c].links) \in Nat /\ Bps < TotalBps(op[c].links) + Len(names)
  BY <1>4, <1>5, EqualParts
<1>8. TotalBps(op[c].links) <= Bps - feeBps /\ feeBps \in Nat /\ Bps \in Nat
  BY <1>3, SdkClientAssumption DEF Accepted, ClientInv, ClientTypeOK
<1> QED BY <1>6, <1>7, <1>8

\* One step of SettleFailsForCause.
SettlementFailure(c) ==
  Fails(c, "settle") =>
    LET h == op'[c].kb
    IN  \/ h \notin published /\ op[c].at = "quoting"
        \/ h \in slashed
        \/ Payees(h) \cap refusing # {}
        \/ ~ Countable(h)
        \/ ~ op'[c].funded /\ op[c].at = "quoted"

\* A step in which a settlement fails has one of the causes.
LEMMA SettleFailsStep ==
  ASSUME ClientInv, [ClientNext]_clientVars, NEW c \in Client
  PROVE  SettlementFailure(c)
<1>0. op \in [Client -> {NoCall} \cup Publishing \cup Querying \cup Settlement]
  BY DEF ClientInv, ClientTypeOK
<1> SUFFICES ASSUME Fails(c, "settle") PROVE SettlementFailure(c)
  BY DEF SettlementFailure
<1>1. op'[c].kind = "settle" /\ op'[c].at = "failed" /\ op[c].at # "failed"
  BY DEF Fails
<1>2. ReadFee(c) \/ SendSettlement(c) \/ MineSettlement(c)
  BY <1>1, ActsAlone, NextKind DEF Begin, Progress
<1>3. PICK call \in Settlement : call = op[c] /\ SettlementOK(c) /\ call.kind = "settle"
  BY <1>2, NextKind, SettlementInProgress
<1>4. CASE ReadFee(c)
  <2>1. op[c].at = "quoting"
    BY <1>4 DEF ReadFee
  <2>2. op[c].kb \notin published
    <3> SUFFICES ASSUME op[c].kb \in published PROVE FALSE
      OBVIOUS
    <3>1. op' = [op EXCEPT ![c] = Settling(op[c].kb, "quoted", price[op[c].kb])]
      BY <1>4 DEF ReadFee
    <3> QED BY <1>0, <1>1, <3>1 DEF Settling
  <2>3. op' = [op EXCEPT ![c] = Settling(op[c].kb, "failed", 0)]
    BY <1>4, <2>2 DEF ReadFee
  <2>4. op'[c].kb = op[c].kb
    BY <1>0, <2>3 DEF Settling
  <2> QED BY <2>1, <2>2, <2>4 DEF SettlementFailure
<1>5. ASSUME call.at \in {"quoted", "sent"}, op'[c].kb = call.kb, ~ Payable(call.kb, call.value)
      PROVE  SettlementFailure(c)
  <2>1. call.kb \in published /\ call.value = price[call.kb]
    BY <1>3, <1>5 DEF SettlementOK
  <2>2. call.kb \in slashed \/ Payees(call.kb) \cap refusing # {} \/ ~ Countable(call.kb)
    BY <1>5, <2>1 DEF Payable
  <2> QED BY <1>5, <2>2 DEF SettlementFailure
<1>6. CASE SendSettlement(c)
  <2>1. PICK funded \in BOOLEAN, at \in {"sent", "failed"} :
          /\ at = IF funded /\ Payable(call.kb, call.value) THEN "sent" ELSE "failed"
          /\ op' = [op EXCEPT ![c].at = at, ![c].funded = funded]
    BY <1>3, <1>6 DEF SendSettlement
  <2>2. op'[c].at = at /\ op'[c].funded = funded /\ op'[c].kb = call.kb
    BY <1>0, <1>3, <2>1 DEF Settlement
  <2>3. call.at = "quoted"
    BY <1>3, <1>6 DEF SendSettlement
  <2>4. ~ funded \/ ~ Payable(call.kb, call.value)
    BY <1>1, <2>1, <2>2
  <2>5. CASE ~ funded
    BY <1>3, <2>2, <2>3, <2>5 DEF SettlementFailure
  <2> QED BY <1>5, <2>2, <2>3, <2>4, <2>5
<1>7. CASE MineSettlement(c)
  <2>1. \A at : op' = [op EXCEPT ![c].at = at] => op'[c].at = at /\ op'[c].kb = call.kb
    BY <1>0, <1>3 DEF Settlement
  <2>2. call.at = "sent" /\ op'[c].kb = call.kb /\ ~ Payable(call.kb, call.value)
    BY <1>1, <1>3, <1>7, <2>1 DEF MineSettlement
  <2> QED BY <1>5, <2>2
<1> QED BY <1>2, <1>4, <1>6, <1>7

\* Type correctness of the clients: what publishDerived, publish, query and
\* settleCitation remember across their awaits, and the chain, keep their
\* types.
THEOREM ClientTypeCorrect == ClientSpec => []ClientTypeOK
<1>1. ClientInv => ClientTypeOK BY DEF ClientInv
<1> QED BY <1>1, ClientInvariance, PTL

\* publishDerived gives the i-th weight to the i-th source of the sorted
\* envelope, within half a point; the caller's own order counts only if it was
\* sorted.
THEOREM WeightsGoByIndex == ClientSpec => []SharesByWeight
BY SharesFollowWeights, ClientInvariance, PTL

\* A query answers with a published block that fits its intent and was not
\* slashed when it began, although the block is read in several steps; the
\* payload is readable as the recorded type unless the type has no number.
THEOREM QueriesAnswerEligibly == ClientSpec => []AnswersAreEligible
BY AnswersFit, ClientInvariance, PTL

\* publishDerived fails, whatever other clients, those who publish roots and the owner
\* do between its steps, only for the causes that DerivedFailsForCause lists; when
\* it is mined, only for what changed on the chain since its gas was estimated.
THEOREM DerivationFailsForCause == ClientSpec => DerivedFailsForCause
<1>1. ClientInv /\ [ClientNext]_clientVars => [\A c \in Client : DerivedFailure(c)]_clientVars
  BY DerivedFailsStep
<1>2. ClientSpec => [][\A c \in Client : DerivedFailure(c)]_clientVars
  BY <1>1, ClientInvariance, PTL DEF ClientSpec
<1> QED BY <1>2 DEF DerivedFailsForCause, DerivedFailure

\* The publish command, which divides the whole in equal parts (run.ts:85), succeeds
\* only while the protocol's fee in points is smaller than the number of parents; at
\* 200 that takes more than 200 of them, and no "royalty split 50/50 if two parents"
\* (run.ts:71) is ever made.
THEOREM CommandLineBlocked ==
  ClientSpec =>
    [][\A c \in Client :
         op[c].kind = "publish" /\ op[c].at = "sent" /\ op'[c].at = "done" =>
           feeBps < Len(op[c].links)]_clientVars
<1>1. ClientInv /\ [ClientNext]_clientVars =>
        [\A c \in Client :
           op[c].kind = "publish" /\ op[c].at = "sent" /\ op'[c].at = "done" =>
             feeBps < Len(op[c].links)]_clientVars
  BY CommandLineStep
<1> QED BY <1>1, ClientInvariance, PTL DEF ClientSpec

\* A settlement of a registered block fails, whatever other clients, the owner and
\* the curators do between its steps, only because the block is slashed, a curator
\* who is to be paid refuses, a counter is full, or, when it is sent, the account
\* lacks the fee: what settleCitation pays is right for good.
THEOREM SettlementFailsForCause == ClientSpec => SettleFailsForCause
<1>1. ClientInv /\ [ClientNext]_clientVars => [\A c \in Client : SettlementFailure(c)]_clientVars
  BY SettleFailsStep
<1>2. ClientSpec => [][\A c \in Client : SettlementFailure(c)]_clientVars
  BY <1>1, ClientInvariance, PTL DEF ClientSpec
<1> QED BY <1>2 DEF SettleFailsForCause, SettlementFailure

-----------------------------------------------------------------------------
(* The inductive invariant of the rollout.                                   *)

Known(a) == a \in DOMAIN chain /\ chain[a].kb = None
Addr(a) == a = None \/ Known(a)
SourcesOn(contract, kb) == \A p \in Range(Sources[kb]) : isVerifiedOn(contract, p)

\* A block holds a deployment, or a registration on a contract deployed before.
Event == [ contract : Nat, kb : Seed \cup {None}, curator : {None, Deployer, Stranger},
           parents : Seq(Seed) ]
BlockOK(b) ==
  \/ chain[b] = Deployed(b)
  \/ /\ chain[b].contract \in 1 .. b - 1
     /\ \E kb \in Seed : chain[b] \in
          {KBRegistered(chain[b].contract, kb, Deployer, Sources[kb]),
           KBRegistered(chain[b].contract, kb, Stranger, << >>)}
ChainOK == chain \in Seq(Event) /\ \A b \in DOMAIN chain : BlockOK(b)

\* Whatever address is written down somewhere is that of a contract, and the
\* manifest starts from the block that deployed it.
AddressesOK ==
  /\ Addr(json) /\ Addr(dotenv) /\ Addr(seeded)
  /\ \E stage, contract : deployment = [stage |-> stage, contract |-> contract]
  /\ deployment.stage # "failed" => Known(deployment.contract)
  /\ Addr(yaml.address) /\ (yaml.address # None => yaml.startBlock = yaml.address)

\* A transaction in the mempool has its sources on its contract; the one that the
\* script waits for is the last, and is of the seed at which the script is.
Transaction == [contract : Nat, kb : Seed, awaited : BOOLEAN]
TransactionOK(tx, i) ==
  /\ Known(tx.contract) /\ SourcesOn(tx.contract, tx.kb)
  /\ tx.awaited => /\ seeding.stage = "wait" /\ i = Len(pending)
                   /\ tx.contract = seeding.address /\ tx.kb = seeding.next
PendingOK ==
  /\ pending \in Seq(Transaction)
  /\ \A i \in DOMAIN pending : TransactionOK(pending[i], i)

\* While the script runs, all seeds before the one it is at are registered.
SeedingOK ==
  /\ \E stage, address : \E next \in Seed :
       seeding = [stage |-> stage, address |-> address, next |-> next]
  /\ seeding.stage # "off" =>
       /\ Known(seeding.address)
       /\ \A s \in 1 .. seeding.next - 1 : isVerifiedOn(seeding.address, s)

\* The subgraph holds what its contract registered in the blocks it has read.
Indexed == {kb \in Seed : \E b \in DOMAIN chain :
              b < index.block /\ chain[b].contract = index.address /\ chain[b].kb = kb}
EntityOK(kb) ==
  LET entity == index.entities[kb]
  IN  /\ entity.blockNumber \in DOMAIN chain
      /\ chain[entity.blockNumber] =
           KBRegistered(index.address, kb, entity.curator, entity.parents)
IndexOK ==
  /\ \E address, entities : \E block \in Nat :
       index = [address |-> address, block |-> block, entities |-> entities]
  /\ index.address # None =>
       /\ Known(index.address)
       /\ index.address <= index.block /\ index.block <= Len(chain) + 1
       /\ DOMAIN index.entities = Indexed
       /\ \A kb \in DOMAIN index.entities : EntityOK(kb)

RolloutInv ==
  ChainOK /\ SeedsFollowSources /\ AddressesOK /\ PendingOK /\ SeedingOK /\ IndexOK

\* The chain only grows.
Grows ==
  /\ chain \in Seq(Event) /\ chain' \in Seq(Event) /\ Len(chain) <= Len(chain')
  /\ \A b \in DOMAIN chain : b \in DOMAIN chain' /\ chain'[b] = chain[b]

\* What a longer chain keeps.
LEMMA GrowthKeeps ==
  ASSUME Grows
  PROVE  /\ \A a : Known(a) => Known(a)'
         /\ \A a : Addr(a) => Addr(a)'
         /\ \A a, kb : isVerifiedOn(a, kb) => isVerifiedOn(a, kb)'
         /\ \A a, kb : SourcesOn(a, kb) => SourcesOn(a, kb)'
<1>1. \A a : Known(a) => Known(a)'
  BY DEF Known, Grows
<1>2. \A a, kb : isVerifiedOn(a, kb) => isVerifiedOn(a, kb)'
  BY DEF isVerifiedOn, Grows
<1> QED BY <1>1, <1>2 DEF Addr, SourcesOn

\* A chain that stays, and one that has a block more.
LEMMA ChainStays ==
  ASSUME ChainOK, SeedsFollowSources, chain' = chain
  PROVE  Grows /\ ChainOK' /\ SeedsFollowSources'
<1>1. Grows
  BY DEF Grows, ChainOK
<1>2. ChainOK'
  BY DEF ChainOK, BlockOK
<1>3. SeedsFollowSources'
  BY DEF SeedsFollowSources
<1> QED BY <1>1, <1>2, <1>3

\* A deployment or a registration whose sources are there can be appended.
LEMMA ChainAppended ==
  ASSUME ChainOK, SeedsFollowSources, NEW event \in Event, chain' = Append(chain, event),
         \/ event = Deployed(Len(chain) + 1)
         \/ /\ event.contract \in 1 .. Len(chain)
            /\ \E kb \in Seed : event \in
                 {KBRegistered(event.contract, kb, Deployer, Sources[kb]),
                  KBRegistered(event.contract, kb, Stranger, << >>)},
         \A p \in Range(event.parents) : isVerifiedOn(event.contract, p)
  PROVE  /\ Grows /\ ChainOK' /\ SeedsFollowSources'
         /\ Len(chain') = Len(chain) + 1 /\ DOMAIN chain' = 1 .. Len(chain) + 1
         /\ chain'[Len(chain) + 1] = event
<1>1. /\ chain \in Seq(Event) /\ chain' \in Seq(Event) /\ Len(chain') = Len(chain) + 1
      /\ DOMAIN chain = 1 .. Len(chain) /\ DOMAIN chain' = 1 .. Len(chain) + 1
      /\ chain'[Len(chain) + 1] = event /\ Len(chain) \in Nat
      /\ \A b \in 1 .. Len(chain) : chain'[b] = chain[b]
  BY DEF ChainOK
<1>2. Grows
  BY <1>1 DEF Grows
<1>3. ASSUME NEW b \in DOMAIN chain' PROVE BlockOK(b)'
  <2>1. CASE b \in DOMAIN chain
    <3>1. BlockOK(b) /\ chain'[b] = chain[b]
      BY <1>1, <2>1 DEF ChainOK
    <3> QED BY <3>1 DEF BlockOK
  <2>2. CASE b = Len(chain) + 1
    <3>1. chain'[b] = event /\ b - 1 = Len(chain)
      BY <1>1, <2>2
    <3> QED BY <2>2, <3>1 DEF BlockOK
  <2> QED BY <1>1, <2>1, <2>2
<1>4. ChainOK'
  BY <1>1, <1>3 DEF ChainOK
<1>5. ASSUME NEW b \in DOMAIN chain', chain'[b].curator = Deployer,
             NEW p \in Range(chain'[b].parents)
      PROVE  \E a \in 1 .. b - 1 : chain'[a].contract = chain'[b].contract /\ chain'[a].kb = p
  <2>1. CASE b \in DOMAIN chain
    <3>1. PICK a \in 1 .. b - 1 : chain[a].contract = chain[b].contract /\ chain[a].kb = p
      BY <1>1, <1>5, <2>1 DEF SeedsFollowSources
    <3>2. a \in 1 .. Len(chain)
      BY <1>1, <2>1
    <3> QED BY <1>1, <2>1, <3>1, <3>2
  <2>2. CASE b = Len(chain) + 1
    <3>1. PICK a \in DOMAIN chain : chain[a].contract = event.contract /\ chain[a].kb = p
      BY <1>1, <1>5, <2>2 DEF isVerifiedOn
    <3>2. a \in 1 .. b - 1
      BY <1>1, <2>2
    <3> QED BY <1>1, <2>2, <3>1, <3>2
  <2> QED BY <1>1, <2>1, <2>2
<1>6. SeedsFollowSources'
  BY <1>5 DEF SeedsFollowSources
<1> QED BY <1>1, <1>2, <1>4, <1>6

\* What is written down, sent or indexed is not disturbed by blocks that follow.
LEMMA AddressesKept ==
  ASSUME AddressesOK, Grows, UNCHANGED << json, yaml, dotenv, deployment, seeded >>
  PROVE  AddressesOK'
BY GrowthKeeps DEF AddressesOK

\* Pending transactions stay as good when the chain grows.
LEMMA PendingKept ==
  ASSUME PendingOK, Grows, UNCHANGED << pending, seeding >>
  PROVE  PendingOK'
<1>1. ASSUME NEW i \in DOMAIN pending PROVE TransactionOK(pending[i], i)'
  <2>1. PICK tx \in Transaction : tx = pending[i] /\ TransactionOK(tx, i)
    BY DEF PendingOK
  <2>2. TransactionOK(tx, i)'
    BY <2>1, GrowthKeeps DEF TransactionOK
  <2> QED BY <2>1, <2>2
<1> QED BY <1>1 DEF PendingOK

\* The seed script stays as good when the chain grows.
LEMMA SeedingKept ==
  ASSUME SeedingOK, Grows, UNCHANGED seeding
  PROVE  SeedingOK'
BY GrowthKeeps DEF SeedingOK

\* The subgraph stays as good when the chain grows.
LEMMA IndexKept ==
  ASSUME IndexOK, ChainOK, Grows, UNCHANGED index
  PROVE  IndexOK'
<1> SUFFICES ASSUME index.address # None
             PROVE  /\ Known(index.address)'
                    /\ index.address <= index.block /\ index.block <= Len(chain') + 1
                    /\ DOMAIN index.entities = Indexed'
                    /\ \A kb \in DOMAIN index.entities : EntityOK(kb)'
  BY DEF IndexOK
<1>1. /\ Known(index.address) /\ index.address <= index.block
      /\ index.block <= Len(chain) + 1 /\ index.block \in Nat
      /\ DOMAIN index.entities = Indexed /\ \A kb \in DOMAIN index.entities : EntityOK(kb)
  BY DEF IndexOK
<1>2. /\ DOMAIN chain = 1 .. Len(chain) /\ DOMAIN chain' = 1 .. Len(chain')
      /\ Len(chain) \in Nat /\ Len(chain') \in Nat
      /\ Len(chain) <= Len(chain') /\ \A b \in DOMAIN chain : chain'[b] = chain[b]
  BY DEF Grows
<1>3. \A b : b \in DOMAIN chain' /\ b < index.block <=> b \in DOMAIN chain /\ b < index.block
  BY <1>1, <1>2
<1>4. Indexed' = Indexed
  BY <1>2, <1>3 DEF Indexed
<1>5. \A kb \in DOMAIN index.entities : EntityOK(kb)'
  BY <1>1, <1>2 DEF EntityOK
<1>6. Known(index.address)'
  BY <1>1, <1>2 DEF Known
<1> QED BY <1>1, <1>2, <1>4, <1>5, <1>6

-----------------------------------------------------------------------------
(* Each action keeps it.                                                     *)

\* Nothing is deployed at first.
LEMMA RolloutInvInit == RolloutInit => RolloutInv
<1> SUFFICES ASSUME RolloutInit PROVE RolloutInv
  OBVIOUS
<1>1. 1 \in Seed /\ 0 \in Nat
  BY RolloutAssumption DEF Seed
<1>2. ChainOK /\ SeedsFollowSources
  BY DEF RolloutInit, ChainOK, SeedsFollowSources
<1>3. AddressesOK
  BY DEF RolloutInit, AddressesOK, Addr
<1>4. PendingOK
  BY DEF RolloutInit, PendingOK
<1>5. SeedingOK
  BY <1>1 DEF RolloutInit, SeedingOK
<1>6. IndexOK
  BY <1>1 DEF RolloutInit, IndexOK
<1> QED BY <1>2, <1>3, <1>4, <1>5, <1>6 DEF RolloutInv

\* Another contract is deployed.
LEMMA DeployRegistryKeeps == RolloutInv /\ DeployRegistry => RolloutInv'
<1> SUFFICES ASSUME RolloutInv, DeployRegistry PROVE RolloutInv'
  OBVIOUS
<1>0. PICK a \in Nat : a = Len(chain) + 1
  BY DEF RolloutInv, ChainOK
<1>1. /\ chain' = Append(chain, Deployed(a))
      /\ deployment' = [stage |-> "mined", contract |-> a]
      /\ UNCHANGED << json, yaml, dotenv, seeding, pending, seeded, index >>
  BY <1>0 DEF DeployRegistry
<1>2. PICK event \in Event : event = Deployed(a)
  <2>1. Deployed(a) \in Event
    BY DEF Deployed, Event
  <2> QED BY <2>1
<1>3. event.parents = << >> /\ event.kb = None
  BY <1>2 DEF Deployed
<1>4. \A p \in Range(event.parents) : isVerifiedOn(event.contract, p)
  BY <1>3 DEF Range
<1>5. /\ Grows /\ ChainOK' /\ SeedsFollowSources'
      /\ a \in DOMAIN chain' /\ chain'[a] = event
  BY <1>0, <1>1, <1>2, <1>4, ChainAppended DEF RolloutInv
<1>6. Known(a)'
  BY <1>3, <1>5 DEF Known
<1>7. AddressesOK'
  BY <1>1, <1>5, <1>6, GrowthKeeps DEF AddressesOK, RolloutInv
<1>8. PendingOK' /\ SeedingOK' /\ IndexOK'
  BY <1>1, <1>5, PendingKept, SeedingKept, IndexKept DEF RolloutInv
<1> QED BY <1>5, <1>7, <1>8 DEF RolloutInv

\* The steps that write addresses down.
LEMMA AddressStepKeeps ==
  ASSUME RolloutInv, UNCHANGED << chain, seeding, pending, seeded, index >>,
         writeDeployment \/ PatchManifest \/ DeploymentCrashes \/ SetEnvironment
  PROVE  RolloutInv'
<1>1. Grows /\ ChainOK' /\ SeedsFollowSources'
  BY ChainStays DEF RolloutInv
<1>2. PICK stage, contract : deployment = [stage |-> stage, contract |-> contract]
  BY DEF RolloutInv, AddressesOK
<1>3. /\ stage # "failed" => Known(contract)
      /\ Addr(json) /\ Addr(dotenv) /\ Addr(seeded) /\ Addr(yaml.address)
      /\ yaml.address # None => yaml.startBlock = yaml.address
  BY <1>2 DEF RolloutInv, AddressesOK
<1>4. Known(contract)' = Known(contract)
  BY DEF Known
<1>5. AddressesOK'
  <2> USE <1>2, <1>3, <1>4 DEF AddressesOK, Addr, Known
  <2>1. CASE writeDeployment
    BY <2>1 DEF writeDeployment
  <2>2. CASE PatchManifest
    BY <2>2 DEF PatchManifest
  <2>3. CASE DeploymentCrashes
    BY <2>3 DEF DeploymentCrashes
  <2>4. CASE SetEnvironment
    BY <2>4 DEF SetEnvironment
  <2> QED BY <2>1, <2>2, <2>3, <2>4
<1>6. PendingOK' /\ SeedingOK' /\ IndexOK'
  BY <1>1, PendingKept, SeedingKept, IndexKept DEF RolloutInv
<1> QED BY <1>1, <1>5, <1>6 DEF RolloutInv

\* The seed script goes on to a seed when all before it are registered.
LEMMA SeedingFrom ==
  ASSUME NEW stage, NEW address, NEW next \in Seed,
         seeding' = [stage |-> stage, address |-> address, next |-> next],
         Known(address)', \A s \in 1 .. next - 1 : isVerifiedOn(address, s)'
  PROVE  SeedingOK'
<1>1. \E st, ad : \E ne \in Seed : seeding' = [stage |-> st, address |-> ad, next |-> ne]
  OBVIOUS
<1>2. seeding'.address = address /\ seeding'.next = next
  OBVIOUS
<1>3. Known(seeding.address)'
  BY <1>2
<1>4. \A s \in 1 .. seeding'.next - 1 : isVerifiedOn(seeding.address, s)'
  BY <1>2
<1> QED BY <1>1, <1>3, <1>4 DEF SeedingOK

\* The seed script starts from the first seed.
LEMMA StartSeedingKeeps == RolloutInv /\ StartSeeding => RolloutInv'
<1> SUFFICES ASSUME RolloutInv, StartSeeding PROVE RolloutInv'
  OBVIOUS
<1>1. /\ UNCHANGED << chain, json, yaml, dotenv, deployment, pending, seeded, index >>
      /\ seeding' = [stage |-> "check", address |-> RegistryAddress, next |-> 1]
      /\ seeding.stage = "off" /\ RegistryAddress # None
  BY DEF StartSeeding
<1>2. Grows /\ ChainOK' /\ SeedsFollowSources'
  BY <1>1, ChainStays DEF RolloutInv
<1>3. PICK address : address = RegistryAddress /\ Known(address)
  BY <1>1 DEF RegistryAddress, RolloutInv, AddressesOK, Addr
<1>4. 1 \in Seed
  BY RolloutAssumption DEF Seed
<1>5. SeedingOK'
  <2>1. seeding' = [stage |-> "check", address |-> address, next |-> 1]
    BY <1>1, <1>3
  <2>2. Known(address)'
    BY <1>2, <1>3, GrowthKeeps
  <2> QED BY <1>4, <2>1, <2>2, SeedingFrom
<1>6. PendingOK'
  <2>1. \A i \in DOMAIN pending : pending[i] \in Transaction /\ TransactionOK(pending[i], i)
    BY DEF RolloutInv, PendingOK
  <2>2. ASSUME NEW i \in DOMAIN pending PROVE TransactionOK(pending[i], i)'
    <3>1. PICK tx \in Transaction : tx = pending[i] /\ TransactionOK(tx, i)
      BY <2>1
    <3>2. ~ tx.awaited
      BY <1>1, <3>1 DEF TransactionOK
    <3>3. TransactionOK(tx, i)'
      BY <1>2, <3>1, <3>2, GrowthKeeps DEF TransactionOK
    <3> QED BY <1>1, <3>1, <3>3
  <2> QED BY <1>1, <2>2 DEF RolloutInv, PendingOK
<1>7. AddressesOK' /\ IndexOK'
  BY <1>1, <1>2, AddressesKept, IndexKept DEF RolloutInv
<1> QED BY <1>2, <1>5, <1>6, <1>7 DEF RolloutInv

\* The script goes on to the next seed when the one it is at is registered.
LEMMA NextSeedKeeps ==
  ASSUME RolloutInv, Grows, NextSeed, seeding.stage # "off",
         NEW address, NEW next, address = seeding.address, next = seeding.next,
         isVerifiedOn(address, next)',
         UNCHANGED << json, yaml, dotenv, deployment >>
  PROVE  SeedingOK' /\ AddressesOK'
<1>1. PICK stage : seeding = [stage |-> stage, address |-> address, next |-> next]
                   /\ next \in Seed /\ stage # "off"
  BY DEF RolloutInv, SeedingOK
<1>2. /\ Known(address)'
      /\ \A s \in 1 .. next - 1 : isVerifiedOn(address, s)'
  BY <1>1, GrowthKeeps DEF RolloutInv, SeedingOK
<1>3. NumSeeds \in Nat
  BY RolloutAssumption
<1>4. CASE next < NumSeeds
  <2>1. /\ seeding' = [stage |-> "check", address |-> address, next |-> next + 1]
        /\ seeded' = seeded
    BY <1>1, <1>4 DEF NextSeed
  <2>2. next + 1 \in Seed /\ \A s \in 1 .. (next + 1) - 1 : s = next \/ s \in 1 .. next - 1
    BY <1>1, <1>3, <1>4 DEF Seed
  <2>3. SeedingOK'
    BY <1>2, <2>1, <2>2 DEF SeedingOK
  <2>4. AddressesOK'
    BY <2>1, AddressesKept DEF RolloutInv
  <2> QED BY <2>3, <2>4
<1>5. CASE ~ (next < NumSeeds)
  <2>1. /\ seeding' = [stage |-> "off", address |-> address, next |-> next]
        /\ seeded' = address
    BY <1>1, <1>5 DEF NextSeed
  <2>2. SeedingOK'
    BY <1>1, <2>1 DEF SeedingOK
  <2>3. AddressesOK'
    BY <1>2, <2>1, GrowthKeeps DEF RolloutInv, AddressesOK, Addr
  <2> QED BY <2>2, <2>3
<1> QED BY <1>4, <1>5

\* While nothing is waited for, the script may move on.
LEMMA PendingUnawaited ==
  ASSUME PendingOK, Grows, pending' = pending, seeding.stage # "wait"
  PROVE  PendingOK'
<1>1. ASSUME NEW i \in DOMAIN pending PROVE TransactionOK(pending[i], i)'
  <2>1. PICK tx \in Transaction : tx = pending[i] /\ TransactionOK(tx, i)
    BY DEF PendingOK
  <2>2. ~ tx.awaited
    BY <2>1 DEF TransactionOK
  <2>3. TransactionOK(tx, i)'
    BY <2>1, <2>2, GrowthKeeps DEF TransactionOK
  <2> QED BY <2>1, <2>3
<1> QED BY <1>1 DEF PendingOK

\* A seed that is verified is passed over.
LEMMA CheckSeedKeeps == RolloutInv /\ CheckSeed => RolloutInv'
<1> SUFFICES ASSUME RolloutInv, CheckSeed PROVE RolloutInv'
  OBVIOUS
<1>1. /\ UNCHANGED << chain, json, yaml, dotenv, deployment, pending, index >>
      /\ seeding.stage = "check"
  BY DEF CheckSeed
<1>2. Grows /\ ChainOK' /\ SeedsFollowSources'
  BY <1>1, ChainStays DEF RolloutInv
<1>3. PendingOK' /\ IndexOK'
  BY <1>1, <1>2, PendingUnawaited, IndexKept DEF RolloutInv
<1>4. PICK address, next : address = seeding.address /\ next = seeding.next
  OBVIOUS
<1>5. CASE isVerifiedOn(address, next)
  <2>1. NextSeed /\ isVerifiedOn(address, next)'
    BY <1>2, <1>4, <1>5, GrowthKeeps DEF CheckSeed
  <2>2. SeedingOK' /\ AddressesOK'
    BY <1>1, <1>2, <1>4, <2>1, NextSeedKeeps
  <2> QED BY <1>2, <1>3, <2>2 DEF RolloutInv
<1>6. CASE ~ isVerifiedOn(address, next)
  <2>1. seeding' = [seeding EXCEPT !.stage = "send"] /\ seeded' = seeded
    BY <1>4, <1>6 DEF CheckSeed
  <2>a. /\ Known(address)' /\ next \in Seed
        /\ \A s \in 1 .. next - 1 : isVerifiedOn(address, s)'
        /\ seeding' = [stage |-> "send", address |-> address, next |-> next]
    BY <1>1, <1>2, <1>4, <2>1, GrowthKeeps DEF RolloutInv, SeedingOK
  <2>2. SeedingOK'
    BY <2>a, SeedingFrom
  <2>3. AddressesOK'
    BY <1>1, <1>2, <2>1, AddressesKept DEF RolloutInv
  <2> QED BY <1>2, <1>3, <2>2, <2>3 DEF RolloutInv
<1> QED BY <1>5, <1>6

\* A registration is sent: its sources are on the contract.
LEMMA SendSeedKeeps == RolloutInv /\ SendSeed => RolloutInv'
<1> SUFFICES ASSUME RolloutInv, SendSeed PROVE RolloutInv'
  OBVIOUS
<1>1. /\ UNCHANGED << chain, json, yaml, dotenv, deployment, index >>
      /\ seeding.stage = "send"
  BY DEF SendSeed
<1>2. Grows /\ ChainOK' /\ SeedsFollowSources'
  BY <1>1, ChainStays DEF RolloutInv
<1>3. IndexOK'
  BY <1>1, <1>2, IndexKept DEF RolloutInv
<1>4. PICK address, next : address = seeding.address /\ next = seeding.next
  OBVIOUS
<1>5. CASE isVerifiedOn(address, next)
  <2>1. NextSeed /\ isVerifiedOn(address, next)' /\ pending' = pending
    BY <1>2, <1>4, <1>5, GrowthKeeps DEF SendSeed
  <2>2. SeedingOK' /\ AddressesOK'
    BY <1>1, <1>2, <1>4, <2>1, NextSeedKeeps
  <2>3. PendingOK'
    BY <1>1, <1>2, <2>1, PendingUnawaited DEF RolloutInv
  <2> QED BY <1>2, <1>3, <2>2, <2>3 DEF RolloutInv
<1>6. CASE ~ isVerifiedOn(address, next)
  <2>1. /\ seeding' = [seeding EXCEPT !.stage = "wait"] /\ seeded' = seeded
        /\ pending' = Append(pending, [contract |-> address, kb |-> next, awaited |-> TRUE])
    BY <1>4, <1>6 DEF SendSeed
  <2>a. /\ Known(address)' /\ next \in Seed
        /\ \A s \in 1 .. next - 1 : isVerifiedOn(address, s)'
        /\ seeding' = [stage |-> "wait", address |-> address, next |-> next]
    BY <1>1, <1>2, <1>4, <2>1, GrowthKeeps DEF RolloutInv, SeedingOK
  <2>2. SeedingOK'
    BY <2>a, SeedingFrom
  <2>3. AddressesOK'
    BY <1>1, <1>2, <2>1, AddressesKept DEF RolloutInv
  <2>4. /\ Known(address) /\ next \in Seed
        /\ \A s \in 1 .. next - 1 : isVerifiedOn(address, s)
        /\ seeding' = [stage |-> "wait", address |-> address, next |-> next]
    BY <1>1, <1>4, <2>1 DEF RolloutInv, SeedingOK
  <2>5. SourcesOn(address, next)
    <3>1. \A p \in Range(Sources[next]) : p \in 1 .. next - 1
      BY <2>4, RolloutAssumption DEF Range
    <3> QED BY <2>4, <3>1 DEF SourcesOn
  <2>6. PICK tx \in Transaction : tx = [contract |-> address, kb |-> next, awaited |-> TRUE]
    <3>1. address \in Nat
      BY <2>4 DEF Known, RolloutInv, ChainOK
    <3>2. [contract |-> address, kb |-> next, awaited |-> TRUE] \in Transaction
      BY <2>4, <3>1 DEF Transaction
    <3> QED BY <3>2
  <2>7. /\ pending \in Seq(Transaction) /\ pending' \in Seq(Transaction)
        /\ DOMAIN pending = 1 .. Len(pending) /\ DOMAIN pending' = 1 .. Len(pending) + 1
        /\ Len(pending) \in Nat /\ Len(pending') = Len(pending) + 1
        /\ pending'[Len(pending) + 1] = tx
        /\ \A i \in 1 .. Len(pending) : pending'[i] = pending[i]
    BY <2>1, <2>6 DEF RolloutInv, PendingOK
  <2>8. ASSUME NEW i \in DOMAIN pending' PROVE TransactionOK(pending[i], i)'
    <3>1. CASE i \in DOMAIN pending
      <4>1. PICK old \in Transaction : old = pending[i] /\ TransactionOK(old, i)
        BY <3>1 DEF RolloutInv, PendingOK
      <4>2. ~ old.awaited
        BY <1>1, <4>1 DEF TransactionOK
      <4>3. TransactionOK(old, i)'
        BY <1>2, <4>1, <4>2, GrowthKeeps DEF TransactionOK
      <4> QED BY <2>7, <3>1, <4>1, <4>3
    <3>2. CASE i = Len(pending) + 1
      <4>1. Known(address)' /\ SourcesOn(address, next)'
        BY <1>2, <2>4, <2>5, GrowthKeeps
      <4>2. TransactionOK(tx, i)'
        BY <2>4, <2>6, <2>7, <3>2, <4>1 DEF TransactionOK
      <4> QED BY <2>7, <3>2, <4>2
    <3> QED BY <2>7, <3>1, <3>2
  <2>9. PendingOK'
    BY <2>7, <2>8 DEF PendingOK
  <2> QED BY <1>2, <1>3, <2>2, <2>3, <2>9 DEF RolloutInv
<1> QED BY <1>5, <1>6

\* What is left in the mempool when its first transaction is mined.
LEMMA RestOfPending ==
  ASSUME PendingOK, pending # << >>, pending' = Tail(pending)
  PROVE  /\ Head(pending) \in Transaction /\ TransactionOK(Head(pending), 1)
         /\ pending' \in Seq(Transaction)
         /\ Len(pending) \in Nat \ {0} /\ Len(pending') = Len(pending) - 1
         /\ DOMAIN pending' = 1 .. Len(pending) - 1
         /\ \A i \in DOMAIN pending' : pending'[i] = pending[i + 1] /\ i + 1 \in DOMAIN pending
<1>1. pending \in Seq(Transaction) /\ \A i \in DOMAIN pending : TransactionOK(pending[i], i)
  BY DEF PendingOK
<1>2. Head(pending) = pending[1] /\ 1 \in DOMAIN pending
  BY <1>1
<1> QED BY <1>1, <1>2

\* The script stops.
LEMMA SeedingStops ==
  ASSUME SeedingOK, seeding' = [seeding EXCEPT !.stage = "off"]
  PROVE  SeedingOK'
<1>1. PICK stage, address : \E next \in Seed :
        seeding = [stage |-> stage, address |-> address, next |-> next]
  BY DEF SeedingOK
<1>2. PICK next \in Seed : seeding = [stage |-> stage, address |-> address, next |-> next]
  BY <1>1
<1>3. seeding' = [stage |-> "off", address |-> address, next |-> next]
  BY <1>2
<1>4. seeding'.stage = "off"
  BY <1>3
<1>5. \E st, ad : \E ne \in Seed : seeding' = [stage |-> st, address |-> ad, next |-> ne]
  BY <1>3
<1> QED BY <1>4, <1>5 DEF SeedingOK

\* The subgraph of the contract a has read the blocks before n.
LEMMA IndexFrom ==
  ASSUME NEW a, NEW n \in Nat, NEW e,
         index' = [address |-> a, block |-> n, entities |-> e],
         Known(a)', a <= n, n <= Len(chain') + 1, DOMAIN e = Indexed',
         \A kb \in DOMAIN e : EntityOK(kb)'
  PROVE  IndexOK'
<1>1. \E address, entities : \E block \in Nat :
        index' = [address |-> address, block |-> block, entities |-> entities]
  OBVIOUS
<1>2. index'.address = a /\ index'.block = n /\ index'.entities = e
  OBVIOUS
<1>3. Known(index.address)'
  BY <1>2
<1> QED BY <1>1, <1>2, <1>3 DEF IndexOK

\* A registration is mined, or reverts because somebody was faster.
LEMMA MineSeedKeeps == RolloutInv /\ MineSeed => RolloutInv'
<1> SUFFICES ASSUME RolloutInv, MineSeed PROVE RolloutInv'
  OBVIOUS
<1>1. /\ pending # << >> /\ pending' = Tail(pending)
      /\ UNCHANGED << json, yaml, dotenv, deployment, index >>
  BY DEF MineSeed
<1>2. PICK tx \in Transaction : tx = Head(pending) /\ TransactionOK(tx, 1)
  BY <1>1, RestOfPending DEF RolloutInv
<1>3. Known(tx.contract) /\ SourcesOn(tx.contract, tx.kb) /\ tx.kb \in Seed /\ tx.contract \in Nat
  BY <1>2 DEF TransactionOK, Transaction
<1>4. PICK accepts \in BOOLEAN : accepts <=> ~ isVerifiedOn(tx.contract, tx.kb)
  OBVIOUS
<1>5. /\ Grows /\ ChainOK' /\ SeedsFollowSources'
      /\ isVerifiedOn(tx.contract, tx.kb)'
  <2>1. CASE accepts
    <3>1. chain' = Append(chain, KBRegistered(tx.contract, tx.kb, Deployer, Sources[tx.kb]))
      BY <1>2, <1>4, <2>1 DEF MineSeed
    <3>2. PICK event \in Event : event = KBRegistered(tx.contract, tx.kb, Deployer, Sources[tx.kb])
      <4>1. Sources[tx.kb] \in Seq(Seed)
        <5>1. PICK before \in SUBSET Seed : Sources[tx.kb] \in Seq(before)
          <6>1. Sources[tx.kb] \in Seq(1 .. tx.kb - 1)
            BY <1>3, RolloutAssumption
          <6>2. 1 .. tx.kb - 1 \in SUBSET Seed
            BY <1>3, RolloutAssumption DEF Seed
          <6> QED BY <6>1, <6>2
        <5>2. PICK s \in Seq(before) : s = Sources[tx.kb]
          BY <5>1
        <5>3. s \in Seq(Seed)
          OBVIOUS
        <5> QED BY <5>2, <5>3
      <4>2. KBRegistered(tx.contract, tx.kb, Deployer, Sources[tx.kb]) \in Event
        BY <1>3, <4>1 DEF KBRegistered, Event
      <4> QED BY <4>2
    <3>3. event.parents = Sources[tx.kb] /\ event.contract = tx.contract /\ event.kb = tx.kb
      BY <3>2 DEF KBRegistered
    <3>4. tx.contract \in 1 .. Len(chain) /\ Len(chain) \in Nat
      BY <1>3 DEF Known, RolloutInv, ChainOK
    <3>5. /\ Grows /\ ChainOK' /\ SeedsFollowSources'
          /\ DOMAIN chain' = 1 .. Len(chain) + 1 /\ chain'[Len(chain) + 1] = event
      BY <1>3, <3>1, <3>2, <3>3, <3>4, ChainAppended DEF RolloutInv, SourcesOn
    <3>6. isVerifiedOn(tx.contract, tx.kb)'
      <4>1. Len(chain) + 1 \in DOMAIN chain'
        BY <3>4, <3>5
      <4> QED BY <3>3, <3>5, <4>1 DEF isVerifiedOn
    <3> QED BY <3>5, <3>6
  <2>2. CASE ~ accepts
    <3>1. chain' = chain
      BY <1>2, <1>4, <2>2 DEF MineSeed
    <3> QED BY <1>4, <2>2, <3>1, ChainStays, GrowthKeeps DEF RolloutInv
  <2> QED BY <2>1, <2>2
<1>6. IndexOK'
  BY <1>1, <1>5, IndexKept DEF RolloutInv
<1>7. /\ pending' \in Seq(Transaction)
      /\ Len(pending) \in Nat \ {0} /\ Len(pending') = Len(pending) - 1
      /\ DOMAIN pending' = 1 .. Len(pending) - 1
      /\ \A i \in DOMAIN pending' : pending'[i] = pending[i + 1] /\ i + 1 \in DOMAIN pending
  BY <1>1, RestOfPending DEF RolloutInv
<1>8. CASE ~ tx.awaited
  <2>1. UNCHANGED << seeding, seeded >>
    BY <1>2, <1>8 DEF MineSeed
  <2>2. ASSUME NEW i \in DOMAIN pending' PROVE TransactionOK(pending[i], i)'
    <3>1. PICK rest \in Transaction : rest = pending[i + 1] /\ TransactionOK(rest, i + 1)
      BY <1>7 DEF RolloutInv, PendingOK
    <3>2. i + 1 = Len(pending) <=> i = Len(pending')
      BY <1>7
    <3>3. TransactionOK(rest, i)'
      BY <1>5, <2>1, <3>1, <3>2, GrowthKeeps DEF TransactionOK
    <3> QED BY <1>7, <3>1, <3>3
  <2>3. PendingOK'
    BY <1>7, <2>2 DEF PendingOK
  <2>4. SeedingOK' /\ AddressesOK'
    BY <1>1, <1>5, <2>1, SeedingKept, AddressesKept DEF RolloutInv
  <2> QED BY <1>5, <1>6, <2>3, <2>4 DEF RolloutInv
<1>9. CASE tx.awaited
  <2>1. /\ seeding.stage = "wait" /\ Len(pending) = 1
        /\ tx.contract = seeding.address /\ tx.kb = seeding.next
    BY <1>2, <1>9 DEF TransactionOK
  <2>2. PendingOK'
    BY <1>7, <2>1 DEF PendingOK
  <2>3. CASE accepts
    <3>1. NextSeed
      BY <1>2, <1>4, <1>9, <2>3 DEF MineSeed
    <3>2. PICK address, next : /\ address = tx.contract /\ next = tx.kb
                               /\ isVerifiedOn(address, next)'
      BY <1>5
    <3>3. SeedingOK' /\ AddressesOK'
      BY <1>1, <1>5, <2>1, <3>1, <3>2, NextSeedKeeps
    <3> QED BY <1>5, <1>6, <2>2, <3>3 DEF RolloutInv
  <2>4. CASE ~ accepts
    <3>1. seeding' = [seeding EXCEPT !.stage = "off"] /\ seeded' = seeded
      BY <1>2, <1>4, <1>9, <2>4 DEF MineSeed
    <3>2. SeedingOK'
      BY <3>1, SeedingStops DEF RolloutInv
    <3>3. AddressesOK'
      BY <1>1, <1>5, <3>1, AddressesKept DEF RolloutInv
    <3> QED BY <1>5, <1>6, <2>2, <3>2, <3>3 DEF RolloutInv
  <2> QED BY <2>3, <2>4
<1> QED BY <1>8, <1>9

\* The seed script stops; what it sent stays pending.
LEMMA SeedingCrashesKeeps == RolloutInv /\ SeedingCrashes => RolloutInv'
<1> SUFFICES ASSUME RolloutInv, SeedingCrashes PROVE RolloutInv'
  OBVIOUS
<1>1. /\ UNCHANGED << chain, json, yaml, dotenv, deployment, seeded, index >>
      /\ seeding' = [seeding EXCEPT !.stage = "off"]
      /\ pending' = [i \in DOMAIN pending |-> [pending[i] EXCEPT !.awaited = FALSE]]
  BY DEF SeedingCrashes
<1>2. Grows /\ ChainOK' /\ SeedsFollowSources'
  BY <1>1, ChainStays DEF RolloutInv
<1>3. SeedingOK'
  BY <1>1, SeedingStops DEF RolloutInv
<1>4. AddressesOK' /\ IndexOK'
  BY <1>1, <1>2, AddressesKept, IndexKept DEF RolloutInv
<1>5. ASSUME NEW i \in DOMAIN pending
      PROVE  /\ pending'[i] \in Transaction /\ TransactionOK(pending[i], i)'
  <2>1. PICK tx \in Transaction : tx = pending[i] /\ TransactionOK(tx, i)
    BY DEF RolloutInv, PendingOK
  <2>2. PICK dropped \in Transaction :
          /\ dropped = [tx EXCEPT !.awaited = FALSE] /\ ~ dropped.awaited
          /\ dropped.contract = tx.contract /\ dropped.kb = tx.kb
    <3>1. [tx EXCEPT !.awaited = FALSE] \in Transaction
      BY DEF Transaction
    <3>2. LET dropped == [tx EXCEPT !.awaited = FALSE]
          IN  ~ dropped.awaited /\ dropped.contract = tx.contract /\ dropped.kb = tx.kb
      BY DEF Transaction
    <3> QED BY <3>1, <3>2
  <2>3. pending'[i] = dropped
    BY <1>1, <2>1, <2>2
  <2>4. TransactionOK(dropped, i)'
    BY <1>2, <2>1, <2>2, GrowthKeeps DEF TransactionOK
  <2> QED BY <2>3, <2>4
<1>6. PendingOK'
  <2>1. pending \in Seq(Transaction)
    BY DEF RolloutInv, PendingOK
  <2>2. PICK n \in Nat : DOMAIN pending = 1 .. n
    BY <2>1
  <2>3. pending' \in [1 .. n -> Transaction]
    BY <1>1, <1>5, <2>2
  <2>4. pending' \in Seq(Transaction)
    BY <2>3
  <2> QED BY <1>1, <1>5, <2>4 DEF PendingOK
<1> QED BY <1>2, <1>3, <1>4, <1>6 DEF RolloutInv

\* Somebody else registers a seed, without its sources.
LEMMA StrangerRegistersKeeps ==
  ASSUME RolloutInv, NEW contract \in DOMAIN chain, NEW kb \in StrangerSeeds,
         StrangerRegisters(contract, kb)
  PROVE  RolloutInv'
<1>1. /\ chain' = Append(chain, KBRegistered(contract, kb, Stranger, << >>))
      /\ UNCHANGED << json, yaml, dotenv, deployment, seeding, pending, seeded, index >>
  BY DEF StrangerRegisters
<1>2. kb \in Seed /\ contract \in 1 .. Len(chain) /\ contract \in Nat
  BY RolloutAssumption DEF RolloutInv, ChainOK
<1>3. PICK event \in Event : event = KBRegistered(contract, kb, Stranger, << >>)
  <2>1. KBRegistered(contract, kb, Stranger, << >>) \in Event
    BY <1>2 DEF KBRegistered, Event
  <2> QED BY <2>1
<1>4. event.parents = << >> /\ event.contract = contract
  BY <1>3 DEF KBRegistered
<1>5. \A p \in Range(event.parents) : isVerifiedOn(event.contract, p)
  BY <1>4 DEF Range
<1>6. Grows /\ ChainOK' /\ SeedsFollowSources'
  BY <1>1, <1>2, <1>3, <1>4, <1>5, ChainAppended DEF RolloutInv
<1> QED BY <1>1, <1>6, AddressesKept, PendingKept, SeedingKept, IndexKept DEF RolloutInv

\* The subgraph starts from the manifest, at its contract's own block.
LEMMA DeploySubgraphKeeps == RolloutInv /\ DeploySubgraph => RolloutInv'
<1> SUFFICES ASSUME RolloutInv, DeploySubgraph PROVE RolloutInv'
  OBVIOUS
<1>1. UNCHANGED << chain, json, yaml, dotenv, deployment, seeding, pending, seeded >>
  BY DEF DeploySubgraph
<1>2. Grows /\ ChainOK' /\ SeedsFollowSources'
  BY <1>1, ChainStays DEF RolloutInv
<1>3. PICK a : /\ Known(a)
               /\ index' = [address |-> a, block |-> a, entities |-> << >>]
  BY DEF DeploySubgraph, RolloutInv, AddressesOK, Addr
<1>4. a \in 1 .. Len(chain) /\ Len(chain) \in Nat /\ Known(a)'
  BY <1>2, <1>3, GrowthKeeps DEF Known, RolloutInv, ChainOK
<1>5. /\ index'.address = a /\ index'.block = a /\ DOMAIN index'.entities = {}
  BY <1>3
<1>6. Indexed' = {}
  <2> SUFFICES ASSUME NEW b \in DOMAIN chain, b < a, chain[b].contract = a PROVE FALSE
    BY <1>1, <1>5 DEF Indexed
  <2>1. BlockOK(b) /\ b \in Nat
    BY DEF RolloutInv, ChainOK
  <2>2. chain[b].contract = b \/ chain[b].contract \in 1 .. b - 1
    BY <2>1 DEF BlockOK, Deployed
  <2> QED BY <1>4, <2>1, <2>2
<1>7. IndexOK'
  <2>1. a \in Nat /\ a <= a /\ a <= Len(chain') + 1
    BY <1>1, <1>4
  <2>2. \A kb \in DOMAIN << >> : EntityOK(kb)'
    OBVIOUS
  <2>3. DOMAIN << >> = Indexed'
    BY <1>3, <1>5, <1>6
  <2> QED BY <1>3, <1>4, <2>1, <2>2, <2>3, IndexFrom
<1> QED BY <1>1, <1>2, <1>7, AddressesKept, PendingKept, SeedingKept DEF RolloutInv

\* The subgraph reads the next block.
LEMMA IndexBlockKeeps == RolloutInv /\ IndexBlock => RolloutInv'
<1> SUFFICES ASSUME RolloutInv, IndexBlock PROVE RolloutInv'
  OBVIOUS
<1>1. UNCHANGED << chain, json, yaml, dotenv, deployment, seeding, pending, seeded >>
  BY DEF IndexBlock
<1>2. Grows /\ ChainOK' /\ SeedsFollowSources'
  BY <1>1, ChainStays DEF RolloutInv
<1>3. PICK a, e : \E n \in Nat : index = [address |-> a, block |-> n, entities |-> e]
  BY DEF RolloutInv, IndexOK
<1>4. PICK n \in Nat : index = [address |-> a, block |-> n, entities |-> e]
  BY <1>3
<1>5. /\ Known(a) /\ a <= n /\ n <= Len(chain) /\ DOMAIN e = Indexed
      /\ \A kb \in DOMAIN e : EntityOK(kb)
  BY <1>4 DEF IndexBlock, RolloutInv, IndexOK
<1>6. /\ DOMAIN chain = 1 .. Len(chain) /\ Len(chain) \in Nat /\ n \in DOMAIN chain
      /\ a \in Nat /\ BlockOK(n)
  BY <1>5 DEF Known, RolloutInv, ChainOK
<1>7. Indexed = {kb \in Seed : \E b \in DOMAIN chain :
                   b < n /\ chain[b].contract = a /\ chain[b].kb = kb}
  BY <1>4 DEF Indexed
<1>8. CASE chain[n].contract = a /\ chain[n].kb # None
  <2>1. PICK event : event = chain[n]
    OBVIOUS
  <2>2. event.kb \in Seed /\ event = KBRegistered(a, event.kb, event.curator, event.parents)
    BY <1>6, <1>8, <2>1 DEF BlockOK, Deployed, KBRegistered
  <2>3. PICK new : new = handleKBRegistered(event, e)
    OBVIOUS
  <2>4. index' = [address |-> a, block |-> n + 1, entities |-> new]
    BY <1>4, <1>8, <2>1, <2>3 DEF IndexBlock
  <2>5. /\ DOMAIN new = DOMAIN e \cup {event.kb}
        /\ new[event.kb] = [curator |-> event.curator, parents |-> event.parents,
                            blockNumber |-> n]
        /\ \A kb \in DOMAIN e : kb # event.kb => new[kb] = e[kb]
    BY <1>4, <2>3 DEF handleKBRegistered
  <2>6. Indexed' = Indexed \cup {event.kb}
    <3>1. Indexed' = {kb \in Seed : \E b \in DOMAIN chain :
                        b < n + 1 /\ chain[b].contract = a /\ chain[b].kb = kb}
      BY <1>1, <2>4 DEF Indexed
    <3>2. \A b \in DOMAIN chain : b < n + 1 <=> b < n \/ b = n
      BY <1>6
    <3> QED BY <1>6, <1>7, <1>8, <2>1, <2>2, <3>1, <3>2
  <2>7. ASSUME NEW kb \in DOMAIN new PROVE EntityOK(kb)'
    <3>1. CASE kb = event.kb
      BY <1>1, <1>6, <2>1, <2>2, <2>4, <2>5, <3>1 DEF EntityOK
    <3>2. CASE kb # event.kb
      BY <1>1, <1>4, <1>5, <2>4, <2>5, <3>2 DEF EntityOK
    <3> QED BY <3>1, <3>2
  <2>8. IndexOK'
    <3>1. Known(a)' /\ a <= n + 1 /\ n + 1 <= Len(chain') + 1 /\ n + 1 \in Nat
      BY <1>1, <1>5, <1>6 DEF Known
    <3> QED BY <1>5, <2>4, <2>5, <2>6, <2>7, <3>1, IndexFrom
  <2> QED BY <1>1, <1>2, <2>8, AddressesKept, PendingKept, SeedingKept DEF RolloutInv
<1>9. CASE ~ (chain[n].contract = a /\ chain[n].kb # None)
  <2>1. index' = [address |-> a, block |-> n + 1, entities |-> e]
    BY <1>4, <1>9 DEF IndexBlock
  <2>2. None \notin Seed
    BY RolloutAssumption DEF Seed
  <2>3. Indexed' = Indexed
    <3>1. Indexed' = {kb \in Seed : \E b \in DOMAIN chain :
                        b < n + 1 /\ chain[b].contract = a /\ chain[b].kb = kb}
      BY <1>1, <2>1 DEF Indexed
    <3>2. \A b \in DOMAIN chain : b < n + 1 <=> b < n \/ b = n
      BY <1>6
    <3> QED BY <1>7, <1>9, <2>2, <3>1, <3>2
  <2>4. \A kb \in DOMAIN e : EntityOK(kb)'
    BY <1>1, <1>4, <1>5, <2>1 DEF EntityOK
  <2>5. IndexOK'
    <3>1. Known(a)' /\ a <= n + 1 /\ n + 1 <= Len(chain') + 1 /\ n + 1 \in Nat
      BY <1>1, <1>5, <1>6 DEF Known
    <3> QED BY <1>5, <2>1, <2>3, <2>4, <3>1, IndexFrom
  <2> QED BY <1>1, <1>2, <2>5, AddressesKept, PendingKept, SeedingKept DEF RolloutInv
<1> QED BY <1>8, <1>9

\* Every step keeps the invariant of the rollout.
LEMMA RolloutInvStep == RolloutInv /\ [RolloutNext]_rolloutVars => RolloutInv'
<1> SUFFICES ASSUME RolloutInv, [RolloutNext]_rolloutVars PROVE RolloutInv'
  OBVIOUS
<1>1. CASE writeDeployment \/ PatchManifest \/ DeploymentCrashes \/ SetEnvironment
  <2>1. UNCHANGED << chain, seeding, pending, seeded, index >>
    BY <1>1 DEF writeDeployment, PatchManifest, DeploymentCrashes, SetEnvironment
  <2> QED BY <1>1, <2>1, AddressStepKeeps
<1>2. CASE UNCHANGED rolloutVars
  <2>1. UNCHANGED << chain, json, yaml, dotenv, deployment, seeding, pending, seeded, index >>
    BY <1>2 DEF rolloutVars
  <2>2. Grows /\ ChainOK' /\ SeedsFollowSources'
    BY <2>1, ChainStays DEF RolloutInv
  <2> QED BY <2>1, <2>2, AddressesKept, PendingKept, SeedingKept, IndexKept DEF RolloutInv
<1> QED BY <1>1, <1>2, DeployRegistryKeeps, StartSeedingKeeps, CheckSeedKeeps, SendSeedKeeps,
           MineSeedKeeps, SeedingCrashesKeeps, StrangerRegistersKeeps, DeploySubgraphKeeps,
           IndexBlockKeeps DEF RolloutNext

\* The invariant of the rollout holds in every behaviour.
LEMMA RolloutInvariance == RolloutSpec => []RolloutInv
BY RolloutInvInit, RolloutInvStep, PTL DEF RolloutSpec

\* Through crashes, reruns, redeployments and strangers who register seeds, a
\* seed that the script registers has its sources before it on the same
\* contract.
THEOREM SourcesComeFirst == RolloutSpec => []SeedsFollowSources
<1>1. RolloutInv => SeedsFollowSources BY DEF RolloutInv
<1> QED BY <1>1, RolloutInvariance, PTL

\* The invariant implies IndexIsComplete.
LEMMA CaughtUp == RolloutInv => IndexIsComplete
<1> SUFFICES ASSUME RolloutInv, index.address # None, index.block > Len(chain)
             PROVE  /\ DOMAIN index.entities = {kb \in Seed : isVerifiedOn(index.address, kb)}
                    /\ \A kb \in DOMAIN index.entities :
                         LET entity == index.entities[kb]
                         IN  chain[entity.blockNumber] =
                             KBRegistered(index.address, kb, entity.curator, entity.parents)
  BY DEF IndexIsComplete
<1>1. /\ DOMAIN index.entities = Indexed /\ \A kb \in DOMAIN index.entities : EntityOK(kb)
      /\ index.block \in Nat /\ Len(chain) \in Nat /\ DOMAIN chain = 1 .. Len(chain)
  BY DEF RolloutInv, IndexOK, ChainOK
<1>2. \A b \in DOMAIN chain : b < index.block
  BY <1>1
<1> QED BY <1>1, <1>2 DEF Indexed, isVerifiedOn, EntityOK

\* A subgraph that has caught up holds exactly the seeds on its contract, with
\* the curator and the parents of the event, whichever deployment it starts
\* from.
THEOREM IndexCompleteness == RolloutSpec => []IndexIsComplete
BY CaughtUp, RolloutInvariance, PTL
=============================================================================
