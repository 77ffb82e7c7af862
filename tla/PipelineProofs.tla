--------------------------- MODULE PipelineProofs ---------------------------
(***************************************************************************)
(* Proofs about the pipeline: the licenses that it combines, the chunker,  *)
(* and the datasets that it makes.                                         *)
(*                                                                         *)
(* Each property of the chunker has an invariant over the state of the     *)
(* loop, proved for one cut, for one sentence (which may be cut before and *)
(* after, NextSentence) and for the ends of paragraphs and sections:       *)
(*                                                                         *)
(*   SizeInv    what is gathered passes the ceiling only by the overlap    *)
(*              and one sentence, and so does what is pushed;              *)
(*   RepeatInv  what is gathered is in no chunk, unless it is an overlap;  *)
(*   LostInv    what is gathered are the last sentences read, and a        *)
(*              stretch that ended before them has a sentence in a chunk   *)
(*              or too few words.                                          *)
(***************************************************************************)
EXTENDS Pipeline, Chunker, SumLemmas

-----------------------------------------------------------------------------
(* Licenses.                                                               *)

\* The strictest license is neither too lax nor too strict: a target fits it
\* exactly when the target fits every license that went into it, so checking a
\* derived work against the combination loses nothing (validators.ts:100-156).
THEOREM StrictestFitsAll ==
  ASSUME NEW sources \in SUBSET LicenseTerms, NEW target \in LicenseTerms
  PROVE  areCompatible(getStrictestLicense(sources).terms, target)
         <=> \A source \in sources : areCompatible(source, target)
<1> DEFINE combined == getStrictestLicense(sources).terms
<1>1. /\ combined.commercialUse <=> \A source \in sources : source.commercialUse
      /\ combined.attribution <=> \E source \in sources : source.attribution
      /\ combined.shareAlike <=> \E source \in sources : source.shareAlike
      /\ combined.derivatives <=> \A source \in sources : source.derivatives
  BY DEF getStrictestLicense, CombinedTerms, Terms
<1> HIDE DEF combined
<1>2. areCompatible(combined, target)
      <=> \A source \in sources : areCompatible(source, target)
  BY <1>1 DEF areCompatible
<1> QED
  BY <1>2 DEF combined

\* In particular a combined work may use each of its sources.
COROLLARY CombinationIsAllowed ==
  ASSUME NEW sources \in SUBSET LicenseTerms, NEW source \in sources
  PROVE  areCompatible(source, getStrictestLicense(sources).terms)
<1> DEFINE combined == getStrictestLicense(sources).terms
<1>1. combined \in LicenseTerms
  BY DEF getStrictestLicense, CombinedTerms, Terms, LicenseTerms
<1>2. areCompatible(combined, combined)
  BY DEF areCompatible
<1> QED
  BY <1>1, <1>2, StrictestFitsAll

\* Every pair in the table of compatible licenses passes the check on terms
\* (constants.ts:48-53, validators.ts:100-112).
THEOREM TableIsCompatible ==
  \A pair \in LICENSE_COMPATIBILITY_MATRIX :
    areCompatible(LICENSE_PRESETS[pair[1]], LICENSE_PRESETS[pair[2]])
  BY DEF LICENSE_COMPATIBILITY_MATRIX, LICENSE_PRESETS, LicenseType, areCompatible, Terms

\* The combination of commercial licenses is never valid as it is returned: it
\* carries no payout, which commercial use requires (validators.ts:68-75, 148-155).
THEOREM CommercialCombinationNeedsPayout ==
  ASSUME NEW sources \in SUBSET LicenseTerms,
         \A source \in sources : source.commercialUse
  PROVE  ~ validateLicense(getStrictestLicense(sources))
  BY DEF validateLicense, getStrictestLicense, CombinedTerms, Terms

-----------------------------------------------------------------------------
(* The pipeline.                                                           *)

\* With an API key set, no pipeline can be built unless EMBEDDER says stub or
\* local: the constructors of the hosted embedders always throw, and a key alone
\* selects one (embedder.ts:197-214, called at processor.ts:165).
THEOREM KeysStopThePipeline ==
  ASSUME NEW env \in Environment, env.keys # {}
  PROVE  createEmbedder(env) # Throws <=> env.EMBEDDER \in {"stub", "local"}
<1>1. StubEmbedder # Throws /\ LocalEmbedder # Throws
  BY DEF StubEmbedder, LocalEmbedder, Embedder, Throws
<1>2. env.keys \subseteq {"openai", "cohere"}
  BY DEF Environment
<1> QED
  BY <1>1, <1>2 DEF createEmbedder, OpenAIEmbedder, CohereEmbedder

\* The score of a chunk of at least 20 words and an importance of at least 0.5,
\* whatever is in it (processor.ts:145-157).
LEMMA ScoreOfChunk ==
  ASSUME NEW chunk \in SemanticChunk, NEW entityCount \in Nat
  PROVE  computeQualityScore(chunk.importance, entityCount, chunk.wordCount,
                             chunk.isComplete) \in 24 .. 100
<1>1. ASSUME NEW d \in Nat, NEW e \in Nat, NEW h \in Nat, NEW p \in Nat, NEW n \in Nat
      PROVE  scoreImportance(d, e, h, p, n) \in 50 .. 100
  BY DEF scoreImportance, AtMost
<1>2. chunk.importance \in 50 .. 100
  <2>1. PICK d \in Nat, e \in Nat, h \in Nat, p \in Nat, n \in Nat :
          chunk.importance = scoreImportance(d, e, h, p, n)
    BY DEF SemanticChunk
  <2>2. scoreImportance(d, e, h, p, n) \in 50 .. 100
    BY <1>1, Zenon
  <2> QED
    BY <2>1, <2>2, Zenon
<1>3. chunk.wordCount \in Nat /\ chunk.wordCount >= 20 /\ chunk.isComplete \in BOOLEAN
  BY DEF SemanticChunk, minWords
<1>4. ASSUME NEW importance \in 50 .. 100, NEW words \in Nat, words >= 20,
             NEW isComplete \in BOOLEAN
      PROVE  computeQualityScore(importance, entityCount, words, isComplete) \in 24 .. 100
  <2>1. CASE isComplete
    BY <1>4, <2>1 DEF computeQualityScore, AtMost
  <2>2. CASE ~ isComplete
    BY <1>4, <2>2 DEF computeQualityScore, AtMost
  <2> QED
    BY <2>1, <2>2
<1> QED
  BY <1>2, <1>3, <1>4

\* Every block that processing makes is of the declared type, its score within the
\* range its comment gives (processor.ts:57), and no block scores below 24, however
\* poor its text: the chunker drops short chunks and no importance is below 0.5
\* (chunker.ts:190-206, 240; processor.ts:145-157, 194-239).
THEOREM QualityWithinBounds ==
  ASSUME NEW text, NEW chunkSize, NEW now \in Nat, NEW embedder,
         Chunks(text, chunkSize) \in Seq(SemanticChunk),
         \A t \in Text : /\ extractEntitiesTyped(t) \in Nat
                        /\ enriched(t) \in Enrichment
                        /\ embedded(embedder, t) \in Vector
  PROVE  LET blocks == process(text, chunkSize, now, embedder)
         IN  /\ blocks \in Seq(KnowledgeBlock)
             /\ \A i \in DOMAIN blocks : blocks[i].qualityScore \in 24 .. 100
<1> DEFINE chunks == Chunks(text, chunkSize)
           total  == Len(chunks)
           blocks == process(text, chunkSize, now, embedder)
<1>1. total \in Nat
  OBVIOUS
<1>2. ASSUME NEW i \in 1 .. total
      PROVE  blocks[i] \in KnowledgeBlock /\ blocks[i].qualityScore \in 24 .. 100
  <2>1. chunks[i] \in SemanticChunk
    OBVIOUS
  <2>2. chunks[i].text \in Text
    BY <2>1 DEF SemanticChunk
  <2> DEFINE score == computeQualityScore(chunks[i].importance,
                        extractEntitiesTyped(chunks[i].text),
                        chunks[i].wordCount, chunks[i].isComplete)
  <2>3. score \in 24 .. 100
    <3> HIDE DEF chunks
    <3> QED BY <2>1, <2>2, ScoreOfChunk
  <2>4. blocks[i] =
         [ id           |-> i - 1,
           documentId   |-> now,
           text         |-> chunks[i].text,
           enrichment   |-> enriched(chunks[i].text),
           position     |-> [blockIndex |-> i - 1, total |-> total,
                             isFirst |-> i = 1, isLast |-> i = total],
           qualityScore |-> score,
           embedding    |-> embedded(embedder, chunks[i].text) ]
    BY DEF process
  <2>5. [blockIndex |-> i - 1, total |-> total, isFirst |-> i = 1, isLast |-> i = total]
          \in Position
    BY <1>1 DEF Position
  <2> HIDE DEF score, blocks, chunks
  <2>6. i - 1 \in Nat /\ score \in 0 .. 100
    BY <1>1, <2>3
  <2> QED
    BY <2>2, <2>3, <2>4, <2>5, <2>6 DEF KnowledgeBlock
<1>3. blocks = [i \in 1 .. total |-> blocks[i]]
  BY DEF process
<1> HIDE DEF blocks, chunks
<1>4. blocks \in Seq(KnowledgeBlock) /\ DOMAIN blocks = 1 .. total
  BY <1>1, <1>2, <1>3
<1> QED
  BY <1>2, <1>4 DEF blocks

\* A license that passes the validator still passes it after the schema, which
\* drops the payout, exactly when it forbids commercial use (schema/license.ts:3-13,
\* validators.ts:68-75).
THEOREM PayoutIsLost ==
  ASSUME NEW license \in License, validateLicense(license)
  PROVE  validateLicense(LicenseSchema(license)) <=> ~ license.terms.commercialUse
  BY DEF validateLicense, LicenseSchema, License

\* So a license for commercial use, the default among them, is one that the
\* validator refuses once the command publish has anchored it (publish.ts:49-54,
\* orchestrator.ts:56-66, 104).
THEOREM CommercialLicenseIsAnchoredInvalid ==
  ASSUME NEW file, NEW filename, NEW given, NEW clock, NEW env,
         NEW registry \in RegistryClient,
         Given(given, "license", DefaultLicense) \in License,
         publishCommand(file, filename, given, clock, env, registry) # Throws
  PROVE  validateLicense(publishCommand(file, filename, given, clock, env, registry).license)
         <=> ~ Given(given, "license", DefaultLicense).terms.commercialUse
<1> DEFINE license  == Given(given, "license", DefaultLicense)
           embedder == createEmbedder(env)
           made     == runPipeline(file, filename, given, clock, embedder)
<1>1. made # Throws
  BY DEF publishCommand
<1>2. validateLicense(license) /\ made.license = LicenseSchema(license)
  BY <1>1 DEF runPipeline, DatasetSchema
<1>3. publishCommand(file, filename, given, clock, env, registry).license = made.license
  BY DEF publishCommand
<1> HIDE DEF license, made
<1>4. validateLicense(LicenseSchema(license)) <=> ~ license.terms.commercialUse
  BY <1>2, PayoutIsLost DEF license
<1> QED
  BY <1>2, <1>3, <1>4 DEF license

\* The pipeline's own verification refuses every dataset that the pipeline made,
\* with the original file or without: the cid is of one set of metadata and the
\* dataset carries another, which has the time of processing
\* (orchestrator.ts:70-81, 97-101, 139-150).
THEOREM OwnDatasetFailsVerification ==
  ASSUME NEW file, NEW filename, NEW given, NEW clock, NEW embedder, NEW originals,
         runPipeline(file, filename, given, clock, embedder) # Throws
  PROVE  ~ verifyDataset(runPipeline(file, filename, given, clock, embedder), originals)
<1> DEFINE dataset  == runPipeline(file, filename, given, clock, embedder)
           blocks   == Blocks(file, filename, given, clock, embedder)
           packaged == PackageMetadata(file, filename, blocks)
           stored   == DatasetMetadata(file, filename, given, clock)
           text     == getExtractor(filename, file).text
<1>1. dataset.cid = fromBuffer(PackageData(text, blocks, packaged))
  BY DEF runPipeline, DatasetSchema
<1>2. dataset.metadata = stored
  BY DEF runPipeline, DatasetSchema
<1>3. "processingTime" \in DOMAIN stored
  BY DEF DatasetMetadata
<1>4. "processingTime" \notin DOMAIN packaged
  BY DEF PackageMetadata
<1>5. stored # packaged
  <2> HIDE DEF stored, packaged
  <2> QED
    BY <1>3, <1>4
<1> HIDE DEF dataset, blocks, packaged, stored, text
<1>6. ASSUME NEW content
      PROVE  fromBuffer(PackageData(content, dataset.blocks, dataset.metadata)) # dataset.cid
  BY <1>1, <1>2, <1>5 DEF fromBuffer, PackageData
<1>7. ~ verifyDataset(dataset, originals)
  BY <1>6 DEF verifyDataset
<1> QED
  BY <1>7 DEF dataset

\* A dataset is not identified by its file: a run at another time gives the same
\* fingerprint and, if the text has a chunk at all, another cid, because each block
\* carries the time in its documentId ("Same input = Same CID", ipfsHasher.ts:8;
\* processor.ts:170, orchestrator.ts:49-53, 81).
THEOREM CidFollowsClock ==
  ASSUME NEW file, NEW filename, NEW given, NEW embedder, NEW first, NEW second,
         runPipeline(file, filename, given, first, embedder) # Throws,
         runPipeline(file, filename, given, second, embedder) # Throws,
         first.began # second.began,
         Len(Chunks(getExtractor(filename, file).text, ChunkSize(given))) \in Nat \ {0}
  PROVE  /\ runPipeline(file, filename, given, first, embedder).fingerprint
              = runPipeline(file, filename, given, second, embedder).fingerprint
         /\ runPipeline(file, filename, given, first, embedder).cid
              # runPipeline(file, filename, given, second, embedder).cid
<1> DEFINE text         == getExtractor(filename, file).text
           size         == ChunkSize(given)
           blocks(c)    == Blocks(file, filename, given, c, embedder)
           dataset(c)   == runPipeline(file, filename, given, c, embedder)
           packaged(c)  == PackageMetadata(file, filename, blocks(c))
<1>1. ASSUME NEW c, dataset(c) # Throws
      PROVE  /\ dataset(c).fingerprint = fromBuffer(file)
             /\ dataset(c).cid = fromBuffer(PackageData(text, blocks(c), packaged(c)))
  BY <1>1 DEF runPipeline, DatasetSchema
<1>2. ASSUME NEW c
      PROVE  blocks(c)[1].documentId = c.began
  <2> HIDE DEF text, size
  <2>1. blocks(c) = process(text, size, c.began, embedder)
    BY DEF Blocks, text, size
  <2>2. 1 \in 1 .. Len(Chunks(text, size))
    BY DEF text, size
  <2> QED
    BY <2>1, <2>2 DEF process
<1> HIDE DEF text, blocks, dataset, packaged
<1>3. blocks(first) # blocks(second)
  BY <1>2
<1>4. fromBuffer(PackageData(text, blocks(first), packaged(first)))
        # fromBuffer(PackageData(text, blocks(second), packaged(second)))
  BY <1>3 DEF fromBuffer, PackageData
<1>5. dataset(first) # Throws /\ dataset(second) # Throws
  BY DEF dataset
<1>6. /\ dataset(first).fingerprint = dataset(second).fingerprint
      /\ dataset(first).cid # dataset(second).cid
  BY <1>1, <1>4, <1>5
<1> QED
  BY <1>6 DEF dataset

-----------------------------------------------------------------------------
(* The chunker.                                                            *)

Chunk    == [sentences : Seq(Nat), isComplete : BOOLEAN]
LoopType == [gathered : Seq(Nat), pushed : Seq(Chunk)]

\* All sentences of s have been read.
ReadIn(s, n) == \A k \in 1 .. Len(s) : s[k] \in 1 .. n

LoopOK(loop, n) ==
  /\ loop \in LoopType
  /\ ReadIn(loop.gathered, n)
  /\ \A c \in 1 .. Len(loop.pushed) : ReadIn(loop.pushed[c].sentences, n)

ChunkerTypeOK ==
  /\ options \in Options
  /\ section \in Nat /\ inParagraph \in BOOLEAN
  /\ lengths \in Seq(WordCounts) /\ sections \in Seq(Nat) /\ Len(sections) = Len(lengths)
  /\ LoopOK(Loop, Len(lengths))

-----------------------------------------------------------------------------
(* The cuts, one after the other.                                          *)

LEMMA OptionFacts ==
  ASSUME options \in Options
  PROVE  /\ options.targetWords \in Nat /\ options.maxWords \in Nat
         /\ options.overlapSentences \in Nat /\ options.minWords \in Nat
BY ChunkerAssumption

LEMMA OverlapFacts ==
  ASSUME options \in Options, NEW s \in Seq(Nat)
  PROVE  /\ Overlap(s) \in Seq(Nat) /\ Len(Overlap(s)) \in Nat
         /\ Len(Overlap(s)) <= Len(s)
         /\ options.overlapSentences > 0 => Len(Overlap(s)) <= options.overlapSentences
         /\ s # << >> => Overlap(s) # << >>
         /\ \A k \in 1 .. Len(Overlap(s)) :
              /\ Len(s) - Len(Overlap(s)) + k \in 1 .. Len(s)
              /\ Overlap(s)[k] = s[Len(s) - Len(Overlap(s)) + k]
<1> DEFINE n == options.overlapSentences
<1>1. n \in Nat /\ Len(s) \in Nat
  BY OptionFacts
<1>2. CASE n = 0 \/ n >= Len(s)
  <2>1. Overlap(s) = s
    BY <1>2 DEF Overlap
  <2> QED BY <1>1, <1>2, <2>1
<1>3. CASE ~ (n = 0 \/ n >= Len(s))
  <2>1. Overlap(s) = SubSeq(s, Len(s) - n + 1, Len(s))
    BY <1>3 DEF Overlap
  <2> PICK N \in Nat : N = n
    BY <1>1
  <2> HIDE DEF n
  <2>2. N > 0 /\ N < Len(s)
    BY <1>1, <1>3
  <2> PICK t : t = Overlap(s)
    OBVIOUS
  <2>3. t = SubSeq(s, Len(s) - N + 1, Len(s))
    BY <2>1
  <2>4. t \in Seq(Nat) /\ Len(t) = N
    BY <1>1, <2>2, <2>3
  <2>5. \A k \in 1 .. N : Len(s) - N + k \in 1 .. Len(s) /\ t[k] = s[Len(s) - N + k]
    BY <1>1, <2>2, <2>3
  <2>6. t # << >>
    BY <2>2, <2>4
  <2> QED BY <1>1, <2>2, <2>4, <2>5, <2>6 DEF n
<1> QED BY <1>2, <1>3

LEMMA OverlapRead ==
  ASSUME options \in Options, NEW s \in Seq(Nat), NEW n \in Nat, ReadIn(s, n)
  PROVE  ReadIn(Overlap(s), n)
BY OverlapFacts DEF ReadIn

\* flush pushes what is gathered, or nothing.
Pushes(loop, isComplete, read) ==
  /\ countWords(loop.gathered, read) >= options.minWords
  /\ loop.gathered # << >>
  /\ flush(loop, isComplete, read) =
       [gathered |-> loop.gathered,
        pushed   |-> Append(loop.pushed, [sentences |-> loop.gathered,
                                          isComplete |-> isComplete])]

LEMMA FlushCases ==
  ASSUME options \in Options, NEW loop \in LoopType, NEW isComplete, NEW read,
         countWords(loop.gathered, read) \in Nat
  PROVE  \/ Pushes(loop, isComplete, read)
         \/ /\ countWords(loop.gathered, read) < options.minWords \/ loop.gathered = << >>
            /\ flush(loop, isComplete, read) = loop
<1> DEFINE few == countWords(loop.gathered, read) < options.minWords \/ loop.gathered = << >>
<1>1. CASE few
  BY <1>1 DEF flush
<1>2. CASE ~ few
  <2>1. flush(loop, isComplete, read) =
          [loop EXCEPT !.pushed = Append(@, [sentences |-> loop.gathered,
                                             isComplete |-> isComplete])]
    BY <1>2 DEF flush
  <2>2. flush(loop, isComplete, read) =
          [gathered |-> loop.gathered,
           pushed   |-> Append(loop.pushed, [sentences |-> loop.gathered,
                                             isComplete |-> isComplete])]
    BY <2>1 DEF LoopType
  <2> QED BY <1>2, <2>2, OptionFacts DEF Pushes
<1> QED BY <1>1, <1>2

\* Words add up, and do not depend on what is read later.
LEMMA CountIsNat ==
  ASSUME NEW read \in Seq(Nat), NEW s \in Seq(Nat), ReadIn(s, Len(read))
  PROVE  countWords(s, read) \in Nat
<1> DEFINE f == [k \in DOMAIN s |-> read[s[k]]]
<1>1. Len(s) \in Nat /\ \A k \in 1 .. Len(s) : f[k] \in Nat
  BY DEF ReadIn
<1> HIDE DEF f
<1>2. SumTo(f, Len(s)) \in Nat
  BY <1>1, SumNat, Zenon
<1> QED BY <1>2 DEF countWords, f

LEMMA CountGrows ==
  ASSUME NEW read \in Seq(Nat), NEW s \in Seq(Nat), ReadIn(s, Len(read)), NEW w \in Nat
  PROVE  countWords(s, Append(read, w)) = countWords(s, read)
<1> DEFINE r == Append(read, w)
<1>1. \A k \in 1 .. Len(read) : r[k] = read[k]
  OBVIOUS
<1>2. \A k \in DOMAIN s : s[k] \in 1 .. Len(read)
  BY DEF ReadIn
<1> HIDE DEF r
<1>3. [k \in DOMAIN s |-> r[s[k]]] = [k \in DOMAIN s |-> read[s[k]]]
  BY <1>1, <1>2
<1> QED BY <1>3 DEF countWords, r

LEMMA CountAppend ==
  ASSUME NEW read \in Seq(Nat), NEW s \in Seq(Nat), ReadIn(s, Len(read)),
         NEW k \in 1 .. Len(read)
  PROVE  countWords(Append(s, k), read) = countWords(s, read) + read[k]
<1> DEFINE N == Len(s)
           t == Append(s, k)
           f == [x \in DOMAIN s |-> read[s[x]]]
           g == [x \in DOMAIN t |-> read[t[x]]]
<1>1. N \in Nat /\ \A x \in 1 .. N : f[x] \in Nat
  BY DEF ReadIn
<1>2. /\ Len(t) = N + 1 /\ DOMAIN t = 1 .. N + 1 /\ t[N + 1] = k
      /\ \A x \in 1 .. N : t[x] = s[x]
  BY <1>1
<1>3. \A x \in 1 .. N : g[x] = f[x]
  <2>1. \A x \in 1 .. N : x \in DOMAIN t /\ x \in DOMAIN s BY <1>1, <1>2
  <2> HIDE DEF t
  <2> QED BY <1>2, <2>1
<1>4. g[N + 1] = read[k] /\ read[k] \in Nat
  <2>1. N + 1 \in DOMAIN t BY <1>1, <1>2
  <2> HIDE DEF t
  <2> QED BY <1>2, <2>1
<1>5. countWords(t, read) = SumTo(g, N + 1) /\ countWords(s, read) = SumTo(f, N)
  BY <1>2 DEF countWords
<1> HIDE DEF N, t, f, g
<1>6. \A x \in 1 .. N + 1 : g[x] \in Int
  BY <1>1, <1>3, <1>4
<1>7. SumTo(g, N + 1) = SumTo(g, N) + g[N + 1]
  <2>1. N + 1 \in Nat /\ N \in 0 .. (N + 1) - 1 BY <1>1
  <2> QED BY <1>6, <2>1, SumStep, Zenon
<1>8. SumTo(g, N) = SumTo(f, N)
  <2>1. \A x \in 1 .. N : f[x] \in Int BY <1>1
  <2> QED BY <1>1, <1>3, <2>1, SumSame, Zenon
<1> QED BY <1>4, <1>5, <1>7, <1>8 DEF t

\* A chunk is put at the end of the others.
LEMMA PushedFacts ==
  ASSUME NEW chunks \in Seq(Chunk), NEW c \in Chunk
  PROVE  /\ Append(chunks, c) \in Seq(Chunk) /\ Len(chunks) \in Nat
         /\ Len(Append(chunks, c)) = Len(chunks) + 1
         /\ Append(chunks, c)[Len(chunks) + 1] = c
         /\ \A k \in 1 .. Len(chunks) : Append(chunks, c)[k] = chunks[k]
OBVIOUS

\* What flush pushes is in order, and with it all that the loop has.
LEMMA FlushOK ==
  ASSUME options \in Options, NEW read \in Seq(Nat), NEW n \in 0 .. Len(read),
         NEW loop, LoopOK(loop, n), NEW isComplete \in BOOLEAN
  PROVE  /\ LoopOK(flush(loop, isComplete, read), n)
         /\ flush(loop, isComplete, read).gathered = loop.gathered
         /\ \/ flush(loop, isComplete, read).pushed = loop.pushed
            \/ flush(loop, isComplete, read).pushed =
                 Append(loop.pushed, [sentences |-> loop.gathered, isComplete |-> isComplete])
<1> DEFINE r == flush(loop, isComplete, read)
           c == [sentences |-> loop.gathered, isComplete |-> isComplete]
<1>1. /\ loop \in LoopType /\ loop.gathered \in Seq(Nat) /\ loop.pushed \in Seq(Chunk)
      /\ ReadIn(loop.gathered, n)
  BY DEF LoopOK, LoopType
<1>2. countWords(loop.gathered, read) \in Nat
  <2>1. ReadIn(loop.gathered, Len(read)) BY <1>1 DEF ReadIn
  <2> QED BY <1>1, <2>1, CountIsNat
<1>3. c \in Chunk /\ c.sentences = loop.gathered
  BY <1>1 DEF Chunk
<1>4. r = loop \/ r = [gathered |-> loop.gathered, pushed |-> Append(loop.pushed, c)]
  BY <1>1, <1>2, FlushCases DEF Pushes
<1> HIDE DEF r, c
<1>5. CASE r = loop
  BY <1>5 DEF r
<1>6. CASE r = [gathered |-> loop.gathered, pushed |-> Append(loop.pushed, c)]
  <2> DEFINE p == Append(loop.pushed, c)
  <2>1. /\ p \in Seq(Chunk) /\ Len(loop.pushed) \in Nat /\ Len(p) = Len(loop.pushed) + 1
        /\ p[Len(loop.pushed) + 1] = c
        /\ \A k \in 1 .. Len(loop.pushed) : p[k] = loop.pushed[k]
    BY <1>1, <1>3, PushedFacts
  <2> HIDE DEF p
  <2>2. r.gathered = loop.gathered /\ r.pushed = p /\ r \in LoopType
    BY <1>1, <1>6, <2>1 DEF LoopType, p
  <2>3. ASSUME NEW k \in 1 .. Len(p) PROVE ReadIn(p[k].sentences, n)
    <3>1. k \in 1 .. Len(loop.pushed) \/ k = Len(loop.pushed) + 1 BY <2>1
    <3> QED BY <1>1, <1>3, <2>1, <3>1 DEF LoopOK
  <2> QED BY <1>1, <2>2, <2>3 DEF LoopOK, r, p, c
<1> QED BY <1>4, <1>5, <1>6

\* A cut keeps the overlap.
LEMMA CutOK ==
  ASSUME options \in Options, NEW read \in Seq(Nat), NEW n \in 0 .. Len(read),
         NEW loop, LoopOK(loop, n), NEW isComplete \in BOOLEAN
  PROVE  /\ LoopOK(FlushAndOverlap(loop, isComplete, read), n)
         /\ FlushAndOverlap(loop, isComplete, read).gathered = Overlap(loop.gathered)
         /\ FlushAndOverlap(loop, isComplete, read).pushed = flush(loop, isComplete, read).pushed
<1> DEFINE f == flush(loop, isComplete, read)
           o == Overlap(loop.gathered)
           r == FlushAndOverlap(loop, isComplete, read)
<1>1. LoopOK(f, n) /\ f.gathered = loop.gathered
  BY FlushOK
<1>2. /\ loop.gathered \in Seq(Nat) /\ ReadIn(loop.gathered, n) /\ n \in Nat
      /\ f \in LoopType
  BY <1>1 DEF LoopOK, LoopType
<1>3. o \in Seq(Nat) /\ ReadIn(o, n)
  BY <1>2, OverlapFacts, OverlapRead
<1>4. r = [f EXCEPT !.gathered = Overlap(f.gathered)]
  BY DEF FlushAndOverlap
<1> HIDE DEF f, o, r
<1>5. r = [f EXCEPT !.gathered = o]
  BY <1>1, <1>4 DEF o
<1>6. r.gathered = o /\ r.pushed = f.pushed /\ r \in LoopType
  BY <1>2, <1>3, <1>5 DEF LoopType
<1> QED BY <1>1, <1>3, <1>6 DEF LoopOK, r, o, f

\* Lengths are numbers.
LEMMA LengthFacts ==
  ASSUME ChunkerTypeOK
  PROVE  /\ lengths \in Seq(Nat) /\ Len(lengths) \in Nat /\ WordCounts \subseteq Nat
         /\ Len(lengths) \in 0 .. Len(lengths)
<1>1. lengths \in Seq(WordCounts) /\ WordCounts \subseteq Nat
  BY ChunkerAssumption DEF ChunkerTypeOK
<1> PICK s : s = lengths
  OBVIOUS
<1>2. s \in Seq(WordCounts) /\ Len(s) \in Nat /\ \A k \in 1 .. Len(s) : s[k] \in WordCounts
  BY <1>1
<1>3. s = [k \in 1 .. Len(s) |-> s[k]]
  BY <1>2
<1>4. s \in Seq(Nat)
  BY <1>1, <1>2, <1>3
<1> QED BY <1>1, <1>2, <1>4

\* One sentence more: room for it, the sentence, and a cut at the target.
ReadWith(words) == Append(lengths, words)
Room(words)     == MakeRoom(Loop, words, ReadWith(words))
Full(words)     == [Room(words) EXCEPT !.gathered = Append(@, Len(ReadWith(words)))]
Out(words)      == CutAtTarget(Full(words), ReadWith(words))

LEMMA AppendRead ==
  ASSUME NEW n \in Nat, NEW s \in Seq(Nat), ReadIn(s, n)
  PROVE  Append(s, n + 1) \in Seq(Nat) /\ ReadIn(Append(s, n + 1), n + 1)
<1> DEFINE t == Append(s, n + 1)
<1>1. /\ t \in Seq(Nat) /\ Len(t) = Len(s) + 1 /\ t[Len(s) + 1] = n + 1 /\ Len(s) \in Nat
      /\ \A k \in 1 .. Len(s) : t[k] = s[k]
  OBVIOUS
<1> HIDE DEF t
<1>2. ASSUME NEW k \in 1 .. Len(t) PROVE t[k] \in 1 .. n + 1
  <2>1. k \in 1 .. Len(s) \/ k = Len(s) + 1 BY <1>1
  <2> QED BY <1>1, <2>1 DEF ReadIn
<1> QED BY <1>1, <1>2 DEF ReadIn, t

LEMMA LoopGrows ==
  ASSUME NEW n \in Nat, NEW loop, LoopOK(loop, n)
  PROVE  LoopOK(loop, n + 1)
BY DEF LoopOK, ReadIn

LEMMA SentenceSteps ==
  ASSUME ChunkerTypeOK, NEW words \in WordCounts
  PROVE  /\ Len(lengths) \in Nat /\ lengths \in Seq(Nat) /\ words \in Nat
         /\ ReadWith(words) \in Seq(Nat) /\ Len(ReadWith(words)) = Len(lengths) + 1
         /\ ReadWith(words)[Len(lengths) + 1] = words
         /\ LoopOK(Loop, Len(lengths))
         /\ LoopOK(Room(words), Len(lengths))
         /\ LoopOK(Full(words), Len(lengths) + 1)
         /\ Full(words).gathered = Append(Room(words).gathered, Len(lengths) + 1)
         /\ Full(words).pushed = Room(words).pushed
         /\ LoopOK(Out(words), Len(lengths) + 1)
<1>1. /\ options \in Options /\ lengths \in Seq(WordCounts) /\ LoopOK(Loop, Len(lengths))
      /\ WordCounts \subseteq Nat
  BY ChunkerAssumption DEF ChunkerTypeOK
<1>2. lengths \in Seq(Nat) /\ words \in Nat
  BY <1>1, LengthFacts
<1> PICK n \in Nat : n = Len(lengths)
  BY <1>2
<1> DEFINE read == ReadWith(words)
           room == Room(words)
           full == Full(words)
<1>3. read \in Seq(Nat) /\ Len(read) = n + 1 /\ read[n + 1] = words
  BY <1>2 DEF ReadWith
<1>4. room = Loop \/ room = FlushAndOverlap(Loop, FALSE, read)
  BY DEF Room, MakeRoom
<1>5. Out(words) = full \/ Out(words) = FlushAndOverlap(full, FALSE, read)
  BY DEF Out, CutAtTarget
<1>6. full = [room EXCEPT !.gathered = Append(@, n + 1)]
  BY <1>3 DEF Full
<1> HIDE DEF read, room, full
<1>7. LoopOK(room, n)
  <2>1. n \in 0 .. Len(read) BY <1>3
  <2> QED BY <1>1, <1>3, <1>4, <2>1, CutOK
<1>8. /\ LoopOK(full, n + 1) /\ full.gathered = Append(room.gathered, n + 1)
      /\ full.pushed = room.pushed
  <2>1. /\ room \in LoopType /\ room.gathered \in Seq(Nat) /\ ReadIn(room.gathered, n)
        /\ LoopOK(room, n + 1)
    BY <1>7, LoopGrows DEF LoopOK, LoopType
  <2> PICK t : t = Append(room.gathered, n + 1)
    OBVIOUS
  <2>2. t \in Seq(Nat) /\ ReadIn(t, n + 1)
    BY <2>1, AppendRead
  <2>3. full = [room EXCEPT !.gathered = t]
    BY <1>6
  <2>4. full \in LoopType /\ full.gathered = t /\ full.pushed = room.pushed
    BY <2>1, <2>2, <2>3 DEF LoopType
  <2> QED BY <2>1, <2>2, <2>4 DEF LoopOK
<1>9. LoopOK(Out(words), n + 1)
  <2>1. n + 1 \in 0 .. Len(read) BY <1>3
  <2> QED BY <1>1, <1>3, <1>5, <1>8, <2>1, CutOK
<1> QED BY <1>1, <1>2, <1>3, <1>7, <1>8, <1>9 DEF read, room, full

-----------------------------------------------------------------------------
(* Types.                                                                  *)

\* Nothing is read at first.
LEMMA ChunkerTypeInit == Init => ChunkerTypeOK
<1> SUFFICES ASSUME Init PROVE ChunkerTypeOK
  OBVIOUS
<1>1. Loop = [gathered |-> << >>, pushed |-> << >>]
  BY DEF Init, Loop
<1>2. LoopOK(Loop, 0)
  BY <1>1 DEF LoopOK, LoopType, ReadIn
<1>3. lengths = << >> /\ Len(lengths) = 0 /\ sections = << >>
  BY DEF Init
<1>4. << >> \in Seq(WordCounts) /\ << >> \in Seq(Nat)
  OBVIOUS
<1> QED BY <1>2, <1>3, <1>4 DEF Init, ChunkerTypeOK

LEMMA LoopContinues ==
  ASSUME NEW loop \in LoopType, Continue(loop)
  PROVE  Loop' = loop
BY DEF Continue, Loop, LoopType

\* The three kinds of steps, as the loop sees them.
LEMMA StepFacts ==
  ASSUME ChunkerTypeOK, [Next]_vars
  PROVE  \/ \E words \in WordCounts :
              /\ NextSentence(words) /\ section # 0
              /\ lengths' = ReadWith(words) /\ sections' = Append(sections, section)
              /\ Loop' = Out(words) /\ UNCHANGED << options, section >>
         \/ /\ EndParagraph
            /\ Loop' = FlushAndOverlap(Loop, TRUE, lengths) /\ Len(lengths) \in 0 .. Len(lengths)
            /\ countWords(currentSentences, lengths) >= options.minWords
            /\ UNCHANGED << options, section, lengths, sections >>
         \/ /\ section' \in {section + 1, 0} /\ section # 0
            /\ Loop' = [gathered |-> << >>, pushed |-> flush(Loop, TRUE, lengths).pushed]
            /\ inParagraph' = inParagraph
            /\ UNCHANGED << options, lengths, sections >>
         \/ /\ Loop' = Loop /\ UNCHANGED << options, section, lengths, sections >>
            /\ inParagraph' \in BOOLEAN
<1>1. /\ lengths \in Seq(Nat) /\ options \in Options /\ LoopOK(Loop, Len(lengths))
      /\ Len(lengths) \in 0 .. Len(lengths)
  BY LengthFacts DEF ChunkerTypeOK
<1>2. ASSUME NEW words \in WordCounts, NextSentence(words)
      PROVE  /\ lengths' = ReadWith(words) /\ sections' = Append(sections, section)
             /\ section # 0
             /\ Loop' = Out(words) /\ UNCHANGED << options, section >>
  <2>1. Continue(Out(words))
    BY <1>2 DEF NextSentence, ReadWith, Room, Full, Out
  <2>2. Out(words) \in LoopType
    BY SentenceSteps DEF LoopOK
  <2> QED BY <1>2, <2>1, <2>2, LoopContinues DEF NextSentence, ReadWith
<1>3. ASSUME EndParagraph, countWords(currentSentences, lengths) >= options.minWords
      PROVE  Loop' = FlushAndOverlap(Loop, TRUE, lengths)
  <2>1. Continue(FlushAndOverlap(Loop, TRUE, lengths))
    BY <1>3 DEF EndParagraph
  <2>2. FlushAndOverlap(Loop, TRUE, lengths) \in LoopType
    BY <1>1, CutOK DEF LoopOK
  <2> QED BY <2>1, <2>2, LoopContinues
<1>4. ASSUME EndParagraph, ~ (countWords(currentSentences, lengths) >= options.minWords)
      PROVE  Loop' = Loop
  BY <1>4 DEF EndParagraph, Continue, Loop
<1>5. ASSUME NEW next, EndSection(next)
      PROVE  /\ Loop' = [gathered |-> << >>, pushed |-> flush(Loop, TRUE, lengths).pushed]
             /\ section' = next /\ section # 0
             /\ UNCHANGED << options, inParagraph, lengths, sections >>
  BY <1>5 DEF EndSection, Loop
<1>6. CASE UNCHANGED vars
  BY <1>6 DEF vars, Loop, ChunkerTypeOK
<1>7. CASE EndParagraph
  <2>1. UNCHANGED << options, section, lengths, sections >> /\ inParagraph' = FALSE
    BY <1>7 DEF EndParagraph
  <2> QED BY <1>1, <1>3, <1>4, <1>7, <2>1
<1>8. CASE \E words \in WordCounts : NextSentence(words)
  BY <1>2, <1>8
<1>9. CASE (section \in Range(sections) /\ EndSection(section + 1)) \/ EndSection(0)
  BY <1>5, <1>9
<1> QED BY <1>6, <1>7, <1>8, <1>9 DEF Next

LEMMA ChunkerTypeStep ==
  ASSUME ChunkerTypeOK, [Next]_vars
  PROVE  ChunkerTypeOK'
<1>1. /\ lengths \in Seq(Nat) /\ options \in Options /\ LoopOK(Loop, Len(lengths))
      /\ Len(lengths) \in 0 .. Len(lengths) /\ Len(lengths) \in Nat
      /\ lengths \in Seq(WordCounts) /\ sections \in Seq(Nat) /\ Len(sections) = Len(lengths)
      /\ section \in Nat
  BY LengthFacts DEF ChunkerTypeOK
<1>2. inParagraph' \in BOOLEAN
  BY DEF ChunkerTypeOK, Next, vars, NextSentence, EndParagraph, EndSection
<1>3. ASSUME NEW words \in WordCounts, lengths' = ReadWith(words),
             sections' = Append(sections, section), Loop' = Out(words),
             UNCHANGED << options, section >>
      PROVE  ChunkerTypeOK'
  <2>1. /\ ReadWith(words) \in Seq(WordCounts) /\ Len(ReadWith(words)) = Len(lengths) + 1
        /\ Append(sections, section) \in Seq(Nat)
        /\ Len(Append(sections, section)) = Len(sections) + 1
    BY <1>1 DEF ReadWith
  <2>2. LoopOK(Out(words), Len(lengths) + 1)
    BY SentenceSteps
  <2>3. LoopOK(Loop, Len(lengths))'
    BY <1>3, <2>1, <2>2 DEF LoopOK
  <2> QED BY <1>1, <1>2, <1>3, <2>1, <2>3 DEF ChunkerTypeOK
<1>4. ASSUME LoopOK(Loop', Len(lengths)), section' \in Nat,
             UNCHANGED << options, lengths, sections >>
      PROVE  ChunkerTypeOK'
  <2>1. LoopOK(Loop, Len(lengths))'
    BY <1>4 DEF LoopOK
  <2> QED BY <1>1, <1>2, <1>4, <2>1 DEF ChunkerTypeOK
<1>5. LoopOK(FlushAndOverlap(Loop, TRUE, lengths), Len(lengths))
  BY <1>1, CutOK
<1>6. LoopOK([gathered |-> << >>, pushed |-> flush(Loop, TRUE, lengths).pushed], Len(lengths))
  <2>1. LoopOK(flush(Loop, TRUE, lengths), Len(lengths))
    BY <1>1, FlushOK
  <2> PICK p : p = flush(Loop, TRUE, lengths).pushed
    OBVIOUS
  <2>2. p \in Seq(Chunk) /\ \A c \in 1 .. Len(p) : ReadIn(p[c].sentences, Len(lengths))
    BY <2>1 DEF LoopOK, LoopType
  <2>3. << >> \in Seq(Nat) /\ ReadIn(<< >>, Len(lengths))
    BY DEF ReadIn
  <2> QED BY <2>2, <2>3 DEF LoopOK, LoopType
<1>7. section + 1 \in Nat /\ 0 \in Nat
  BY <1>1
<1> QED BY <1>1, <1>3, <1>4, <1>5, <1>6, <1>7, StepFacts

-----------------------------------------------------------------------------
(* The ceiling.                                                            *)

\* Beyond the ceiling there is at most one sentence besides the overlap.
Fits(s, read) ==
  countWords(s, read) > options.maxWords => Len(s) <= options.overlapSentences + 1

SizeOK(loop, read) ==
  options.overlapSentences > 0 =>
    /\ Fits(loop.gathered, read)
    /\ \A c \in 1 .. Len(loop.pushed) : Fits(loop.pushed[c].sentences, read)

SizeInv == SizeOK(Loop, lengths)

LEMMA FitsGrows ==
  ASSUME NEW read \in Seq(Nat), NEW w \in Nat, NEW loop, LoopOK(loop, Len(read)),
         SizeOK(loop, read)
  PROVE  SizeOK(loop, Append(read, w))
<1> SUFFICES ASSUME options.overlapSentences > 0 PROVE SizeOK(loop, Append(read, w))
  BY DEF SizeOK
<1>1. ASSUME NEW s \in Seq(Nat), ReadIn(s, Len(read)), Fits(s, read)
      PROVE  Fits(s, Append(read, w))
  BY <1>1, CountGrows DEF Fits
<1>2. loop.gathered \in Seq(Nat) /\ ReadIn(loop.gathered, Len(read)) /\ loop.pushed \in Seq(Chunk)
  BY DEF LoopOK, LoopType
<1>3. ASSUME NEW c \in 1 .. Len(loop.pushed) PROVE Fits(loop.pushed[c].sentences, Append(read, w))
  <2>1. loop.pushed[c] \in Chunk /\ ReadIn(loop.pushed[c].sentences, Len(read))
    BY <1>2 DEF LoopOK
  <2>2. loop.pushed[c].sentences \in Seq(Nat)
    BY <2>1 DEF Chunk
  <2> QED BY <1>1, <2>1, <2>2 DEF SizeOK
<1> QED BY <1>1, <1>2, <1>3 DEF SizeOK

\* What is pushed was gathered.
LEMMA SizeFlush ==
  ASSUME options \in Options, NEW read \in Seq(Nat), NEW loop, LoopOK(loop, Len(read)),
         SizeOK(loop, read), NEW isComplete \in BOOLEAN, options.overlapSentences > 0
  PROVE  \A c \in 1 .. Len(flush(loop, isComplete, read).pushed) :
           Fits(flush(loop, isComplete, read).pushed[c].sentences, read)
<1> DEFINE p == flush(loop, isComplete, read).pushed
           g == [sentences |-> loop.gathered, isComplete |-> isComplete]
<1>1. loop.pushed \in Seq(Chunk) /\ g \in Chunk /\ g.sentences = loop.gathered
  BY DEF LoopOK, LoopType, Chunk
<1>2. p = loop.pushed \/ p = Append(loop.pushed, g)
  <2>1. Len(read) \in 0 .. Len(read) OBVIOUS
  <2> QED BY <2>1, FlushOK
<1> HIDE DEF p, g
<1>3. CASE p = loop.pushed
  BY <1>3 DEF SizeOK, p
<1>4. CASE p = Append(loop.pushed, g)
  <2>1. /\ Len(loop.pushed) \in Nat /\ Len(p) = Len(loop.pushed) + 1
        /\ p[Len(loop.pushed) + 1] = g
        /\ \A k \in 1 .. Len(loop.pushed) : p[k] = loop.pushed[k]
    BY <1>1, <1>4, PushedFacts
  <2>2. ASSUME NEW c \in 1 .. Len(p) PROVE Fits(p[c].sentences, read)
    <3>1. c \in 1 .. Len(loop.pushed) \/ c = Len(loop.pushed) + 1 BY <2>1
    <3> QED BY <1>1, <2>1, <3>1 DEF SizeOK
  <2> QED BY <2>2 DEF p
<1> QED BY <1>2, <1>3, <1>4

LEMMA SizeCut ==
  ASSUME options \in Options, NEW read \in Seq(Nat), NEW loop, LoopOK(loop, Len(read)),
         SizeOK(loop, read), NEW isComplete \in BOOLEAN
  PROVE  SizeOK(FlushAndOverlap(loop, isComplete, read), read)
<1> SUFFICES ASSUME options.overlapSentences > 0
             PROVE  SizeOK(FlushAndOverlap(loop, isComplete, read), read)
  BY DEF SizeOK
<1>1. /\ FlushAndOverlap(loop, isComplete, read).gathered = Overlap(loop.gathered)
      /\ FlushAndOverlap(loop, isComplete, read).pushed = flush(loop, isComplete, read).pushed
  <2>1. Len(read) \in 0 .. Len(read) OBVIOUS
  <2> QED BY <2>1, CutOK
<1>2. Fits(Overlap(loop.gathered), read)
  <2>1. loop.gathered \in Seq(Nat) BY DEF LoopOK, LoopType
  <2> QED BY <2>1, OverlapFacts, OptionFacts DEF Fits
<1> QED BY <1>1, <1>2, SizeFlush DEF SizeOK

LEMMA SizeSentence ==
  ASSUME ChunkerTypeOK, SizeInv, NEW words \in WordCounts
  PROVE  SizeOK(Out(words), ReadWith(words))
<1> SUFFICES ASSUME options.overlapSentences > 0 PROVE SizeOK(Out(words), ReadWith(words))
  BY DEF SizeOK
<1> DEFINE read == ReadWith(words)
           room == Room(words)
           full == Full(words)
<1>1. /\ options \in Options /\ lengths \in Seq(Nat) /\ words \in Nat
      /\ Len(lengths) \in Nat /\ read \in Seq(Nat) /\ Len(read) = Len(lengths) + 1
      /\ read[Len(lengths) + 1] = words /\ LoopOK(Loop, Len(lengths)) /\ LoopOK(room, Len(lengths))
      /\ LoopOK(full, Len(read))
      /\ full.gathered = Append(room.gathered, Len(lengths) + 1) /\ full.pushed = room.pushed
  BY SentenceSteps DEF ChunkerTypeOK
<1>2. LoopOK(Loop, Len(read)) /\ LoopOK(room, Len(read))
  BY <1>1, LoopGrows
<1>3. SizeOK(Loop, read)
  BY <1>1, FitsGrows DEF SizeInv, ReadWith
<1>4. \/ /\ room = Loop
         /\ \/ ~ (countWords(room.gathered, read) + words > options.maxWords)
            \/ room.gathered = << >>
      \/ room = FlushAndOverlap(Loop, FALSE, read)
  BY DEF Room, MakeRoom
<1>5. Out(words) = full \/ Out(words) = FlushAndOverlap(full, FALSE, read)
  BY DEF Out, CutAtTarget
<1> HIDE DEF read, room, full
<1>6. SizeOK(room, read)
  BY <1>1, <1>2, <1>3, <1>4, SizeCut
<1>7. \/ ~ (countWords(room.gathered, read) + words > options.maxWords)
      \/ Len(room.gathered) <= options.overlapSentences
  <2>1. CASE room = FlushAndOverlap(Loop, FALSE, read)
    <3>1. room.gathered = Overlap(Loop.gathered)
      <4>1. Len(read) \in 0 .. Len(read) BY <1>1
      <4> QED BY <1>1, <1>2, <2>1, <4>1, CutOK
    <3>2. Loop.gathered \in Seq(Nat) BY <1>1 DEF LoopOK, LoopType
    <3> QED BY <1>1, <3>1, <3>2, OverlapFacts
  <2>2. CASE room.gathered = << >>
    BY <1>1, <2>2, OptionFacts
  <2> QED BY <1>4, <2>1, <2>2
<1>8. Fits(full.gathered, read)
  <2>1. /\ room.gathered \in Seq(Nat) /\ ReadIn(room.gathered, Len(read))
        /\ Len(lengths) + 1 \in 1 .. Len(read)
    BY <1>1, <1>2 DEF LoopOK, LoopType
  <2> PICK g \in Seq(Nat) : g = room.gathered
    BY <2>1
  <2>2. countWords(full.gathered, read) = countWords(g, read) + words
    BY <1>1, <2>1, CountAppend
  <2>3. Len(full.gathered) = Len(g) + 1 /\ Len(g) \in Nat
    BY <1>1
  <2>4. options.overlapSentences \in Nat
    BY <1>1, OptionFacts
  <2> QED BY <1>7, <2>2, <2>3, <2>4 DEF Fits
<1>9. SizeOK(full, read)
  BY <1>1, <1>6, <1>8 DEF SizeOK
<1> QED BY <1>1, <1>5, <1>9, SizeCut DEF read

LEMMA SizeStep ==
  ASSUME ChunkerTypeOK, SizeInv, [Next]_vars
  PROVE  SizeInv'
<1>1. /\ options \in Options /\ lengths \in Seq(Nat) /\ LoopOK(Loop, Len(lengths))
      /\ Len(lengths) \in 0 .. Len(lengths)
  BY LengthFacts DEF ChunkerTypeOK
<1>2. ASSUME NEW loop, NEW read, Loop' = loop, lengths' = read, options' = options,
             SizeOK(loop, read)
      PROVE  SizeInv'
  BY <1>2 DEF SizeInv, SizeOK, Fits, countWords
<1>3. SizeOK([gathered |-> << >>, pushed |-> flush(Loop, TRUE, lengths).pushed], lengths)
  <2>1. Fits(<< >>, lengths)
    BY <1>1, OptionFacts DEF Fits
  <2> QED BY <1>1, <2>1, SizeFlush DEF SizeOK, SizeInv
<1>4. SizeOK(FlushAndOverlap(Loop, TRUE, lengths), lengths)
  BY <1>1, SizeCut DEF SizeInv
<1>5. SizeOK(Loop, lengths)
  BY DEF SizeInv
<1> QED BY <1>2, <1>3, <1>4, <1>5, SizeSentence, StepFacts

-----------------------------------------------------------------------------
(* Repetitions.                                                            *)

RepeatOK(loop) ==
  options.overlapSentences > 0 =>
    /\ \A i \in 1 .. Len(loop.pushed) :
         Range(loop.gathered) \subseteq Range(loop.pushed[i].sentences) =>
           Len(loop.gathered) <= options.overlapSentences
    /\ \A i, j \in 1 .. Len(loop.pushed) :
         i < j /\ Range(loop.pushed[j].sentences) \subseteq Range(loop.pushed[i].sentences) =>
           Len(loop.pushed[j].sentences) <= options.overlapSentences

RepeatInv == RepeatOK(Loop)

LEMMA RepeatFlush ==
  ASSUME options \in Options, NEW read \in Seq(Nat), NEW n \in 0 .. Len(read),
         NEW loop, LoopOK(loop, n), RepeatOK(loop), NEW isComplete \in BOOLEAN,
         options.overlapSentences > 0,
         NEW s \in Seq(Nat), Len(s) <= options.overlapSentences
  PROVE  RepeatOK([gathered |-> s, pushed |-> flush(loop, isComplete, read).pushed])
<1> DEFINE p == flush(loop, isComplete, read).pushed
           g == [sentences |-> loop.gathered, isComplete |-> isComplete]
<1>1. loop.pushed \in Seq(Chunk) /\ g \in Chunk /\ g.sentences = loop.gathered
  BY DEF LoopOK, LoopType, Chunk
<1>2. p = loop.pushed \/ p = Append(loop.pushed, g)
  BY FlushOK
<1> HIDE DEF p, g
<1>3. ASSUME NEW i \in 1 .. Len(p), NEW j \in 1 .. Len(p), i < j,
             Range(p[j].sentences) \subseteq Range(p[i].sentences)
      PROVE  Len(p[j].sentences) <= options.overlapSentences
  <2>1. CASE p = loop.pushed
    BY <1>3, <2>1 DEF RepeatOK
  <2>2. CASE p = Append(loop.pushed, g)
    <3>1. /\ Len(loop.pushed) \in Nat /\ Len(p) = Len(loop.pushed) + 1
          /\ p[Len(loop.pushed) + 1] = g
          /\ \A k \in 1 .. Len(loop.pushed) : p[k] = loop.pushed[k]
      BY <1>1, <2>2, PushedFacts
    <3>2. i \in 1 .. Len(loop.pushed) /\ (j \in 1 .. Len(loop.pushed) \/ j = Len(loop.pushed) + 1)
      BY <1>3, <3>1
    <3> QED BY <1>1, <1>3, <3>1, <3>2 DEF RepeatOK
  <2> QED BY <1>2, <2>1, <2>2
<1> DEFINE r == [gathered |-> s, pushed |-> p]
<1>4. r.gathered = s /\ r.pushed = p
  OBVIOUS
<1> HIDE DEF r
<1>5. RepeatOK(r)
  BY <1>3, <1>4 DEF RepeatOK
<1> QED BY <1>5 DEF r, p

LEMMA RepeatCut ==
  ASSUME options \in Options, NEW read \in Seq(Nat), NEW n \in 0 .. Len(read),
         NEW loop, LoopOK(loop, n), RepeatOK(loop), NEW isComplete \in BOOLEAN
  PROVE  RepeatOK(FlushAndOverlap(loop, isComplete, read))
<1> SUFFICES ASSUME options.overlapSentences > 0
             PROVE  RepeatOK(FlushAndOverlap(loop, isComplete, read))
  BY DEF RepeatOK
<1> DEFINE r == FlushAndOverlap(loop, isComplete, read)
           p == flush(loop, isComplete, read).pushed
<1>1. /\ r.gathered = Overlap(loop.gathered) /\ r.pushed = p
  BY CutOK
<1>2. loop.gathered \in Seq(Nat)
  BY DEF LoopOK, LoopType
<1>3. Overlap(loop.gathered) \in Seq(Nat) /\ Len(Overlap(loop.gathered)) <= options.overlapSentences
  BY <1>2, OverlapFacts
<1> PICK s \in Seq(Nat) : s = Overlap(loop.gathered)
  BY <1>3
<1>4. RepeatOK([gathered |-> s, pushed |-> p])
  BY <1>3, RepeatFlush
<1> HIDE DEF r, p
<1>5. RepeatOK(r)
  BY <1>1, <1>4 DEF RepeatOK
<1> QED BY <1>5 DEF r

\* A sentence that was just read is in no chunk yet.
LEMMA RepeatSentence ==
  ASSUME ChunkerTypeOK, RepeatInv, NEW words \in WordCounts
  PROVE  RepeatOK(Out(words))
<1> DEFINE n    == Len(lengths)
           read == ReadWith(words)
           room == Room(words)
           full == Full(words)
<1>1. /\ options \in Options /\ n \in Nat /\ read \in Seq(Nat) /\ Len(read) = n + 1
      /\ LoopOK(Loop, n) /\ LoopOK(room, n) /\ LoopOK(full, n + 1)
      /\ full.gathered = Append(room.gathered, n + 1) /\ full.pushed = room.pushed
  BY SentenceSteps DEF ChunkerTypeOK
<1>2. room = Loop \/ room = FlushAndOverlap(Loop, FALSE, read)
  BY DEF Room, MakeRoom
<1>3. Out(words) = full \/ Out(words) = FlushAndOverlap(full, FALSE, read)
  BY DEF Out, CutAtTarget
<1> HIDE DEF n, read, room, full
<1>4. n \in 0 .. Len(read) /\ n + 1 \in 0 .. Len(read)
  BY <1>1
<1>5. RepeatOK(room)
  BY <1>1, <1>2, <1>4, RepeatCut DEF RepeatInv
<1>6. ASSUME NEW i \in 1 .. Len(full.pushed)
      PROVE  ~ (Range(full.gathered) \subseteq Range(full.pushed[i].sentences))
  <2>1. /\ room.gathered \in Seq(Nat) /\ room.pushed \in Seq(Chunk) /\ i \in 1 .. Len(room.pushed)
    BY <1>1 DEF LoopOK, LoopType
  <2>2. n + 1 \in Range(full.gathered)
    <3>1. /\ Len(room.gathered) + 1 \in DOMAIN Append(room.gathered, n + 1)
          /\ Append(room.gathered, n + 1)[Len(room.gathered) + 1] = n + 1
      BY <2>1
    <3> QED BY <1>1, <3>1 DEF Range
  <2>3. n + 1 \notin Range(room.pushed[i].sentences)
    <3>1. room.pushed[i] \in Chunk /\ ReadIn(room.pushed[i].sentences, n)
      BY <1>1, <2>1 DEF LoopOK
    <3>2. room.pushed[i].sentences \in Seq(Nat) BY <3>1 DEF Chunk
    <3>3. DOMAIN room.pushed[i].sentences = 1 .. Len(room.pushed[i].sentences) BY <3>2
    <3> QED BY <1>1, <3>1, <3>3 DEF ReadIn, Range
  <2> QED BY <1>1, <2>2, <2>3
<1>7. RepeatOK(full)
  BY <1>1, <1>5, <1>6 DEF RepeatOK
<1> QED BY <1>1, <1>3, <1>4, <1>7, RepeatCut DEF read

LEMMA RepeatStep ==
  ASSUME ChunkerTypeOK, RepeatInv, [Next]_vars
  PROVE  RepeatInv'
<1>1. /\ options \in Options /\ lengths \in Seq(Nat) /\ LoopOK(Loop, Len(lengths))
      /\ Len(lengths) \in 0 .. Len(lengths)
  BY LengthFacts DEF ChunkerTypeOK
<1>2. ASSUME NEW loop, Loop' = loop, options' = options, RepeatOK(loop)
      PROVE  RepeatInv'
  BY <1>2 DEF RepeatInv, RepeatOK
<1>3. RepeatOK([gathered |-> << >>, pushed |-> flush(Loop, TRUE, lengths).pushed])
  <2>1. CASE options.overlapSentences > 0
    <3>1. << >> \in Seq(Nat) /\ Len(<< >>) <= options.overlapSentences
      BY <1>1, OptionFacts
    <3> QED BY <1>1, <2>1, <3>1, RepeatFlush DEF RepeatInv
  <2>2. CASE ~ (options.overlapSentences > 0)
    BY <2>2 DEF RepeatOK
  <2> QED BY <2>1, <2>2
<1>4. RepeatOK(FlushAndOverlap(Loop, TRUE, lengths))
  BY <1>1, RepeatCut DEF RepeatInv
<1>5. RepeatOK(Loop)
  BY DEF RepeatInv
<1> QED BY <1>2, <1>3, <1>4, <1>5, RepeatSentence, StepFacts

-----------------------------------------------------------------------------
(* Losses.                                                                 *)

\* s is sentences m + 1, m + 2, ...
Run(s, m) == \A k \in 1 .. Len(s) : s[k] = m + k

Stretch(i, j) == [k \in 1 .. j - i + 1 |-> i + k - 1]

LEMMA RunSum ==
  ASSUME NEW read \in Seq(Nat), NEW s \in Seq(Nat), NEW m \in Nat,
         m + Len(s) <= Len(read), Run(s, m)
  PROVE  /\ countWords(s, read) \in Nat /\ SumTo(read, m) \in Nat
         /\ SumTo(read, m + Len(s)) = SumTo(read, m) + countWords(s, read)
<1> DEFINE f == [k \in DOMAIN s |-> read[s[k]]]
           N == Len(s)
<1>1. /\ N \in Nat /\ DOMAIN s = 1 .. N
      /\ \A k \in 1 .. Len(read) : read[k] \in Nat
      /\ \A k \in 1 .. N : m + k \in 1 .. Len(read) /\ s[k] = m + k
  BY DEF Run
<1>2. \A k \in 1 .. N : f[k] = read[m + k] /\ f[k] \in Nat
  BY <1>1
<1>3. countWords(s, read) = SumTo(f, N)
  BY DEF countWords
<1> HIDE DEF f, N
<1>4. Joined(read, read, m, f, N)
  <2>1. \A k \in 1 .. m : read[k] \in Int
    BY <1>1 DEF N
  <2>2. \A k \in 1 .. N : f[k] \in Int /\ read[m + k] = f[k]
    BY <1>2
  <2> QED BY <2>1, <2>2 DEF Joined
<1>5. SumTo(read, m + N) = SumTo(read, m) + SumTo(f, N)
  BY <1>1, <1>4, SumConcat
<1>6. SumTo(f, N) \in Nat
  BY <1>1, <1>2, SumNat
<1>7. SumTo(read, m) \in Nat
  <2>1. \A k \in 1 .. m : read[k] \in Nat
    BY <1>1 DEF N
  <2> QED BY <2>1, SumNat
<1> QED BY <1>3, <1>5, <1>6, <1>7 DEF N

\* A part of a run has at most its words.
LEMMA CountWithin ==
  ASSUME NEW read \in Seq(Nat), NEW s \in Seq(Nat), NEW m \in Nat, Run(s, m),
         m + Len(s) <= Len(read),
         NEW i \in Nat, NEW j \in Nat, m < i, i <= j, j <= m + Len(s)
  PROVE  /\ countWords(Stretch(i, j), read) <= countWords(s, read)
         /\ countWords(Stretch(i, j), read) \in Nat
<1> DEFINE t == Stretch(i, j)
<1>1. /\ t \in Seq(Nat) /\ Len(t) = j - i + 1 /\ Run(t, i - 1) /\ i - 1 \in Nat
      /\ (i - 1) + Len(t) = j /\ j <= Len(read)
  <2>1. j - i + 1 \in Nat /\ \A k \in 1 .. j - i + 1 : i + k - 1 \in Nat
    OBVIOUS
  <2>2. t \in Seq(Nat) /\ Len(t) = j - i + 1
    BY <2>1 DEF Stretch
  <2>3. Run(t, i - 1)
    BY <2>2 DEF Run, Stretch
  <2> QED BY <2>2, <2>3
<1> HIDE DEF t
<1>2. /\ countWords(t, read) \in Nat
      /\ SumTo(read, j) = SumTo(read, i - 1) + countWords(t, read) /\ SumTo(read, i - 1) \in Nat
  BY <1>1, RunSum
<1>3. /\ countWords(s, read) \in Nat /\ SumTo(read, m) \in Nat
      /\ SumTo(read, m + Len(s)) = SumTo(read, m) + countWords(s, read)
  BY RunSum
<1>4. \A k \in 1 .. Len(read) : read[k] \in Nat
  OBVIOUS
<1>5. SumTo(read, m) <= SumTo(read, i - 1)
  <2>1. m \in 0 .. i - 1 /\ \A k \in 1 .. i - 1 : read[k] \in Nat BY <1>1, <1>4
  <2> QED BY <1>1, <2>1, SumMonotonic
<1>6. SumTo(read, j) <= SumTo(read, m + Len(s))
  <2>1. /\ j \in 0 .. m + Len(s) /\ m + Len(s) \in Nat
        /\ \A k \in 1 .. m + Len(s) : read[k] \in Nat
    BY <1>4
  <2> QED BY <2>1, SumMonotonic
<1> QED BY <1>2, <1>3, <1>5, <1>6 DEF t

LEMMA StretchGrows ==
  ASSUME NEW read \in Seq(Nat), NEW w \in Nat, NEW i \in Nat, NEW j \in Nat,
         0 < i, i <= j, j <= Len(read)
  PROVE  countWords(Stretch(i, j), Append(read, w)) = countWords(Stretch(i, j), read)
<1>1. j - i + 1 \in Nat /\ \A k \in 1 .. j - i + 1 : i + k - 1 \in 1 .. Len(read)
  OBVIOUS
<1>2. Stretch(i, j) \in Seq(Nat) /\ Len(Stretch(i, j)) = j - i + 1
  BY <1>1 DEF Stretch
<1>3. ReadIn(Stretch(i, j), Len(read))
  BY <1>1, <1>2 DEF ReadIn, Stretch
<1> QED BY <1>2, <1>3, CountGrows

\* A chunk has a sentence of i .. j.
Hit(chunks, i, j) ==
  \E c \in 1 .. Len(chunks) : \E k \in 1 .. Len(chunks[c].sentences) :
    chunks[c].sentences[k] \in i .. j

\* The condition of LostOnlyInFragments.
KeepsText ==
  /\ options.minWords <= options.targetWords
  /\ options.minWords + options.targetWords <= options.maxWords

\* What is gathered are the last sentences that were read, all of this section.
GatheredOK(loop, n, secs, sec) ==
  /\ Len(loop.gathered) <= n /\ Run(loop.gathered, n - Len(loop.gathered))
  /\ \A k \in 1 .. n : k > n - Len(loop.gathered) => secs[k] = sec

\* The stretches that chunks have to hit.
Long(i, j, read, secs) ==
  /\ i <= j /\ secs[i] = secs[j]
  /\ countWords(Stretch(i, j), read) >= options.minWords

LostOK(loop, read, secs, sec) ==
  KeepsText =>
    /\ \A i, j \in 1 .. Len(read) :
         Long(i, j, read, secs) => Hit(loop.pushed, i, j) \/ i > Len(read) - Len(loop.gathered)
    /\ \A i \in 1 .. Len(read) :
         secs[i] = sec /\ i <= Len(read) - Len(loop.gathered) => Hit(loop.pushed, i, Len(read))

\* Every long stretch is hit.
NothingLost(loop, read, secs) ==
  \A i, j \in 1 .. Len(read) : Long(i, j, read, secs) => Hit(loop.pushed, i, j)

\* Sections are numbered in the order in which they are read.
SectionsOK ==
  \A k \in 1 .. Len(lengths) : sections[k] # 0 /\ (section # 0 => sections[k] <= section)

LostInv ==
  /\ SectionsOK
  /\ GatheredOK(Loop, Len(lengths), sections, section)
  /\ LostOK(Loop, lengths, sections, section)

\* The overlap of what is gathered are the last sentences, too.
LEMMA OverlapGathered ==
  ASSUME options \in Options, NEW n \in Nat, NEW s \in Seq(Nat), Len(s) <= n, Run(s, n - Len(s))
  PROVE  /\ Len(Overlap(s)) <= n /\ Run(Overlap(s), n - Len(Overlap(s)))
         /\ Len(Overlap(s)) <= Len(s)
<1>1. /\ Len(Overlap(s)) \in Nat /\ Len(Overlap(s)) <= Len(s) /\ Len(s) \in Nat
      /\ \A k \in 1 .. Len(Overlap(s)) :
           /\ Len(s) - Len(Overlap(s)) + k \in 1 .. Len(s)
           /\ Overlap(s)[k] = s[Len(s) - Len(Overlap(s)) + k]
  BY OverlapFacts
<1> PICK m \in Nat : m = Len(Overlap(s))
  BY <1>1
<1>2. ASSUME NEW k \in 1 .. m PROVE Overlap(s)[k] = n - m + k
  <2>1. Overlap(s)[k] = s[Len(s) - m + k] /\ Len(s) - m + k \in 1 .. Len(s)
    BY <1>1
  <2>2. s[Len(s) - m + k] = (n - Len(s)) + (Len(s) - m + k)
    BY <2>1 DEF Run
  <2> QED BY <1>1, <2>1, <2>2
<1> QED BY <1>1, <1>2 DEF Run

\* A hit stays, whatever is pushed.
LEMMA HitStays ==
  ASSUME NEW chunks \in Seq(Chunk), NEW c \in Chunk, NEW i, NEW j, Hit(chunks, i, j)
  PROVE  Hit(Append(chunks, c), i, j)
<1> DEFINE p == Append(chunks, c)
<1>1. /\ Len(chunks) \in Nat /\ Len(p) = Len(chunks) + 1
      /\ \A k \in 1 .. Len(chunks) : p[k] = chunks[k]
  BY PushedFacts
<1> HIDE DEF p
<1>2. PICK x \in 1 .. Len(chunks) : \E k \in 1 .. Len(chunks[x].sentences) :
              chunks[x].sentences[k] \in i .. j
  BY DEF Hit
<1>3. x \in 1 .. Len(p) /\ p[x] = chunks[x]
  BY <1>1
<1>4. Hit(p, i, j)
  BY <1>2, <1>3 DEF Hit
<1> QED BY <1>4 DEF p

\* A wider stretch is hit as well.
LEMMA HitWider ==
  ASSUME NEW chunks, NEW i \in Nat, NEW j \in Nat, NEW l \in Nat, j <= l, Hit(chunks, i, j)
  PROVE  Hit(chunks, i, l)
<1>1. ASSUME NEW y \in i .. j PROVE y \in i .. l
  OBVIOUS
<1> QED BY <1>1 DEF Hit

\* A chunk that is pushed hits what it holds.
LEMMA PushHits ==
  ASSUME NEW chunks \in Seq(Chunk), NEW c \in Chunk, NEW n \in Nat,
         Len(c.sentences) <= n, Run(c.sentences, n - Len(c.sentences)), c.sentences # << >>
  PROVE  /\ \A i \in 1 .. n : Hit(Append(chunks, c), i, n)
         /\ \A i, j \in 1 .. n : i <= j /\ i > n - Len(c.sentences) =>
              Hit(Append(chunks, c), i, j)
<1> DEFINE p == Append(chunks, c)
<1> PICK s : s = c.sentences
  OBVIOUS
<1>1. s \in Seq(Nat) /\ Len(s) \in Nat /\ Len(s) <= n /\ Len(s) > 0 /\ Run(s, n - Len(s))
  <2>1. s \in Seq(Nat) /\ s # << >> BY DEF Chunk
  <2> QED BY <2>1
<1>2. /\ Len(chunks) \in Nat /\ Len(p) = Len(chunks) + 1 /\ p[Len(chunks) + 1] = c
  BY PushedFacts
<1>3. Len(chunks) + 1 \in 1 .. Len(p)
  BY <1>2
<1> HIDE DEF p
<1>4. ASSUME NEW i, NEW j, NEW k \in 1 .. Len(s), s[k] \in i .. j PROVE Hit(p, i, j)
  <2>1. Len(p[Len(chunks) + 1].sentences) = Len(s) /\ p[Len(chunks) + 1].sentences[k] \in i .. j
    BY <1>2, <1>4
  <2> QED BY <1>3, <2>1 DEF Hit
<1>5. ASSUME NEW i \in 1 .. n PROVE Hit(p, i, n)
  <2>1. Len(s) \in 1 .. Len(s)
    BY <1>1
  <2>3. s[Len(s)] = (n - Len(s)) + Len(s)
    BY <1>1, <2>1 DEF Run
  <2>4. s[Len(s)] = n
    BY <1>1, <2>3
  <2>2. s[Len(s)] \in i .. n
    BY <2>4
  <2> QED BY <1>4, <2>1, <2>2
<1>6. ASSUME NEW i \in 1 .. n, NEW j \in 1 .. n, i <= j, i > n - Len(s) PROVE Hit(p, i, j)
  <2>1. PICK k \in Nat : k = i - (n - Len(s))
    BY <1>1, <1>6
  <2>2. k \in 1 .. Len(s)
    BY <1>1, <1>6, <2>1
  <2>4. s[k] = (n - Len(s)) + k
    BY <2>2, <1>1 DEF Run
  <2>5. s[k] = i
    <3>1. \A N \in Nat : (n - N) + (i - (n - N)) = i
      BY <1>6
    <3> QED BY <1>1, <2>1, <2>4, <3>1
  <2>3. s[k] \in i .. j
    BY <1>6, <2>5
  <2> QED BY <1>4, <2>2, <2>3
<1> QED BY <1>5, <1>6 DEF p

\* After a push nothing is lost, and every stretch that ends now is hit.
LEMMA PushLosesNothing ==
  ASSUME options \in Options, NEW read \in Seq(Nat), NEW loop, LoopOK(loop, Len(read)),
         NEW isComplete \in BOOLEAN, NEW secs, NEW sec,
         GatheredOK(loop, Len(read), secs, sec),
         \A i, j \in 1 .. Len(read) : j < Len(read) /\ Long(i, j, read, secs) =>
            Hit(loop.pushed, i, j) \/ i > Len(read) - Len(loop.gathered),
         Pushes(loop, isComplete, read)
  PROVE  /\ NothingLost(flush(loop, isComplete, read), read, secs)
         /\ \A i \in 1 .. Len(read) : Hit(flush(loop, isComplete, read).pushed, i, Len(read))
<1> DEFINE c == [sentences |-> loop.gathered, isComplete |-> isComplete]
           n == Len(read)
<1>1. /\ loop.pushed \in Seq(Chunk) /\ c \in Chunk /\ c.sentences = loop.gathered /\ n \in Nat
  BY DEF LoopOK, LoopType, Chunk
<1>2. flush(loop, isComplete, read).pushed = Append(loop.pushed, c) /\ loop.gathered # << >>
  BY DEF Pushes
<1> HIDE DEF c
<1>3. /\ \A i \in 1 .. n : Hit(Append(loop.pushed, c), i, n)
      /\ \A i, j \in 1 .. n : i <= j /\ i > n - Len(loop.gathered) =>
           Hit(Append(loop.pushed, c), i, j)
  BY <1>1, <1>2, PushHits DEF GatheredOK
<1>4. ASSUME NEW i \in 1 .. n, NEW j \in 1 .. n, Long(i, j, read, secs)
      PROVE  Hit(Append(loop.pushed, c), i, j)
  <2>1. i <= j BY <1>4 DEF Long
  <2>2. CASE j < n
    BY <1>1, <1>3, <1>4, <2>1, <2>2, HitStays
  <2>3. CASE j = n
    BY <1>3, <2>3
  <2> QED BY <1>1, <2>2, <2>3
<1> QED BY <1>2, <1>3, <1>4 DEF NothingLost

\* So a cut that pushes keeps the books.
LEMMA LostCut ==
  ASSUME options \in Options, NEW read \in Seq(Nat), NEW loop, LoopOK(loop, Len(read)),
         NEW isComplete \in BOOLEAN, NEW secs, NEW sec,
         GatheredOK(loop, Len(read), secs, sec)
  PROVE  /\ GatheredOK(FlushAndOverlap(loop, isComplete, read), Len(read), secs, sec)
         /\ LostOK(loop, read, secs, sec) /\ Pushes(loop, isComplete, read) =>
              LostOK(FlushAndOverlap(loop, isComplete, read), read, secs, sec)
<1> DEFINE r == FlushAndOverlap(loop, isComplete, read)
           n == Len(read)
<1>1. r.gathered = Overlap(loop.gathered) /\ r.pushed = flush(loop, isComplete, read).pushed
  <2>1. n \in 0 .. n OBVIOUS
  <2> QED BY <2>1, CutOK
<1>2. loop.gathered \in Seq(Nat) /\ n \in Nat
  BY DEF LoopOK, LoopType
<1>3. /\ Len(Overlap(loop.gathered)) <= n
      /\ Run(Overlap(loop.gathered), n - Len(Overlap(loop.gathered)))
      /\ Len(Overlap(loop.gathered)) <= Len(loop.gathered)
      /\ Len(Overlap(loop.gathered)) \in Nat /\ Len(loop.gathered) \in Nat
  <2> PICK s \in Seq(Nat) : s = loop.gathered
    BY <1>2
  <2>1. Len(s) <= n /\ Run(s, n - Len(s))
    BY DEF GatheredOK
  <2> HIDE DEF n
  <2>2. /\ Len(Overlap(s)) <= n /\ Run(Overlap(s), n - Len(Overlap(s)))
        /\ Len(Overlap(s)) <= Len(s)
    BY <1>2, <2>1, OverlapGathered
  <2>3. Len(Overlap(s)) \in Nat /\ Len(s) \in Nat
    BY OverlapFacts
  <2> QED BY <2>2, <2>3
<1> HIDE DEF r
<1>4. GatheredOK(r, n, secs, sec)
  <2>1. \A k \in 1 .. n : k > n - Len(Overlap(loop.gathered)) => k > n - Len(loop.gathered)
    BY <1>2, <1>3
  <2> QED BY <1>1, <1>3, <2>1 DEF GatheredOK
<1>5. ASSUME LostOK(loop, read, secs, sec), Pushes(loop, isComplete, read), KeepsText
      PROVE  LostOK(r, read, secs, sec)
  BY <1>1, <1>5, PushLosesNothing DEF LostOK, NothingLost
<1> QED BY <1>4, <1>5 DEF r, LostOK

\* A sentence is gathered.
LEMMA LostGathers ==
  ASSUME NEW read \in Seq(Nat), NEW w \in Nat, NEW loop, LoopOK(loop, Len(read)),
         NEW secs \in Seq(Nat), Len(secs) = Len(read), NEW sec \in Nat, NEW full,
         full.gathered = Append(loop.gathered, Len(read) + 1), full.pushed = loop.pushed,
         GatheredOK(loop, Len(read), secs, sec)
  PROVE  /\ GatheredOK(full, Len(read) + 1, Append(secs, sec), sec)
         /\ \A i, j \in 1 .. Len(read) : Long(i, j, Append(read, w), Append(secs, sec)) =>
              Long(i, j, read, secs)
         /\ LostOK(loop, read, secs, sec) =>
              LostOK(full, Append(read, w), Append(secs, sec), sec)
<1> PICK n \in Nat : n = Len(read)
  OBVIOUS
<1> PICK g \in Seq(Nat) : g = loop.gathered
  BY DEF LoopOK, LoopType
<1> DEFINE h == Append(g, n + 1)
           more == Append(secs, sec)
           longer == Append(read, w)
<1>1. /\ h \in Seq(Nat) /\ Len(h) = Len(g) + 1 /\ h[Len(g) + 1] = n + 1 /\ Len(g) \in Nat
      /\ \A k \in 1 .. Len(g) : h[k] = g[k]
  OBVIOUS
<1>2. more[n + 1] = sec /\ \A k \in 1 .. n : more[k] = secs[k]
  OBVIOUS
<1>3. longer \in Seq(Nat) /\ Len(longer) = n + 1
  OBVIOUS
<1>4. Len(g) <= n /\ Run(g, n - Len(g)) /\ \A k \in 1 .. n : k > n - Len(g) => secs[k] = sec
  BY DEF GatheredOK
<1>5. full.gathered = h /\ full.pushed = loop.pushed
  OBVIOUS
<1> HIDE DEF h, more
<1>6. PICK m \in Nat : m = n - Len(g) /\ m = (n + 1) - Len(h) /\ m + Len(g) = n
  <2>1. \A l \in Nat : l <= n =>
          n - l \in Nat /\ n - l = (n + 1) - (l + 1) /\ (n - l) + l = n
    OBVIOUS
  <2> PICK l \in Nat : l = Len(g)
    BY <1>1
  <2>2. Len(h) = l + 1 /\ l <= n
    BY <1>1, <1>4
  <2>3. n - l \in Nat /\ n - l = (n + 1) - (l + 1) /\ (n - l) + l = n
    BY <2>1, <2>2
  <2>4. PICK m \in Nat : m = n - l
    BY <2>3
  <2> QED BY <2>2, <2>3, <2>4
<1>7. GatheredOK(full, n + 1, more, sec)
  <2>1. ASSUME NEW k \in 1 .. Len(h) PROVE h[k] = m + k
    <3>1. CASE k \in 1 .. Len(g)
      BY <1>1, <1>4, <1>6, <3>1 DEF Run
    <3>2. CASE k = Len(g) + 1
      BY <1>1, <1>4, <1>6, <3>2
    <3> QED BY <1>1, <3>1, <3>2
  <2>2. ASSUME NEW k \in 1 .. n + 1, k > m PROVE more[k] = sec
    <3>1. k \in 1 .. n \/ k = n + 1
      OBVIOUS
    <3> QED BY <1>2, <1>4, <1>6, <2>2, <3>1
  <2>3. Run(h, m)
    BY <2>1 DEF Run
  <2>4. Len(h) <= n + 1
    BY <1>1, <1>4
  <2> QED BY <1>5, <1>6, <2>2, <2>3, <2>4 DEF GatheredOK
<1>8. ASSUME NEW i \in 1 .. n, NEW j \in 1 .. n, Long(i, j, longer, more)
      PROVE  Long(i, j, read, secs)
  <2>1. i <= j /\ secs[i] = secs[j]
    BY <1>2, <1>8 DEF Long
  <2>2. countWords(Stretch(i, j), longer) = countWords(Stretch(i, j), read)
    <3>1. i \in Nat /\ j \in Nat /\ 0 < i /\ j <= Len(read)
      OBVIOUS
    <3> HIDE DEF longer
    <3> QED BY <2>1, <3>1, StretchGrows DEF longer
  <2> QED BY <1>8, <2>1, <2>2 DEF Long
<1> HIDE DEF longer
<1>9. ASSUME LostOK(loop, read, secs, sec), KeepsText
      PROVE  LostOK(full, longer, more, sec)
  <2>1. /\ \A i, j \in 1 .. n : Long(i, j, read, secs) => Hit(loop.pushed, i, j) \/ i > m
        /\ \A i \in 1 .. n : secs[i] = sec /\ i <= m => Hit(loop.pushed, i, n)
    BY <1>6, <1>9 DEF LostOK
  <2>2. ASSUME NEW i \in 1 .. n + 1, more[i] = sec, i <= m
        PROVE  Hit(loop.pushed, i, n + 1)
    <3>1. i \in 1 .. n /\ i \in Nat /\ n + 1 \in Nat /\ n <= n + 1
      <4>1. \A l \in Nat : m + l = n => m <= n
        OBVIOUS
      <4>2. m <= n
        BY <1>1, <1>6, <4>1
      <4> QED BY <2>2, <4>2
    <3>2. Hit(loop.pushed, i, n)
      BY <1>2, <2>1, <2>2, <3>1
    <3> QED BY <3>1, <3>2, HitWider
  <2>3. ASSUME NEW i \in 1 .. n + 1, NEW j \in 1 .. n + 1, Long(i, j, longer, more), ~ (i > m)
        PROVE  Hit(loop.pushed, i, j)
    <3>1. i <= j /\ more[i] = more[j]
      BY <2>3 DEF Long
    <3>2. CASE j \in 1 .. n
      <4>1. i \in 1 .. n BY <3>1, <3>2
      <4> QED BY <1>8, <2>1, <2>3, <3>2, <4>1
    <3>3. CASE j = n + 1
      BY <1>2, <2>2, <2>3, <3>1, <3>3
    <3> QED BY <3>2, <3>3
  <2> QED BY <1>3, <1>5, <1>6, <2>2, <2>3 DEF LostOK
<1>10. LostOK(loop, read, secs, sec) => LostOK(full, longer, more, sec)
  BY <1>9 DEF LostOK
<1> QED BY <1>7, <1>8, <1>10 DEF longer, more

\* A cut before a sentence does not depend on it.
LEMMA CutBefore ==
  ASSUME NEW read \in Seq(Nat), NEW w \in Nat, NEW loop, LoopOK(loop, Len(read)),
         NEW isComplete
  PROVE  FlushAndOverlap(loop, isComplete, Append(read, w)) =
           FlushAndOverlap(loop, isComplete, read)
<1>1. countWords(loop.gathered, Append(read, w)) = countWords(loop.gathered, read)
  BY CountGrows DEF LoopOK, LoopType
<1>2. flush(loop, isComplete, Append(read, w)) = flush(loop, isComplete, read)
  BY <1>1 DEF flush
<1> QED BY <1>2 DEF FlushAndOverlap

\* What is too short to push has no long stretch.
LEMMA ShortHasNoLong ==
  ASSUME options \in Options, NEW read \in Seq(Nat), NEW loop, LoopOK(loop, Len(read)),
         NEW secs, NEW sec, GatheredOK(loop, Len(read), secs, sec),
         countWords(loop.gathered, read) < options.minWords \/ loop.gathered = << >>,
         NEW i \in 1 .. Len(read), NEW j \in 1 .. Len(read), Long(i, j, read, secs)
  PROVE  ~ (i > Len(read) - Len(loop.gathered))
<1> SUFFICES ASSUME i > Len(read) - Len(loop.gathered) PROVE FALSE
  OBVIOUS
<1> PICK s \in Seq(Nat) : s = loop.gathered
  BY DEF LoopOK, LoopType
<1> PICK n \in Nat : n = Len(read)
  OBVIOUS
<1>1. Len(s) \in Nat /\ Len(s) <= n /\ Run(s, n - Len(s)) /\ s # << >>
  <2>1. s # << >>
    OBVIOUS
  <2> QED BY <2>1 DEF GatheredOK
<1>2. PICK m \in Nat : m = n - Len(s) /\ m + Len(s) = n
  <2>1. \A l \in Nat : l <= n => n - l \in Nat /\ (n - l) + l = n
    OBVIOUS
  <2> QED BY <1>1, <2>1
<1>3. i <= j /\ countWords(Stretch(i, j), read) >= options.minWords
  BY DEF Long
<1>4. m < i /\ i \in Nat /\ j \in Nat /\ m + Len(s) <= n /\ j <= m + Len(s) /\ Run(s, m)
  BY <1>1, <1>2
<1>5. /\ countWords(Stretch(i, j), read) <= countWords(s, read)
      /\ countWords(Stretch(i, j), read) \in Nat
  <2>1. m + Len(s) <= Len(read)
    BY <1>4
  <2> QED BY <1>3, <1>4, <2>1, CountWithin
<1>6. countWords(s, read) < options.minWords
  BY <1>1
<1>7. countWords(s, read) \in Nat
  BY CountIsNat DEF LoopOK
<1> QED BY <1>3, <1>5, <1>6, <1>7, OptionFacts

\* A cut that pushes nothing is harmless when the next one pushes.
LEMMA LostSentence ==
  ASSUME ChunkerTypeOK, LostInv, section # 0, NEW words \in WordCounts
  PROVE  /\ GatheredOK(Out(words), Len(lengths) + 1, Append(sections, section), section)
         /\ LostOK(Out(words), ReadWith(words), Append(sections, section), section)
<1> DEFINE read == ReadWith(words)
           room == Room(words)
           full == Full(words)
           more == Append(sections, section)
           G    == Loop.gathered
<1>1. /\ options \in Options /\ lengths \in Seq(Nat) /\ words \in Nat
      /\ Len(lengths) \in Nat /\ read \in Seq(Nat) /\ Len(read) = Len(lengths) + 1
      /\ read[Len(lengths) + 1] = words /\ LoopOK(Loop, Len(lengths)) /\ LoopOK(room, Len(lengths))
      /\ LoopOK(full, Len(read))
      /\ full.gathered = Append(room.gathered, Len(lengths) + 1) /\ full.pushed = room.pushed
      /\ sections \in Seq(Nat) /\ Len(sections) = Len(lengths) /\ section \in Nat
  BY SentenceSteps DEF ChunkerTypeOK
<1>2. /\ options.targetWords \in Nat /\ options.maxWords \in Nat /\ options.minWords \in Nat
  BY <1>1, OptionFacts
<1>3. countWords(G, read) = countWords(G, lengths) /\ countWords(G, lengths) \in Nat
  BY <1>1, CountGrows, CountIsNat DEF LoopOK, LoopType, ReadWith
<1>4. \/ room = Loop
      \/ /\ room = FlushAndOverlap(Loop, FALSE, lengths)
         /\ countWords(G, lengths) + words > options.maxWords /\ G # << >>
  <2>1. \/ room = Loop
        \/ /\ room = FlushAndOverlap(Loop, FALSE, read)
           /\ countWords(G, read) + words > options.maxWords /\ G # << >>
    BY DEF Room, MakeRoom
  <2>2. FlushAndOverlap(Loop, FALSE, read) = FlushAndOverlap(Loop, FALSE, lengths)
    <3>1. read = Append(lengths, words)
      BY DEF ReadWith
    <3>2. FlushAndOverlap(Loop, FALSE, Append(lengths, words)) =
            FlushAndOverlap(Loop, FALSE, lengths)
      <4>1. lengths \in Seq(Nat) /\ words \in Nat /\ LoopOK(Loop, Len(lengths))
        BY <1>1
      <4> HIDE DEF read, room, full, more, G
      <4> QED BY <4>1, CutBefore, ZenonT(30)
    <3> HIDE DEF read
    <3> QED BY <3>1, <3>2
  <2> HIDE DEF room, read, G
  <2> QED BY <1>3, <2>1, <2>2
<1>5. \/ Out(words) = full /\ ~ (countWords(full.gathered, read) >= options.targetWords)
      \/ /\ Out(words) = FlushAndOverlap(full, FALSE, read)
         /\ countWords(full.gathered, read) >= options.targetWords
  BY DEF Out, CutAtTarget
<1>6. read = Append(lengths, words)
  BY DEF ReadWith
<1> HIDE DEF read, room, full
<1>7. GatheredOK(Loop, Len(lengths), sections, section) /\ LostOK(Loop, lengths, sections, section)
  BY DEF LostInv
<1>8. GatheredOK(room, Len(lengths), sections, section)
  BY <1>1, <1>4, <1>7, LostCut
<1>9. /\ GatheredOK(full, Len(read), more, section)
      /\ \A i, j \in 1 .. Len(lengths) : Long(i, j, read, more) => Long(i, j, lengths, sections)
      /\ LostOK(room, lengths, sections, section) => LostOK(full, read, more, section)
  BY <1>1, <1>6, <1>8, LostGathers
<1> HIDE DEF more
<1>10. GatheredOK(Out(words), Len(read), more, section)
  BY <1>1, <1>5, <1>9, LostCut
<1>11. full.gathered # << >> /\ countWords(full.gathered, read) = countWords(room.gathered, read) + words
       /\ countWords(room.gathered, read) \in Nat
  <2> PICK s \in Seq(Nat) : s = room.gathered
    BY <1>1 DEF LoopOK, LoopType
  <2>1. ReadIn(s, Len(read)) /\ Len(lengths) + 1 \in 1 .. Len(read)
    BY <1>1 DEF LoopOK, ReadIn
  <2>2. full.gathered = Append(s, Len(lengths) + 1)
    BY <1>1
  <2>3. Append(s, Len(lengths) + 1) # << >>
    OBVIOUS
  <2>4. countWords(s, read) \in Nat
    BY <1>1, <2>1, CountIsNat
  <2>5. countWords(Append(s, Len(lengths) + 1), read) = countWords(s, read) + words
    BY <1>1, <2>1, CountAppend
  <2> QED BY <2>2, <2>3, <2>4, <2>5
<1>12. ASSUME KeepsText, countWords(full.gathered, read) >= options.targetWords
       PROVE  Pushes(full, FALSE, read)
  <2>1. countWords(full.gathered, read) >= options.minWords
    BY <1>1, <1>2, <1>11, <1>12 DEF KeepsText
  <2>2. countWords(full.gathered, read) \in Nat /\ full \in LoopType
    BY <1>1, <1>11 DEF LoopOK
  <2>3. ~ (countWords(full.gathered, read) < options.minWords)
    BY <1>2, <2>1, <2>2
  <2>4. \/ Pushes(full, FALSE, read)
        \/ countWords(full.gathered, read) < options.minWords \/ full.gathered = << >>
    BY <1>1, <2>2, FlushCases, Zenon
  <2> QED BY <1>11, <2>3, <2>4
<1>13. ASSUME KeepsText, LostOK(room, lengths, sections, section)
       PROVE  LostOK(Out(words), read, more, section)
  BY <1>1, <1>5, <1>9, <1>12, <1>13, LostCut
<1>14. ASSUME KeepsText, ~ LostOK(room, lengths, sections, section)
       PROVE  LostOK(Out(words), read, more, section)
  <2>1. /\ room = FlushAndOverlap(Loop, FALSE, lengths)
        /\ countWords(G, lengths) + words > options.maxWords
        /\ ~ Pushes(Loop, FALSE, lengths)
    BY <1>1, <1>4, <1>7, <1>14, LostCut
  <2>2. /\ countWords(G, lengths) < options.minWords \/ G = << >>
        /\ flush(Loop, FALSE, lengths) = Loop
    BY <1>1, <1>3, <2>1, FlushCases DEF LoopOK
  <2>3. countWords(G, lengths) < options.minWords
    BY <1>4, <1>7, <1>14, <2>2
  <2>4. words >= options.targetWords
    BY <1>1, <1>2, <1>3, <1>14, <2>1, <2>3 DEF KeepsText
  <2>5. countWords(full.gathered, read) >= options.targetWords
    BY <1>1, <1>2, <1>11, <2>4
  <2>6. Pushes(full, FALSE, read) /\ Out(words) = FlushAndOverlap(full, FALSE, read)
    BY <1>5, <1>12, <1>14, <2>5
  <2>7. full.pushed = Loop.pushed
    <3>1. Len(lengths) \in 0 .. Len(lengths) BY <1>1
    <3>2. FlushAndOverlap(Loop, FALSE, lengths).pushed = flush(Loop, FALSE, lengths).pushed
      BY <1>1, <3>1, CutOK, Zenon
    <3> QED BY <1>1, <2>1, <2>2, <3>2, Zenon
  <2>8. ASSUME NEW i \in 1 .. Len(read), NEW j \in 1 .. Len(read), j < Len(read),
               Long(i, j, read, more)
        PROVE  Hit(full.pushed, i, j)
    <3>1. i \in 1 .. Len(lengths) /\ j \in 1 .. Len(lengths)
      <4>1. i <= j BY <2>8 DEF Long
      <4>2. \A n \in Nat : i \in 1 .. n + 1 /\ j < n + 1 => i \in 1 .. n /\ j \in 1 .. n
        BY <2>8, <4>1
      <4> QED BY <1>1, <2>8, <4>2
    <3>2. Long(i, j, lengths, sections)
      BY <1>9, <2>8, <3>1
    <3>3. ~ (i > Len(lengths) - Len(Loop.gathered))
      BY <1>1, <1>7, <2>3, <3>1, <3>2, ShortHasNoLong
    <3> QED BY <1>7, <1>14, <2>7, <3>1, <3>2, <3>3 DEF LostOK
  <2>9. /\ NothingLost(flush(full, FALSE, read), read, more)
        /\ \A i \in 1 .. Len(read) : Hit(flush(full, FALSE, read).pushed, i, Len(read))
    BY <1>1, <1>9, <2>6, <2>8, PushLosesNothing
  <2>10. Out(words).pushed = flush(full, FALSE, read).pushed
    <3>1. Len(read) \in 0 .. Len(read) BY <1>1
    <3> QED BY <1>1, <2>6, <3>1, CutOK
  <2> QED BY <2>9, <2>10 DEF LostOK, NothingLost
<1>15. LostOK(Out(words), read, more, section)
  BY <1>13, <1>14 DEF LostOK
<1> QED BY <1>1, <1>10, <1>15 DEF read, more

LEMMA LostStep ==
  ASSUME ChunkerTypeOK, LostInv, [Next]_vars
  PROVE  LostInv'
<1>1. /\ options \in Options /\ lengths \in Seq(Nat) /\ LoopOK(Loop, Len(lengths))
      /\ Len(lengths) \in 0 .. Len(lengths) /\ Len(lengths) \in Nat /\ section \in Nat
      /\ sections \in Seq(Nat) /\ Len(sections) = Len(lengths)
  BY LengthFacts DEF ChunkerTypeOK
<1>2. /\ GatheredOK(Loop, Len(lengths), sections, section)
      /\ LostOK(Loop, lengths, sections, section)
      /\ \A k \in 1 .. Len(lengths) :
           sections[k] # 0 /\ (section # 0 => sections[k] <= section)
  BY DEF LostInv, SectionsOK
<1>3. ASSUME NEW loop, NEW read, NEW secs, NEW sec, Loop' = loop, lengths' = read,
             sections' = secs, section' = sec, options' = options,
             GatheredOK(loop, Len(read), secs, sec), LostOK(loop, read, secs, sec),
             \A k \in 1 .. Len(read) : secs[k] # 0 /\ (sec # 0 => secs[k] <= sec)
      PROVE  LostInv'
  <2>1. LostOK(Loop, lengths, sections, section)'
    <3>1. KeepsText' = KeepsText
      BY <1>3 DEF KeepsText
    <3>2. ASSUME NEW i, NEW j
          PROVE  /\ Long(i, j, lengths, sections)' <=> Long(i, j, read, secs)
                 /\ Hit(Loop.pushed, i, j)' <=> Hit(loop.pushed, i, j)
      BY <1>3 DEF Long, countWords, Stretch, Hit
    <3>3. /\ lengths' = read /\ sections' = secs /\ section' = sec /\ Loop'.gathered = loop.gathered
          /\ LostOK(loop, read, secs, sec)
      BY <1>3
    <3>4. \A i : Hit(Loop.pushed, i, Len(lengths))' <=> Hit(loop.pushed, i, Len(read))
      BY <1>3 DEF Hit
    <3> QED BY <3>1, <3>2, <3>3, <3>4 DEF LostOK
  <2>2. GatheredOK(Loop, Len(lengths), sections, section)'
    BY <1>3 DEF GatheredOK, Run
  <2> QED BY <1>3, <2>1, <2>2 DEF LostInv, SectionsOK
<1>4. CASE \E words \in WordCounts :
              /\ NextSentence(words) /\ section # 0
              /\ lengths' = ReadWith(words) /\ sections' = Append(sections, section)
              /\ Loop' = Out(words) /\ UNCHANGED << options, section >>
  <2> PICK words \in WordCounts :
              /\ section # 0
              /\ lengths' = ReadWith(words) /\ sections' = Append(sections, section)
              /\ Loop' = Out(words) /\ UNCHANGED << options, section >>
    BY <1>4
  <2>1. /\ GatheredOK(Out(words), Len(lengths) + 1, Append(sections, section), section)
        /\ LostOK(Out(words), ReadWith(words), Append(sections, section), section)
    BY LostSentence
  <2>2. Len(ReadWith(words)) = Len(lengths) + 1
    BY SentenceSteps
  <2>3. ASSUME NEW k \in 1 .. Len(lengths) + 1
        PROVE  Append(sections, section)[k] # 0 /\ Append(sections, section)[k] <= section
    BY <1>1, <1>2
  <2> QED BY <1>3, <2>1, <2>2, <2>3
<1>5. CASE /\ EndParagraph
           /\ Loop' = FlushAndOverlap(Loop, TRUE, lengths)
           /\ countWords(currentSentences, lengths) >= options.minWords
           /\ UNCHANGED << options, section, lengths, sections >>
  <2> DEFINE r == FlushAndOverlap(Loop, TRUE, lengths)
  <2>1. GatheredOK(r, Len(lengths), sections, section)
    BY <1>1, <1>2, LostCut
  <2>2. CASE Pushes(Loop, TRUE, lengths)
    <3>1. LostOK(r, lengths, sections, section)
      BY <1>1, <1>2, <2>2, LostCut
    <3> QED BY <1>2, <1>3, <1>5, <2>1, <3>1
  <2>3. CASE ~ Pushes(Loop, TRUE, lengths)
    <3>1. /\ Loop.gathered = currentSentences /\ Loop \in LoopType
          /\ countWords(currentSentences, lengths) \in Nat
      <4>1. Loop.gathered = currentSentences BY DEF Loop
      <4>2. Loop \in LoopType /\ ReadIn(Loop.gathered, Len(lengths)) /\ Loop.gathered \in Seq(Nat)
        BY <1>1 DEF LoopOK, LoopType
      <4> QED BY <1>1, <4>1, <4>2, CountIsNat
    <3>2. Loop.gathered = << >> /\ flush(Loop, TRUE, lengths) = Loop
      <4>1. \/ countWords(Loop.gathered, lengths) < options.minWords
            \/ Loop.gathered = << >>
        BY <1>1, <2>3, <3>1, FlushCases
      <4>2. ~ (countWords(Loop.gathered, lengths) < options.minWords)
        BY <1>1, <1>5, <3>1, OptionFacts
      <4> QED BY <1>1, <2>3, <3>1, <4>1, <4>2, FlushCases
    <3>3. r.gathered = << >> /\ r.pushed = Loop.pushed
      <4>1. r.gathered = Overlap(Loop.gathered) /\ r.pushed = flush(Loop, TRUE, lengths).pushed
        BY <1>1, CutOK
      <4>2. Len(Overlap(<< >>)) <= Len(<< >>) /\ Overlap(<< >>) \in Seq(Nat)
        <5>1. << >> \in Seq(Nat) OBVIOUS
        <5> QED BY <1>1, <5>1, OverlapFacts
      <4>3. Overlap(<< >>) = << >>
        BY <4>2
      <4> QED BY <3>2, <4>1, <4>3
    <3> HIDE DEF r
    <3>4. LostOK(r, lengths, sections, section)
      BY <1>2, <3>2, <3>3 DEF LostOK
    <3> QED BY <1>2, <1>3, <1>5, <2>1, <3>4 DEF r
  <2> QED BY <2>2, <2>3
<1>6. CASE /\ section' \in {section + 1, 0} /\ section # 0
           /\ Loop' = [gathered |-> << >>, pushed |-> flush(Loop, TRUE, lengths).pushed]
           /\ UNCHANGED << options, lengths, sections >>
  <2> PICK p : p = flush(Loop, TRUE, lengths).pushed
    OBVIOUS
  <2> DEFINE r == [gathered |-> << >>, pushed |-> p]
  <2>1. /\ Len(r.gathered) = 0 /\ r.gathered = << >> /\ r.pushed = p
    OBVIOUS
  <2>2. Loop' = r
    BY <1>6
  <2> HIDE DEF r
  <2>3. GatheredOK(r, Len(lengths), sections, section')
    BY <1>1, <2>1 DEF GatheredOK, Run
  <2>4. ASSUME KeepsText, NEW i \in 1 .. Len(lengths), NEW j \in 1 .. Len(lengths),
               Long(i, j, lengths, sections)
        PROVE  Hit(p, i, j)
    <3>1. CASE Pushes(Loop, TRUE, lengths)
      <4>1. \A x, y \in 1 .. Len(lengths) :
              y < Len(lengths) /\ Long(x, y, lengths, sections) =>
                Hit(Loop.pushed, x, y) \/ x > Len(lengths) - Len(Loop.gathered)
        BY <1>2, <2>4 DEF LostOK
      <4>2. NothingLost(flush(Loop, TRUE, lengths), lengths, sections)
        BY <1>1, <1>2, <3>1, <4>1, PushLosesNothing
      <4> QED BY <2>4, <4>2 DEF NothingLost
    <3>2. CASE ~ Pushes(Loop, TRUE, lengths)
      <4>1. countWords(Loop.gathered, lengths) \in Nat /\ Loop \in LoopType
        BY <1>1, CountIsNat DEF LoopOK, LoopType
      <4>2. /\ countWords(Loop.gathered, lengths) < options.minWords \/ Loop.gathered = << >>
            /\ flush(Loop, TRUE, lengths) = Loop
        BY <1>1, <3>2, <4>1, FlushCases
      <4>3. ~ (i > Len(lengths) - Len(Loop.gathered))
        BY <1>1, <1>2, <2>4, <4>2, ShortHasNoLong
      <4> QED BY <1>2, <2>4, <4>2, <4>3 DEF LostOK
    <3> QED BY <3>1, <3>2
  <2>5. ASSUME NEW k \in 1 .. Len(lengths)
        PROVE  sections[k] # 0 /\ sections[k] <= section /\ sections[k] # section'
    <3>1. sections[k] \in Nat BY <1>1
    <3> QED BY <1>1, <1>2, <1>6, <3>1
  <2>6. LostOK(r, lengths, sections, section')
    BY <2>1, <2>4, <2>5 DEF LostOK
  <2>7. ASSUME NEW k \in 1 .. Len(lengths), section' # 0
        PROVE  sections[k] <= section'
    <3>1. sections[k] \in Nat BY <1>1
    <3> QED BY <1>1, <1>6, <2>5, <2>7, <3>1
  <2> PICK sec : sec = section'
    OBVIOUS
  <2> QED BY <1>3, <1>6, <2>2, <2>3, <2>5, <2>6, <2>7
<1>7. CASE Loop' = Loop /\ UNCHANGED << options, section, lengths, sections >>
  BY <1>2, <1>3, <1>7
<1> QED BY <1>4, <1>5, <1>6, <1>7, StepFacts

-----------------------------------------------------------------------------

\* All of it is inductive.
ChunkerInv == ChunkerTypeOK /\ SizeInv /\ RepeatInv /\ LostInv

LEMMA ChunkerInductive == Spec => []ChunkerInv
<1>1. Init => ChunkerInv
  <2> SUFFICES ASSUME Init PROVE ChunkerInv
    OBVIOUS
  <2>1. Loop.gathered = << >> /\ Loop.pushed = << >> /\ lengths = << >> /\ options \in Options
    BY DEF Init, Loop
  <2>2. Len(<< >>) = 0 /\ \A k \in 1 .. 0 : FALSE
    OBVIOUS
  <2>3. SizeInv
    BY <2>1, <2>2, OptionFacts DEF SizeInv, SizeOK, Fits
  <2>4. RepeatInv
    BY <2>1, <2>2, OptionFacts DEF RepeatInv, RepeatOK
  <2>5. LostInv
    BY <2>1, <2>2 DEF LostInv, SectionsOK, GatheredOK, LostOK, Run
  <2> QED BY <2>3, <2>4, <2>5, ChunkerTypeInit DEF ChunkerInv
<1>2. ChunkerInv /\ [Next]_vars => ChunkerInv'
  BY ChunkerTypeStep, SizeStep, RepeatStep, LostStep DEF ChunkerInv
<1> QED BY <1>1, <1>2, PTL DEF Spec

\* The state of the chunker keeps its types: what is gathered and what is pushed
\* are sentences that have been read.
THEOREM ChunkerTypeCorrect == Spec => []ChunkerTypeOK
<1>1. ChunkerInv => ChunkerTypeOK
  BY DEF ChunkerInv
<1> QED BY <1>1, ChunkerInductive, PTL

\* However long the text and whatever the options, as long as they have an overlap,
\* no chunk beyond maxWords has a second new sentence (chunker.ts:36, 256-283).
THEOREM ChunksRespectCeiling == Spec => []CeilingPassedByOneSentence
<1>1. ChunkerInv => CeilingPassedByOneSentence
  <2> SUFFICES ASSUME ChunkerInv, options.overlapSentences > 0, NEW c \in Range(result),
                      countWords(c.sentences, lengths) > options.maxWords
               PROVE  Len(c.sentences) <= options.overlapSentences + 1
    BY DEF CeilingPassedByOneSentence
  <2>1. result \in Seq(Chunk) /\ Loop.pushed = result
    BY DEF ChunkerInv, ChunkerTypeOK, LoopOK, LoopType, Loop
  <2>2. PICK k \in 1 .. Len(result) : c = result[k]
    BY <2>1 DEF Range
  <2>3. Fits(c.sentences, lengths)
    BY <2>1, <2>2 DEF ChunkerInv, SizeInv, SizeOK
  <2> QED BY <2>3 DEF Fits
<1> QED BY <1>1, ChunkerInductive, PTL

\* A chunk that says only what an earlier one says is an overlap and no more
\* (chunker.ts:272-301).
THEOREM ChunksRepeatOnlyOverlap == Spec => []RepeatsOnlyOverlap
<1>1. ChunkerInv => RepeatsOnlyOverlap
  <2> SUFFICES ASSUME ChunkerInv PROVE RepeatsOnlyOverlap
    OBVIOUS
  <2>1. Loop.pushed = result /\ DOMAIN result = 1 .. Len(result)
    BY DEF ChunkerInv, ChunkerTypeOK, LoopOK, LoopType, Loop
  <2>2. RepeatOK(Loop)
    BY DEF ChunkerInv, RepeatInv
  <2> QED BY <2>1, <2>2 DEF RepeatOK, RepeatsOnlyOverlap
<1> QED BY <1>1, ChunkerInductive, PTL

\* In a section that has been read every stretch of minWords words has a sentence in
\* some chunk, if the target is at least minWords and the ceiling at least both
\* together (chunker.ts:240, 269-296): then a cut before a sentence that pushes
\* nothing is followed by a cut after it that pushes.
THEOREM ChunksLoseOnlyFragments == Spec => []LostOnlyInFragments
<1>1. ChunkerInv => LostOnlyInFragments
  <2> SUFFICES ASSUME ChunkerInv, KeepsText,
                      NEW i \in DOMAIN lengths, NEW j \in DOMAIN lengths,
                      i <= j, sections[i] = sections[j], sections[j] # section,
                      countWords(Stretch(i, j), lengths) >= options.minWords
               PROVE  \E c \in Range(result) : Range(c.sentences) \cap i .. j # {}
    BY DEF LostOnlyInFragments, KeepsText, Stretch
  <2>1. /\ result \in Seq(Chunk) /\ Loop.pushed = result /\ lengths \in Seq(Nat)
    BY LengthFacts DEF ChunkerInv, ChunkerTypeOK, LoopOK, LoopType, Loop
  <2>2. i \in 1 .. Len(lengths) /\ j \in 1 .. Len(lengths) /\ Len(lengths) \in Nat
    BY <2>1
  <2>3. Long(i, j, lengths, sections)
    BY DEF Long
  <2>4. ~ (i > Len(lengths) - Len(Loop.gathered))
    BY <2>2 DEF ChunkerInv, LostInv, GatheredOK
  <2>5. Hit(result, i, j)
    BY <2>1, <2>2, <2>3, <2>4 DEF ChunkerInv, LostInv, LostOK
  <2>6. PICK x \in 1 .. Len(result) : \E k \in 1 .. Len(result[x].sentences) :
          result[x].sentences[k] \in i .. j
    BY <2>5 DEF Hit
  <2>7. PICK k \in 1 .. Len(result[x].sentences) : result[x].sentences[k] \in i .. j
    BY <2>6
  <2>8. result[x].sentences \in Seq(Nat) /\ result[x] \in Range(result)
    <3>1. result[x] \in Chunk /\ x \in DOMAIN result
      BY <2>1
    <3> QED BY <3>1 DEF Chunk, Range
  <2>9. result[x].sentences[k] \in Range(result[x].sentences)
    BY <2>8 DEF Range
  <2> QED BY <2>7, <2>8, <2>9
<1> QED BY <1>1, ChunkerInductive, PTL
=============================================================================
