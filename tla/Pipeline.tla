------------------------------ MODULE Pipeline ------------------------------
(***************************************************************************)
(* The ingestion pipeline (packages/pipeline/compiler): a file becomes a   *)
(* text, the text becomes blocks, and the blocks become a dataset with a   *)
(* license and a content identifier; the command `publish' of the SDK      *)
(* anchors the outcome.                                                    *)
(*                                                                         *)
(* A file is a sequence of pieces.  How a text is cut is the subject of    *)
(* module Chunker, here an operator; what is read out of a chunk (summary, *)
(* keywords, entities) is another.  A digest or a JSON text stands for     *)
(* what it is of: both are injective on what they are used for.            *)
(***************************************************************************)
EXTENDS Licenses, Sequences, Sums

CONSTANTS
  Text, Enrichment, Vector,  \* what is read out of a chunk, and its embedding
  semanticChunk(_, _),     \* the chunks of a text, given a target and a ceiling
  extractEntitiesTyped(_), \* the number of entities of confidence above 0.7
  enriched(_),             \* summary, keywords and entities of a chunk
  embedded(_, _),          \* the vector an embedder gives a text
  joined(_)                \* texts, put together line by line

Throws == [thrown |-> TRUE]

-----------------------------------------------------------------------------
(* Embedders *)

Embedder(modelName, dimensions) == [modelName |-> modelName, dimensions |-> dimensions]

StubEmbedder == Embedder("stub", 8)
LocalEmbedder == Embedder("nomic-embed-text", 768)

\* The constructors of the hosted embedders throw with a key and without one.
OpenAIEmbedder == Throws
CohereEmbedder == Throws

\* EMBEDDER in lower case, and the providers whose API key is set.
Environment ==
  [EMBEDDER : {"unset", "stub", "local", "openai", "cohere", "other"},
   keys : SUBSET {"openai", "cohere"}]

createEmbedder(env) ==
  IF env.EMBEDDER = "stub" THEN StubEmbedder
  ELSE IF env.EMBEDDER = "local" THEN LocalEmbedder
  ELSE IF env.EMBEDDER \in {"openai", "cohere"} \ env.keys THEN Throws
  ELSE IF "openai" \in env.keys THEN OpenAIEmbedder
  ELSE IF "cohere" \in env.keys THEN CohereEmbedder
  ELSE StubEmbedder

-----------------------------------------------------------------------------
(* Extraction: markup becomes a space, everything else is kept. *)

Replacing(shape, file) ==
  [i \in DOMAIN file |-> IF file[i].shape = shape THEN [shape |-> "space"] ELSE file[i]]

TextExtractor(file) == [text |-> file, metadata |-> [contentType |-> "text/plain"]]
PdfExtractor(file) == [text |-> file, metadata |-> [contentType |-> "application/pdf"]]
HtmlExtractor(file) ==
  [text |-> Replacing("tag", file), metadata |-> [contentType |-> "text/html"]]
MarkdownExtractor(file) ==
  [text |-> Replacing("mark", file), metadata |-> [contentType |-> "text/markdown"]]

\* What the extractor for a file of this name makes of it.
getExtractor(filename, file) ==
  IF filename.extension = "pdf" THEN PdfExtractor(file)
  ELSE IF filename.extension \in {"html", "htm"} THEN HtmlExtractor(file)
  ELSE IF filename.extension \in {"md", "markdown"} THEN MarkdownExtractor(file)
  ELSE TextExtractor(file)

-----------------------------------------------------------------------------
(* Scores, in hundredths where the code has fractions *)

\* The signals found in a chunk, and where it stands.
scoreImportance(definitions, evidence, headingLevel, paragraphIndex, totalParagraphs) ==
  LET position == IF paragraphIndex = 0 THEN 30
                  ELSE IF paragraphIndex >= totalParagraphs - 2 THEN 20 ELSE 10
      heading  == IF headingLevel \in 1 .. 3 THEN 10 * (4 - headingLevel) ELSE 0
  IN  AtMost(40 + AtMost(15 * definitions, 30) + AtMost(10 * evidence, 20)
                + position + heading, 100)

\* The sum has no halves (fifths of a point come from the words alone), so
\* rounding to the nearest is adding 2 fifths and cutting.
computeQualityScore(importance, entityCount, wordCount, isComplete) ==
  (2 * importance + 5 * AtMost(3 * entityCount, 30) + AtMost(wordCount, 100)
     + (IF isComplete THEN 50 ELSE 0) + 2) \div 5

minWords == 20    \* a chunk of fewer words is dropped

SemanticChunk ==
  [ text : Text, wordCount : {n \in Nat : n >= minWords}, isComplete : BOOLEAN,
    importance : {x \in Nat : \E d, e, h, p, n \in Nat : x = scoreImportance(d, e, h, p, n)} ]

-----------------------------------------------------------------------------
(* Processing *)

Position == [blockIndex : Nat, total : Nat, isFirst : BOOLEAN, isLast : BOOLEAN]

KnowledgeBlock ==
  [ id : Nat, documentId : Nat, text : Text, enrichment : Enrichment,
    position : Position, qualityScore : 0 .. 100, embedding : Vector ]

Chunks(text, chunkSize) ==
  semanticChunk(text, [targetWords |-> chunkSize, maxWords |-> 2 * chunkSize])

\* Blocks are numbered from zero; documentId is the time at which the call began.
process(text, chunkSize, now, embedder) ==
  LET chunks == Chunks(text, chunkSize)
      total  == Len(chunks)
  IN  [i \in 1 .. total |->
         [ id           |-> i - 1,
           documentId   |-> now,
           text         |-> chunks[i].text,
           enrichment   |-> enriched(chunks[i].text),
           position     |-> [blockIndex |-> i - 1, total |-> total,
                             isFirst |-> i = 1, isLast |-> i = total],
           qualityScore |-> computeQualityScore(chunks[i].importance,
                              extractEntitiesTyped(chunks[i].text),
                              chunks[i].wordCount, chunks[i].isComplete),
           embedding    |-> embedded(embedder, chunks[i].text) ]]

-----------------------------------------------------------------------------
(* The pipeline.  Options are a function on the keys that the caller gave;  *)
(* clock has the times at which processing began and at which it ended.     *)

\* A raw CID of version 1.
fromBuffer(content) == [codec |-> "raw", multihash |-> content]
fromString(text) == fromBuffer(text)

Given(options, key, default) == IF key \in DOMAIN options THEN options[key] ELSE default

DefaultLicense ==
  [type |-> "CC-BY-4.0", terms |-> LICENSE_PRESETS["CC-BY-4.0"], payout |-> TRUE]

\* chunkSize || 1000
ChunkSize(options) ==
  IF Given(options, "chunkSize", 0) = 0 THEN 1000 ELSE options["chunkSize"]

Blocks(file, filename, options, clock, embedder) ==
  process(getExtractor(filename, file).text, ChunkSize(options), clock.began, embedder)

PackageData(content, blocks, metadata) ==
  [content |-> content, blocks |-> blocks, metadata |-> metadata]

PackageMetadata(file, filename, blocks) ==
  LET extracted == getExtractor(filename, file)
  IN  [ filename    |-> filename,
        contentType |-> extracted.metadata.contentType,
        wordCount   |-> Len(extracted.text),
        blockCount  |-> Len(blocks) ]

\* Later keys win.
DatasetMetadata(file, filename, options, clock) ==
  LET extracted == getExtractor(filename, file).metadata
  IN  [key \in DOMAIN extracted \cup DOMAIN options \cup {"processingTime"} |->
         IF key = "processingTime" THEN clock.ended ELSE Given(options, key, extracted[key])]

\* The schemas keep the fields they name; a payout is not one of a license's.
LicenseSchema(license) == [license EXCEPT !.payout = FALSE]
DatasetSchema(dataset) == [dataset EXCEPT !.license = LicenseSchema(dataset.license)]

runPipeline(file, filename, options, clock, embedder) ==
  LET blocks  == Blocks(file, filename, options, clock, embedder)
      text    == getExtractor(filename, file).text
      license == Given(options, "license", DefaultLicense)
  IN  IF ~ validateLicense(license) THEN Throws
      ELSE DatasetSchema(
             [ cid         |-> fromBuffer(PackageData(text, blocks,
                                            PackageMetadata(file, filename, blocks))),
               fingerprint |-> fromBuffer(file),
               contentHash |-> fromString(text),
               license     |-> license,
               blocks      |-> blocks,
               metadata    |-> DatasetMetadata(file, filename, options, clock) ])

runFromText(content, options, clock, embedder) ==
  runPipeline(content, [stem |-> "input", extension |-> "txt"], options, clock, embedder)

\* originals has the original file, when the caller gives it.
verifyDataset(dataset, originals) ==
  /\ \A file \in originals : fromBuffer(file) = dataset.fingerprint
  /\ fromBuffer(PackageData(joined([i \in DOMAIN dataset.blocks |-> dataset.blocks[i].text]),
                            dataset.blocks, dataset.metadata))
       = dataset.cid
  /\ validateLicense(dataset.license)

\* Which methods the client has, and what the invariants of module Royalties say
\* of the nodes that it fetches.
RegistryClient == [registerAsset : BOOLEAN, fetchNodes : BOOLEAN, nodesValid : BOOLEAN]

publishCommand(file, filename, options, clock, env, registry) ==
  LET embedder == createEmbedder(env)
      result   == runPipeline(file, filename, options, clock, embedder)
      parents  == Given(options, "parents", << >>)
  IN  IF \/ embedder = Throws
         \/ result = Throws
         \/ parents # << >> /\ ~ (registry.fetchNodes /\ registry.nodesValid)
         \/ ~ registry.registerAsset
      THEN Throws
      ELSE [ fingerprint |-> result.fingerprint, cid |-> result.cid,
             license |-> result.license, parents |-> parents ]
=============================================================================
