----------------------------- MODULE Canonical -----------------------------
(***************************************************************************)
(* Canonical envelopes and their content hash                              *)
(* (packages/protocol/src/canonical.ts and schema/canonicalEnvelope.ts).   *)
(*                                                                         *)
(* A content hash is a number in 1 .. NumKB, ordered as the hexadecimal    *)
(* digits are.  A name of a hash in a `sources' array may lack the prefix  *)
(* "0x".  Texts, the domain and the recipe are one model value, the body.  *)
(* SHA-256 is an oracle: a form that was never hashed gets any hash that   *)
(* no other form has.                                                      *)
(***************************************************************************)
EXTENDS Integers, Sequences, FiniteSets, Functions

CONSTANTS
  NumKB,       \* number of content hashes
  LowHashes,   \* the hashes 1 .. LowHashes begin with the digit 0
  Body         \* what an envelope says, besides its lineage

ASSUME CanonicalAssumption == NumKB \in Nat /\ LowHashes \in 0 .. NumKB

Hash == 1 .. NumKB

Name == [kb : Hash, prefixed : BOOLEAN]

\* "0x" + p, unless p starts with it.
Prefixed(name) == [name EXCEPT !.prefixed = TRUE]
AllPrefixed(names) == [i \in DOMAIN names |-> Prefixed(names[i])]

\* The place of a name among strings: a bare name that begins with 0 goes on
\* with a digit, which comes before "x"; the other bare names come after "0x".
Rank(name) ==
  CASE name.prefixed -> NumKB + name.kb
    [] ~ name.prefixed /\ name.kb <= LowHashes -> name.kb
    [] ~ name.prefixed /\ name.kb > LowHashes -> 2 * NumKB + name.kb

\* Where the element of each place of the sorted array comes from.
Arrangement(names) ==
  CHOOSE from \in [DOMAIN names -> DOMAIN names] :
    /\ IsInjective(from)
    /\ \A i, j \in DOMAIN names : i < j => Rank(names[from[i]]) <= Rank(names[from[j]])

Sorted(names) == [i \in DOMAIN names |-> names[Arrangement(names)[i]]]

\* The fields a payload of each type has, besides its type.
PayloadFields ==
  [ practice            |-> {"rationale", "contexts", "failureModes"},
    feature             |-> {"interfaceContract", "testScaffold"},
    stateMachine        |-> {"states", "transitions", "invariants"},
    promptEngineering   |-> {"template", "modelVersion", "evalCriteria"},
    complianceChecklist |-> {"jurisdictionTags", "requirements",
                             "evidenceMapping"},
    rubric              |-> {"dimensions", "scoringLogic", "thresholds"},
    synthesis           |-> {"question", "answer", "citations"},
    pattern             |-> {"pattern", "occurrences", "applicability"},
    adaptation          |-> {"targetDomain", "adaptedContent", "tradeoffs"},
    enhancement         |-> {"concern", "enhancedContent"} ]

KBType == DOMAIN PayloadFields

Payload == [type : KBType, fields : SUBSET UNION {PayloadFields[t] : t \in KBType}]

\* A source block carries no derivation; a derived one names its inputs.
NoDerivation == [present |-> FALSE, inputs |-> << >>]
Derivation == [present : BOOLEAN, inputs : Seq(Name)]

\* Envelopes written for the first schema still carry a key `parents', which
\* callers also leave behind with the value undefined.
Parents == {"absent", "listed", "undefined"}

Envelope == [type : KBType, body : Body, payload : Payload,
             sources : Seq(Name), derivation : Derivation, parents : Parents]

sortSources(env) == [env EXCEPT !.sources = Sorted(env.sources)]

\* What is hashed: without the key `parents', sources sorted.
normalizeForHash(env) ==
  [env EXCEPT !.sources = Sorted(env.sources), !.parents = "absent"]

\* canonicalize throws on a value it has no text for.
Canonicalizable(env) == env.parents # "undefined"

\* canonicalize is injective on what it accepts, so the form stands for its text.
canonicalize(env) == env

VARIABLE digest   \* hash -> the form it was computed from, or NotHashed

NotHashed == [hashed |-> FALSE]
InitDigest == digest = [h \in Hash |-> NotHashed]

\* SHA-256 of the canonical text: the same text, the same hash, and no other.
Hashes(form) ==
  IF \E h \in Hash : digest[h] = form
    THEN {h \in Hash : digest[h] = form}
    ELSE {h \in Hash : digest[h] = NotHashed}

contentHashFromEnvelope(env) == Hashes(canonicalize(normalizeForHash(env)))

Remember(h, env) ==
  digest' = [digest EXCEPT ![h] = canonicalize(normalizeForHash(env))]

\* The identifier is a text of the hash of the form, and stands for the form.
cidV1FromCanonical(form) == form
cidV1FromEnvelope(env) == cidV1FromCanonical(canonicalize(normalizeForHash(env)))

\* The envelope of a block derived from `names', built by the library itself.
buildDerivedEnvelope(payload, body, names, inputs) ==
  sortSources(
    [ type       |-> payload.type,
      body       |-> body,
      payload    |-> payload,
      sources    |-> Sorted(AllPrefixed(names)),
      derivation |-> [present |-> TRUE, inputs |-> AllPrefixed(inputs)],
      parents    |-> "absent" ])
=============================================================================
