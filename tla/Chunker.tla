------------------------------ MODULE Chunker ------------------------------
(***************************************************************************)
(* The semantic chunker of the pipeline (compiler/processors/chunker.ts):  *)
(* a text is read section by section, paragraph by paragraph, sentence by  *)
(* sentence, and cut into chunks that overlap by their last sentences.     *)
(*                                                                         *)
(* Sentences are numbered as they are read; only their lengths in words    *)
(* matter.  A heading is the first paragraph of its section (226-230);     *)
(* paragraphs of at most ten characters are dropped before they reach the  *)
(* loop and do not appear here.  The type, importance and heading that a   *)
(* chunk carries are left out.                                             *)
(***************************************************************************)
EXTENDS Sequences, SequencesExt, Sums

CONSTANTS
  Options,        \* sets of [targetWords, maxWords, overlapSentences, minWords]
  WordCounts,     \* lengths of sentences
  MaxSentences    \* bound on the length of a text, in sentences

ASSUME ChunkerAssumption ==
  /\ WordCounts \subseteq Nat \ {0} /\ MaxSentences \in Nat
  /\ Options \subseteq [targetWords : Nat, maxWords : Nat, overlapSentences : Nat,
                        minWords : Nat]

VARIABLES
  options,            \* the options of this call
  section,            \* sectionIndex of the section being read; 0 after the last
  inParagraph,        \* whether a paragraph has begun
  lengths,            \* the words of each sentence read so far
  sections,           \* the section of each sentence read so far
  currentSentences,   \* the sentences gathered for the next chunk
  result              \* the chunks, in the order in which they are pushed

vars == << options, section, inParagraph, lengths, sections, currentSentences, result >>

-----------------------------------------------------------------------------
\* countWords of the sentences s, joined; read is the text they are from.
countWords(s, read) == SumTo([k \in DOMAIN s |-> read[s[k]]], Len(s))

\* The state of the loop: what is gathered and what is pushed.
Loop == [gathered |-> currentSentences, pushed |-> result]

\* Too few words push nothing.
flush(loop, isComplete, read) ==
  IF countWords(loop.gathered, read) < options.minWords \/ loop.gathered = << >>
  THEN loop
  ELSE [loop EXCEPT !.pushed = Append(@, [sentences |-> loop.gathered,
                                          isComplete |-> isComplete])]

\* slice(-n): the last n elements, and for n = 0 all of them.
Overlap(s) ==
  LET n == options.overlapSentences
  IN  IF n = 0 \/ n >= Len(s) THEN s ELSE SubSeq(s, Len(s) - n + 1, Len(s))

FlushAndOverlap(loop, isComplete, read) ==
  [flush(loop, isComplete, read) EXCEPT !.gathered = Overlap(@)]

Continue(loop) ==
  /\ currentSentences' = loop.gathered
  /\ result' = loop.pushed

\* Two mutants of MakeRoom.
MakeRoomUnflushed(loop, words, read) ==
  IF countWords(loop.gathered, read) + words > options.maxWords /\ loop.gathered # << >>
  THEN [loop EXCEPT !.gathered = Overlap(@)]
  ELSE loop
MakeRoomTooLate(loop, words, read) ==
  IF countWords(loop.gathered, read) > options.maxWords
  THEN FlushAndOverlap(loop, FALSE, read)
  ELSE loop

\* Before a sentence that would pass the ceiling.
MakeRoom(loop, words, read) ==
  IF countWords(loop.gathered, read) + words > options.maxWords /\ loop.gathered # << >>
  THEN FlushAndOverlap(loop, FALSE, read)
  ELSE loop

\* After a sentence that reaches the target.
CutAtTarget(loop, read) ==
  IF countWords(loop.gathered, read) >= options.targetWords
  THEN FlushAndOverlap(loop, FALSE, read)
  ELSE loop

-----------------------------------------------------------------------------
Init ==
  /\ options \in Options
  /\ section = 1
  /\ inParagraph = FALSE
  /\ lengths = << >> /\ sections = << >>
  /\ currentSentences = << >>
  /\ result = << >>

NextSentence(words) ==
  LET read == Append(lengths, words)
      room == MakeRoom(Loop, words, read)
  IN  /\ section # 0 /\ Len(lengths) < MaxSentences
      /\ lengths' = read
      /\ sections' = Append(sections, section)
      /\ inParagraph' = TRUE
      /\ Continue(CutAtTarget([room EXCEPT !.gathered = Append(@, Len(read))], read))
      /\ UNCHANGED << options, section >>

\* Mutant of EndParagraph.
EndParagraphKeepingAll ==
  /\ inParagraph
  /\ inParagraph' = FALSE
  /\ Continue(flush(Loop, TRUE, lengths))
  /\ UNCHANGED << options, section, lengths, sections >>

EndParagraph ==
  /\ inParagraph
  /\ inParagraph' = FALSE
  /\ Continue(IF countWords(currentSentences, lengths) >= options.minWords
              THEN FlushAndOverlap(Loop, TRUE, lengths) ELSE Loop)
  /\ UNCHANGED << options, section, lengths, sections >>

\* The last flush of a section; the next one gathers afresh.
EndSection(next) ==
  /\ section # 0 /\ ~ inParagraph
  /\ section' = next
  /\ result' = flush(Loop, TRUE, lengths).pushed
  /\ currentSentences' = << >>
  /\ UNCHANGED << options, inParagraph, lengths, sections >>

\* Sections that keep no sentence change nothing and are passed over.
Next ==
  \/ \E words \in WordCounts : NextSentence(words)
  \/ EndParagraph
  \/ section \in Range(sections) /\ EndSection(section + 1)
  \/ EndSection(0)

Spec == Init /\ [][Next]_vars

-----------------------------------------------------------------------------
\* A text loses sentences only in short stretches: in a section that has been
\* read, sentences that stand together and have minWords words between them are
\* not all missing from the chunks, although every cut throws away what is too
\* short to push (240, 269-296).  With a target below minWords they may be, and
\* with a ceiling so near the target that sentence after sentence is thrown away.
LostOnlyInFragments ==
  /\ options.minWords <= options.targetWords
  /\ options.minWords + options.targetWords <= options.maxWords
  =>
    \A i, j \in DOMAIN lengths :
      /\ i <= j /\ sections[i] = sections[j] /\ sections[j] # section
      /\ countWords([k \in 1 .. j - i + 1 |-> i + k - 1], lengths) >= options.minWords
      => \E c \in Range(result) : Range(c.sentences) \cap i .. j # {}

\* A chunk that says nothing new is an overlap on its own: a paragraph, section or
\* size boundary that follows a cut at once pushes the kept sentences again, and
\* nothing more (272-301).  slice(-0) keeps everything, so an overlap of none
\* repeats whole chunks and is excepted.
RepeatsOnlyOverlap ==
  options.overlapSentences > 0 =>
    \A i, j \in DOMAIN result :
      i < j /\ Range(result[j].sentences) \subseteq Range(result[i].sentences) =>
        Len(result[j].sentences) <= options.overlapSentences

\* The "hard ceiling" of chunker.ts:36 is passed only by the overlap and one
\* sentence after it, never by a second new sentence.
CeilingPassedByOneSentence ==
  options.overlapSentences > 0 =>
    \A c \in Range(result) :
      countWords(c.sentences, lengths) > options.maxWords =>
        Len(c.sentences) <= options.overlapSentences + 1
=============================================================================
