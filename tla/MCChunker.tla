----------------------------- MODULE MCChunker -----------------------------
(***************************************************************************)
(* A small instance of Chunker for TLC.                                    *)
(***************************************************************************)
EXTENDS Chunker

Option(target, overlap) ==
  [targetWords |-> target, maxWords |-> 2 * target, overlapSentences |-> overlap,
   minWords |-> 4]

\* As the processor calls it (maxWords is twice the target, processor.ts:181):
\* targets below and above minWords, overlaps of none, one and two.
SomeOptions == {Option(target, overlap) : target \in {3, 6}, overlap \in 0 .. 2}
=============================================================================
