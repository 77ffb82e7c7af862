\* Texts of up to five sentences: fragments (1, 3), a sentence that fills a chunk
\* (6), and one that exceeds every ceiling (13).
CONSTANTS
  Options <- SomeOptions
  WordCounts = {1, 3, 6, 13}
  MaxSentences = 5
CHECK_DEADLOCK FALSE
SPECIFICATION Spec
INVARIANTS LostOnlyInFragments RepeatsOnlyOverlap CeilingPassedByOneSentence
