\* Three hashes, the lowest of which begins with 0; four calls that overlap;
\* one reset.
CONSTANTS
  NumKB = 3
  LowHashes = 1
  Body = {text}
  Curator = {ann, bob}
  Zero = zero
  Call = {c1, c2, c3, c4}
  MaxResets = 1
  Submitted <- Callers
SPECIFICATION Spec
INVARIANTS TypeOK SourcesFirst ExactlyOneNew NoFalseCycle
PROPERTIES StricterThanMainnet
SYMMETRY Symmetry
\* The calls of the instance end.
CHECK_DEADLOCK FALSE
