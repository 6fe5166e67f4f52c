SPECIFICATION FairSpec
CONSTANTS
  N = 3
  Lists <- ShortLists
INVARIANTS
  VerdictRight
  StackBound
PROPERTY SearchEnds
