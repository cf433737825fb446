\* Two streams that share a window of one packet and a half.
SPECIFICATION FairSpec
CONSTANTS
  NumStreams = 2
  Sizes = {1, 2}
  kMaximumSegmentSize = 2
  WindowSize = 3
  UsesSlowStart = TRUE
  MinRTO = 0
  MaxRTO = 1
  AgeLimits = {0, 1}
  SeqNums = 2
INVARIANTS
  BytesInListIsExact
  
PROPERTIES
  IsRepairedOrExpires
