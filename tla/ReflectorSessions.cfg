\* Two viewers and a broadcaster at one path, two streams, buckets for one output.
SPECIFICATION FairSpec
CONSTANTS
  Viewers = {v1, v2}
  Broadcasters = {b1}
  Sessions = {s1}
  NumStreams = 2
  sBucketSize = 1
  Orderly = TRUE
  MaxUnreleased = 1
  None = None
INVARIANTS
  
  
  LastOneDeletes
  SameBucket
PROPERTIES
  ViewerGetsIn
  ViewersGo
