\* The GET of a tunnel and two POSTs, of which one may replace the other.
SPECIFICATION FairSpec
CONSTANTS
  Gets = {g}
  Posts = {p1, p2}
  None = none
  SharesThread = FALSE
  Relocks = FALSE
INVARIANTS
  TunnelIsFound
  LockedWhenTold
PROPERTIES
  
  RequestsAreRead
