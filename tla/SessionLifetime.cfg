\* Two connections that share one session; the proofs have any number of both.
SPECIFICATION FairSpec
CONSTANTS
  Conns = {c1, c2}
  Sessions = {s1}
  None = none
  MaxConnections = 1
  MaxPlays = 2
  KillsWhileCreating = FALSE
INVARIANTS
  HoldersAreExact
  HeldNeverGoesAway
  RequestsKeepTheirSession
  
PROPERTIES
  DeadIsDeleted
  KilledGoesAway
