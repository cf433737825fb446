\* A session may be killed while it is created.
SPECIFICATION Spec
CONSTANTS
  Conns = {c1}
  Sessions = {s1}
  None = none
  MaxConnections = 1
  MaxPlays = 1
  KillsWhileCreating = TRUE
INVARIANTS
  SetupIsLockedDown
