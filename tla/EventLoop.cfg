\* Two connections, each accepted once: one that other events run too, one whose
\* client may not take what it sends.
SPECIFICATION Spec
CONSTANTS
  Conns = {c1, c2}
  Restless = {c1}
  Senders = {c2}
  Listener = listener
  NumFDs = 4
  WrapId = 3
  ReusesIds = FALSE
  AcceptErrors = TRUE
  None = none
INVARIANTS
  WatchedAreOpen
  OwnEvent
  NobodyForgotten
  SleepsSoundly
PROPERTY OneEventPerRequest
