\* Two threads, two tasks, one signaller from outside the pool; one task may
\* ask for the global lock, from an unlocked run.
SPECIFICATION FairSpec
CONSTANTS
  Tasks = {t1, t2}
  NumThreads = 2
  Callers = {c1}
  Events = {ev}
  Lockers = {t1}
  Relockers = {}
  NoTask = none
INVARIANTS
  OneHolder
  NoEventLost
  SameThread
  LockHonoured
  
PROPERTY Delivered
