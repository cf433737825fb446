\* Four threads, one of which may ask for exclusion.
SPECIFICATION FairSpec
CONSTANTS
  Threads = {a, b, c, d}
  Writers = {a}
INVARIANT NoLostWakeup
PROPERTIES
  WriterGetsIn
  ImplementsRWLock
