\* Three references with two names, three threads.
SPECIFICATION TableSpec
CONSTANTS
  Refs = {r1, r2, r3}
  Strings = {s1, s2}
  Threads = {a, b, c}
  NoRef = none
INVARIANTS
  OnePerName
  DeletesAlone
  NoLostWakeup
PROPERTY LeavesByItself
