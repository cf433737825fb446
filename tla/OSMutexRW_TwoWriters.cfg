\* Two threads may ask for exclusion, as two tasks that return CallLocked() do.
SPECIFICATION Spec
CONSTANTS
  Threads = {a, b, c}
  Writers = {a, b}
INVARIANT Exclusion
