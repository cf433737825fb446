\* As OSHeap.cfg, but elements may be removed from the middle.
SPECIFICATION Spec
CONSTANTS
  Elems = {e1, e2, e3, e4, e5, e6}
  Values = {1, 2}
  Removable = {e1, e2, e3, e4, e5, e6}
  StartSize = 2
  Capacity = 6
  NoElem = none
SYMMETRY Symmetry
INVARIANT SanityCheck
