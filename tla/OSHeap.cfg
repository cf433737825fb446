\* Up to five of five elements, three values; one may be removed from the
\* middle.
SPECIFICATION Spec
CONSTANTS
  Elems = {e1, e2, e3, e4, e5}
  Values = {1, 2, 3}
  Removable = {e5}
  StartSize = 2
  Capacity = 5
  NoElem = none
SYMMETRY Symmetry
INVARIANTS
  SanityCheck
  ExactlyTheMembers
 
