SPECIFICATION Spec
CONSTANTS
  Commands = {c1, c2, c3, c4, c5}
  Handles = {h1, h2}
  NoHandle = NoHandle
  Ranks <- MCRanks
  Order = 2
SYMMETRY MCSymmetry
INVARIANTS
  TypeOK
  HeapOrder
  TopIsLeast
  OnePlace
PROPERTIES
  SiftingEnds
  ImplementsBag
