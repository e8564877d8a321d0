\* Every interleaving of calls on two files and their views, mmap failing or not,
\* with positions on both sides of the int limit.
SPECIFICATION Spec
CONSTANTS
  Handles = {h1, h2}
  Sizes = {0, 3}
  MaxMappings = 3
  MaxPage = 4
  Lengths = {1, 2}
  Distances = {1, 2}
  IntLimit = 2
  MmapMayFail = TRUE
SYMMETRY Symmetry
CHECK_DEADLOCK FALSE
INVARIANTS
  TypeOK
  ViewsAccounted
  ViewsDisjoint
PROPERTIES
  SizeQueryKeepsPosition
