\* HeapReAlloc, against the size its prototype promises.
SPECIFICATION Spec
CONSTANTS
  Blocks = {b1, b2}
  Sizes = {0, 1, 2}
  Variables = {v1, v2}
  FlsSlots = 2
SYMMETRY Symmetry
CHECK_DEADLOCK FALSE
INVARIANTS
  UserAreaIsAllocated
