SPECIFICATION Spec
CONSTANTS
  WordBits = 6
  PageBits = 4
  Shift = 2
  ClassCount = 2
  TableBase = 16
  StaticEnd = 8
  Layouts <- MCHugeLayouts
  FrameSizes = {3, 5, 57}
  MaxDepth = 3
INVARIANTS
  OwnersAreServed
CHECK_DEADLOCK FALSE
