SPECIFICATION Spec
CONSTANTS
  WordBits = 6
  PageBits = 4
  Shift = 2
  ClassCount = 2
  TableBase = 16
  StaticEnd = 24
  Layouts <- MCLayouts
  FrameSizes = {3, 5, 57}
  MaxDepth = 3
INVARIANTS
  LiveDataIsDisjoint
CHECK_DEADLOCK FALSE
