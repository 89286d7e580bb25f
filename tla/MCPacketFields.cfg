CONSTANTS
  Field <- MCField
  LoopKind <- MCLoopKind
  MaxFields = 2
  MaxLoopData = 8
SPECIFICATION Spec
INVARIANTS ReadsBack CursorAligned NoControlByte
PROPERTIES ForwardOnly LoopEnds
CHECK_DEADLOCK FALSE
