CONSTANTS
  Unit = 4
  MaxIndex = 1
  MaxSize = 1
  Object = {"o"}
  Target <- MCTarget
  Literal <- MCLiteral
  Index = {0, 8}
  Index2 = {8}
  Operator = {"LT", "ADD", "MIN", "IN_OBJ"}
  MaxLists = 6
  MaxCells = 4
  MaxNum = 4
  MaxBlocks = 1
  MaxStatements = 4
SPECIFICATION Spec
INVARIANTS Balanced GrowthBounded NameReadsBack Cloned
CHECK_DEADLOCK FALSE
