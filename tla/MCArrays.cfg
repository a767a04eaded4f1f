SPECIFICATION Spec
CONSTANTS
  NotMade = NotMade
  Arrays = {11, 12}
  Memories = {1, 2, 3, 4}
  Values = {1, 2, 3}
  Undefined = 3
  Initial <- MCInitial
  Indices <- MCIndices
  MaxInt = 7
  MaxMake = 3
  MaxLength = 3
  MaxCalls = 3
  MaxWalks = 1
INVARIANTS TypeOK MemoryIsNotShared ArgumentsMeanPositions PanicsOnlyWhere
PROPERTIES ImplementsArrayValues 
CHECK_DEADLOCK FALSE
