SPECIFICATION Spec
CONSTANTS
  Programs <- MCPrograms
  Inputs <- MCInputs
  GlobalNames <- MCGlobals
  MaxSlot = 6
INVARIANTS TypeOK
PROPERTIES CellsAreShared
