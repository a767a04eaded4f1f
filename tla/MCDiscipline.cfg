SPECIFICATION MarkedSpec
CONSTANTS
  Programs <- MCPrograms
  Inputs <- MCInputs
  GlobalNames <- MCGlobals
  MaxSlot = 6
INVARIANTS Discipline
PROPERTY TriesAreLocal
