SPECIFICATION Spec
CONSTANTS
  Programs <- MCPrograms
  Inputs <- MCInputs
  GlobalNames <- MCGlobals
  MaxSlot = 2
PROPERTIES IncrementsTheVariable
