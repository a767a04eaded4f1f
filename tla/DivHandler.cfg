SPECIFICATION RunSpec
CONSTANTS
  Scripts <- AcrossCalls
  Programs <- AcrossPrograms
  Inputs <- MCInputs
  GlobalNames <- MCGlobals
  MaxSlot = 6
PROPERTIES HandlersRunInTheirFunction
