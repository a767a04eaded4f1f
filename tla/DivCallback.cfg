SPECIFICATION RunSpec
CONSTANTS
  Scripts <- Callbacks
  Programs <- CallbackPrograms
  Inputs <- MCInputs
  GlobalNames <- MCGlobals
  MaxSlot = 6
PROPERTIES ReturnEndsCallback
