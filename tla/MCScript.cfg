SPECIFICATION FairRunSpec
CONSTANTS
  Scripts <- MCScripts
  Programs <- MCPrograms
  Inputs <- MCInputs
  GlobalNames <- MCGlobals
  MaxSlot = 6
INVARIANTS MeansWhatItSays LeavesNoOperands NeverUnderflows NeverPanics PendingIsRethrown ContextsAreNested
PROPERTIES CallersKeepOperands ImplementsHostView
