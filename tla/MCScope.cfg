SPECIFICATION Spec
CONSTANTS
  x = x
  y = y
  L = L
  UserNames <- MCNames
  ParamLists <- MCParams
  Labels = {L}
  Reads <- MCReads
  MaxFunctions = 4
  MaxItems = 5
INVARIANTS TypeOK SlotsAreDistinct LinksAgree ReferencesAreLexical ContextsMatchStatements JumpsAreLocal
