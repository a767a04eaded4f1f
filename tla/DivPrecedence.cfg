SPECIFICATION ExpressionSpec
CONSTANTS
  Word = 16
  Half = 8
  Elements = {0, 1}
  Careful = FALSE
  Trees <- MCTrees
  Memories <- MCMemories
  Unaries = {"neg"}
  Binaries = {"%", "*"}
  CoreUnaries = {"neg"}
  CoreBinaries = {"%", "*"}
INVARIANT EvaluatesAsWritten
CHECK_DEADLOCK FALSE
