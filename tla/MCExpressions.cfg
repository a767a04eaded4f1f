SPECIFICATION ExpressionSpec
CONSTANTS
  Word = 16
  Half = 8
  Elements = {0, 1}
  Careful = TRUE
  Trees <- MCTrees
  Memories <- MCMemories
  Unaries = {"neg", "plus", "~", "!", "delete", "++p", "p++", "x[]", "f()"}
  Binaries = {"+", "-", "%", "*", "<<", ">>", ">>>", "<", "<=", "==", "!=", "===", "!==", "&", "^", "|", "&&", "||", "=", ",", "o.m()"}
  CoreUnaries = {"neg", "!", "p++", "x[]"}
  CoreBinaries = {"-", "%", "*", "<<", "<", "==", "&", "|", "&&", "||", "=", ","}
INVARIANT EvaluatesAsWritten
PROPERTY LeavesOneValue
CHECK_DEADLOCK FALSE
