SPECIFICATION Spec
CONSTANTS
  g = g
  h = h
  core = core
  a = a
  b = b
  k = k
  v = v
  Goroutines <- MCGoroutines
  Contexts <- MCContexts
  Names = {k}
  Constructors = {k}
  Plain = {v}
  MaxConstructors = 3
  MaxProcesses = 2
  MaxChanges = 2
SYMMETRY Symmetric
INVARIANTS TypeOK NoRace ProcessesSeeTheirContext
PROPERTY ImplementsIsolation
CHECK_DEADLOCK FALSE
