SPECIFICATION Spec
CONSTANTS
  Keys = {k1, k2, k3, k4}
  Ops = {read, write}
  Ttps = {}
  read = read
  write = write
  NoLine = NoLine
  Names = {}
  MaxAutos = 2
  MaxEdges = 5
  Patterns <- MCPatterns
SYMMETRY KeySymmetry
INVARIANTS StorylinesAreComponents
PROPERTY ImplementsDetector
CHECK_DEADLOCK FALSE
