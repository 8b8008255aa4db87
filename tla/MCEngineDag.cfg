SPECIFICATION Spec
CONSTANTS
  Keys = {k1, k2, k3}
  Ops = {read, write}
  Ttps = {t1, t2}
  k1 = k1
  k2 = k2
  k3 = k3
  read = read
  write = write
  t1 = t1
  t2 = t2
  ransom = ransom
  dropper = dropper
  Names = {ransom, dropper}
  NoLine = NoLine
  MaxSteps = 3
  MaxLines = 5
  MaxAutos = 3
  Patterns <- MCPatterns
INVARIANT TypeOK
CHECK_DEADLOCK FALSE
INVARIANTS NeverStuck StorylinesConsistent PrereqClosed NoIdleAutomaton
PROPERTIES EvidenceKept DisarmedOnEvidence ImplementsDetector
SYMMETRY KeySymmetry
