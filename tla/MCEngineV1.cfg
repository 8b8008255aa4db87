SPECIFICATION Spec
CONSTANTS
  Procs = {p1, p2}
  Files = {f1, f2}
  Keys = {p1, p2, f1, f2}
  NoKey = NoKey
  MaxTime = 2
  Meta <- MCMeta
  Patterns <- MCPatterns
  Inputs <- MCInputs
SYMMETRY KeySymmetry
INVARIANTS RootsOwnStorylines StorylinesAreCausal EvidenceOrdered DeniedOnEvidence
PROPERTY EvidenceKept
CHECK_DEADLOCK FALSE
