SPECIFICATION Spec
CONSTANTS
  Keys = {k1, k2, k3}
  Ops = {exec, inject}
  Ttps = {1055, 1059}
  exec = exec
  inject = inject
  NoLine = NoLine
  MaxAutos = 3
  CapEnt = 3
  CapLines = 2
  CapMembers = 2
  CapAuto = 3
  CapDis = 1
  UsedCap = 1
  Catalogue <- MCCatalogue
  Patterns <- MCPatterns
  Later <- MCLater
SYMMETRY KeySymmetry
INVARIANT NeverStronger
CHECK_DEADLOCK FALSE
