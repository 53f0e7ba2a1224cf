SPECIFICATION Spec
CONSTANTS
  s1 = s1
  s2 = s2
  k1 = k1
  k2 = k2
  Slices <- MCSlices
  Keys <- MCKeys
  Values = {1}
  MaxCells = 3
  MaxCap = 2
SYMMETRY Symmetry
CHECK_DEADLOCK FALSE
INVARIANTS
  TypeOK
  NoAliases
  OneValuePerKey
PROPERTIES
  SharedDataUntouched
  KeepsContract
