\* Three runs of the scripts, together or one after the other, two failures.
CONSTANTS
  sum = sum
  pair = pair
  pairCapital = pairCapital
  tree = tree
  Scripts = {s1, s2, s3}
  Fold <- MCFold
  Examples <- MCExamples
  SeedData <- MCSeedData
  ImportData <- MCImportData
  MaxFaults = 2
SYMMETRY Symmetry
SPECIFICATION Spec
INVARIANTS CatalogInv DoublesHaveCause
CHECK_DEADLOCK FALSE
