SPECIFICATION Spec
CONSTANTS
  a1 = a1
  a2 = a2
  a3 = a3
  r1 = r1
  r2 = r2
  Appends = {a1, a2, a3}
  RunIds = {r1, r2}
  RunId <- RunIdOfAppend
  NotFinite = {}
  WholeWrites = FALSE
  Faults = TRUE
INVARIANTS AcknowledgedIsListed
