SPECIFICATION Spec
CONSTANTS
  Builds = {b1}
  TheBuild = b1
  Reqs = {r1, r2}
  BuildOf <- MCBuildOf
  Parts = {p, q}
  Places = {s, t}
  Makers = {lego}
  Lego = lego
  None = None
  MaxRecords = 2
  MaxPieces = 2
SYMMETRY MCSymmetry
INVARIANTS
  RequirementNotExceeded
  ProvenanceComplete
  CompleteIsWhole
PROPERTIES
  NoDoubleUse
  LedgerKept
CHECK_DEADLOCK FALSE
