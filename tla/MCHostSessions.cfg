SPECIFICATION Spec
CONSTANTS
  Devices = {d1}
  Sessions = {s1, s2}
  None = None
  MaxOthers = 1
  MaxRevision = 4
  MaxUp = 1
  MaxDown = 1
SYMMETRY Alike
INVARIANT BooksAgree
INVARIANT SafelyPaced
INVARIANT SecretsFollowRecords
INVARIANT RevokedAreLeaving
CHECK_DEADLOCK FALSE
