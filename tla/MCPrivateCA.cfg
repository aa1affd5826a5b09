SPECIFICATION Spec
CONSTANTS
  Admins = {a1, a2}
  Jobs = {j1}
  MaxRoots = 3
SYMMETRY Symmetry
INVARIANTS  RevocationsPublished DisabledHolds BackupHonest
