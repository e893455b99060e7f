\* A backup of a database in use, and three restores of it under one name.
SPECIFICATION Spec
CONSTANTS
  None = None
  Backups = {b1}
  Restores = {x1, x2, x3}
  Revisions = {v1, v2}
  MaxActivations = 3
  MaxSessions = 1
SYMMETRY Symmetry
CHECK_DEADLOCK FALSE
INVARIANTS ManifestDescribesDump ReceiptSurvivesPowerFailure CleanupClaimIsTrue
  
