\* Three requests on three small repositories: scans, uploads, fixes, a push, a clear.
SPECIFICATION Spec
CONSTANTS
  r1 = r1
  r2 = r2
  r3 = r3
  Requests = {r1, r2, r3}
  First = first
  Trees <- MCTrees
  TreeAt <- MCTreeAt
  Lookups <- MCLookups
  Answers <- MCAnswers
  ScanRuns <- MCScanRuns
  Dropped <- MCDropped
  Typed <- MCTyped
  Rejected = {"..", "a:"}
  MaxAttempts = 2
  MaxLinks = 2
  MaxScans = 1
  MaxPushes = 1
  MaxUploads = 2
  MaxFixes = 2
  FixTitles = {"Exposed Endpoint", "Private Key Block", "Access Key", "Database Port"}
SYMMETRY RequestSymmetry
INVARIANTS
  TypeOK
  ScannersMissNothing
  FixIsOfItsFinding
  UploadStoredOnce
  WorkspaceRemoved
CHECK_DEADLOCK FALSE
