\* One scan whose job BullMQ hands out a second time after a crash.
SPECIFICATION FairSpec
CONSTANTS
  Scans = {s1}
  Modules = {m1, m2}
  Clients = {c1}
  ScannerClass = {secret, route}
  SecretClass = {secret}
  RouteClass = {route}
  SsrfClass = {route}
  CriticalClass = {}
  HighClass = {route}
  MaxFindings = 1
  MaxOutside = 1
  MaxDeliveries = 2
  Durable = TRUE
  Faults = {"clone", "module", "db", "failed", "rm", "crash"}
INVARIANTS
  ScannedOnce
  AuditTrailHasNoGap
PROPERTIES
  ReportFrozen
  StreamEnds
CHECK_DEADLOCK FALSE
