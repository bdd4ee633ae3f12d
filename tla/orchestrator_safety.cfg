\* One scan, two scanners, one client; every failure inside one delivery.
SPECIFICATION Spec
CONSTANTS
  Scans = {s1}
  Modules = {m1, m2}
  Clients = {c1}
  ScannerClass = {secret, route, plain}
  SecretClass = {secret}
  RouteClass = {route}
  SsrfClass = {route}
  CriticalClass = {}
  HighClass = {route}
  MaxFindings = 3
  MaxOutside = 1
  MaxDeliveries = 1
  Durable = FALSE
  Faults = {"clone", "module", "db", "audit", "crash"}
SYMMETRY ModuleSymmetry
INVARIANTS
  TypeOK
  RunMatchesRow
  ReportIsFinal
  NothingOutlivesTheRun
  StreamTellsOutcome
PROPERTY ImplementsLifecycle
CHECK_DEADLOCK FALSE
