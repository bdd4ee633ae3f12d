\* A clone that fails, nothing else: the directory made for it stays.
SPECIFICATION Spec
CONSTANTS
  Scans = {s1}
  Modules = {m1}
  Clients = {}
  ScannerClass = {secret, route}
  SecretClass = {secret}
  RouteClass = {route}
  SsrfClass = {route}
  CriticalClass = {}
  HighClass = {route}
  MaxFindings = 1
  MaxOutside = 0
  MaxDeliveries = 1
  Durable = FALSE
  Faults = {"clone"}
INVARIANT WorkspaceAlwaysRemoved
CHECK_DEADLOCK FALSE
