\* Two deliveries of one job, which a crash or a stall may make overlap.
SPECIFICATION FairSpec
CONSTANTS
  Scans = {s1}
  Modules = {m1}
  Clients = {}
  ScannerClass = {route}
  SecretClass = {}
  RouteClass = {route}
  SsrfClass = {route}
  CriticalClass = {}
  HighClass = {route}
  MaxFindings = 1
  MaxOutside = 0
  MaxDeliveries = 2
  Durable = TRUE
  Faults = {"module", "db", "crash", "stall"}
PROPERTIES
  ScansEnd
CHECK_DEADLOCK FALSE
