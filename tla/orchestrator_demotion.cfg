\* A crash after COMPLETE is stored and before the job is acknowledged.
SPECIFICATION Spec
CONSTANTS
  Scans = {s1}
  Modules = {m1}
  Clients = {}
  ScannerClass = {secret, route}
  SecretClass = {secret}
  RouteClass = {route}
  SsrfClass = {route}
  CriticalClass = {}
  HighClass = {route}
  MaxFindings = 1
  MaxOutside = 0
  MaxDeliveries = 2
  Durable = TRUE
  Faults = {"crash"}
PROPERTY CompleteIsTerminal
CHECK_DEADLOCK FALSE
