\* Three requests, two at a time inside create(); limits and slots are 1, which
\* three requests can exceed.
SPECIFICATION FairSpec
CONSTANTS
  Jobs = {r1, r2, r3}
  MOCK_QUEUE_CONCURRENCY = 1
  Tenants = {t1}
  TenantOf <- OneTenant
  MAX_CONCURRENT_SCANS_PER_TENANT = 1
  MAX_SCANS_PER_HOUR_PER_TENANT = 1
  MaxInFlight = 2
  MaxRestarts = 1
INVARIANTS
  TypeOK
  ActiveScansBounded
  HourlyScansBounded
  SlotsInUse
PROPERTIES
  ImplementsPool
  QueuedScanLeaves
CHECK_DEADLOCK FALSE
