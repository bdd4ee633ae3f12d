\* Three requests against the limits of the code.
SPECIFICATION Spec
CONSTANTS
  Jobs = {r1, r2, r3}
  MOCK_QUEUE_CONCURRENCY = 2
  Tenants = {t1}
  TenantOf <- OneTenant
  MAX_CONCURRENT_SCANS_PER_TENANT = 2
  MAX_SCANS_PER_HOUR_PER_TENANT = 10
  MaxInFlight = 2
  MaxRestarts = 0
INVARIANT ConcurrentScansCapped
CHECK_DEADLOCK FALSE
