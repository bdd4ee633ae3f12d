\* Three calls, three milliseconds, one change behind the back of the service, one report.
SPECIFICATION ForensicsSpec
CONSTANTS
  Calls = {w1, w2, w3}
  Tenants = {t1, t2}
  Known = {t1}
  Contents <- MCContents
  Forgeries <- MCForgeries
  MaxClock = 2
  MaxTamper = 1
  IncidentTypes = {"CASCADING_ATTACK_CHAIN"}
  TimelineLength = 2
  MaxReports = 1
SYMMETRY CallSymmetry
INVARIANTS
  ForensicsTypeOK
  ForkNeedsOverlapOrTie
  TimelyChainVerifies
  VerifiedIsGenuine
CHECK_DEADLOCK FALSE
