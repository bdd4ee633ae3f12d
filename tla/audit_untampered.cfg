\* Two calls of the system, nobody alters anything.
SPECIFICATION Spec
CONSTANTS
  Calls = {w1, w2}
  Tenants = {t1}
  Known = {}
  Contents <- MCContents
  Forgeries = {}
  MaxClock = 2
  MaxTamper = 0
INVARIANT UntamperedChainIntact
CHECK_DEADLOCK FALSE
