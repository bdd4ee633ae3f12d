\* Three requests on one address, its challenges, its secrets and its lock.
SPECIFICATION Spec
CONSTANTS
  r1 = r1
  r2 = r2
  r3 = r3
  v1 = v1
  k1 = k1
  Requests = {r1, r2, r3}
  First = first
  Versions = {v1, v2}
  MasterKeys = {k1, k2}
  InitialKeys <- MCInitialKeys
  InitialVersion = v1
  CHALLENGE_TTL = 0
  SweepAbove = 0
  LOCK_TTL = 1
  MaxClock = 1
  MaxVaultActs = 2
SYMMETRY RequestSymmetry
INVARIANTS
  TypeOK
  AddressTakenOnce
  MfaSecretConfirmed
  MfaAskedFor
  
  OneTransactionAtATime
  ChallengesHonoured
CHECK_DEADLOCK FALSE
