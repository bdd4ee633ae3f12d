\* Three requests of two addresses, one operation of an operator.
SPECIFICATION Spec
CONSTANTS
  e1 = e1
  alias = alias
  other = other
  r1 = r1
  r2 = r2
  r3 = r3
  a1 = a1
  a2 = a2
  Entities = {e1}
  Apps = {e1, alias, other}
  Limit <- MCLimit
  DefaultLimit = 2
  Score <- MCScore
  Payloads <- MCPayloads
  ThreatSignatures <- MCThreatSignatures
  IPs = {a1, a2}
  Requests = {r1, r2, r3}
  WINDOW = 2
  MaxClock = 2
  MaxOperatorActs = 1
SYMMETRY RequestSymmetry
INVARIANTS
  TypeOK
  LevelAndListsAgree
  AirgapUntilRestored
  RateBounded
  InterceptLeavesTraces
PROPERTIES
  InterceptedOriginStaysOut
CHECK_DEADLOCK FALSE
