SPECIFICATION Spec
CONSTANTS
  Hotels = {h1}
  Nodes = {n1}
  RuleIds = {r1}
  MaxDay = 2
  BillRuns = 3
  PoolCap = 1050
  FaultKinds = {"crash"}
  MaxFaults = 1
  NoRule = NoRule
  Idle = Idle
INVARIANT ClaimHasTask
