SPECIFICATION FairSpec
CONSTANTS
  Hotels = {h1}
  Nodes = {n1, n2}
  RuleIds = {r1, r2}
  MaxDay = 2
  BillRuns = 3
  PoolCap = 1050
  FaultKinds = {"service", "reply"}
  MaxFaults = 2
  NoRule = NoRule
  Idle = Idle
INVARIANT ClaimHasTask
PROPERTY EffectiveRuleIsBilled
