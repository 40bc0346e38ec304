SPECIFICATION Spec
CONSTANTS
  Hotels = {h1, h2}
  Nodes = {n1, n2}
  RuleIds = {r1, r2}
  MaxDay = 3
  BillRuns = 2
  PoolCap = 1
  FaultKinds = {"crash", "db", "service", "reply"}
  MaxFaults = 1
  NoRule = NoRule
  Idle = Idle
SYMMETRY Symmetry
INVARIANTS TypeOK SyncedIsPublished SettledHasBill BillIsOfItsDay AtMostOneBillPerFault
PROPERTY LifecycleSpec
