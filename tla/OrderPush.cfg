SPECIFICATION FairSpec
CONSTANTS
  Pages = {p1, p2}
  Orders = {o1, o2}
  MaxPushes = 2
  MaxActs = 1
  MaxTimers = 2
  FaultKinds = {"fetch", "socket", "link"}
  MaxFaults = 1
  Nobody = Nobody
  NoOrder = NoOrder
INVARIANTS TypeOK OneAtATime QueueBehindOrder
PROPERTIES DeskSpec HelloRegisters QueueGoesOn
CHECK_DEADLOCK FALSE
