SPECIFICATION Spec
CONSTANTS
  Pages = {p1}
  Orders = {o1, o2}
  MaxPushes = 2
  MaxActs = 1
  MaxTimers = 2
  FaultKinds = {}
  MaxFaults = 0
  Nobody = Nobody
  NoOrder = NoOrder
PROPERTIES LeavesTakenUp
CHECK_DEADLOCK FALSE
