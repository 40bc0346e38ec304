SPECIFICATION Spec
CONSTANTS
  Hotels = {h1, h2}
  Wares = {w1, w2}
  Tabs = {t1, t2}
  Calls = {c1, c2}
  Entries = {1}
  MaxActs = 3
  FaultKinds = {"io"}
  MaxFaults = 0
  NoCart = NoCart
  Idle = Idle
INVARIANT ShippedToShown
CHECK_DEADLOCK FALSE
