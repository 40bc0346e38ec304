SPECIFICATION FairSpec
CONSTANTS
  Hotels = {h1}
  Wares = {w1, w2}
  Tabs = {t1, t2}
  Calls = {c1, c2}
  Entries = {1}
  MaxActs = 2
  FaultKinds = {"io", "net"}
  MaxFaults = 1
  NoCart = NoCart
  Idle = Idle
INVARIANTS TypeOK OrderMoves PageShowsCart LockHasCall
PROPERTY LockReleased
CHECK_DEADLOCK FALSE
