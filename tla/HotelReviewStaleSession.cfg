SPECIFICATION Spec
CONSTANTS
  Hotels = {h1}
  Editors = {o1}
  Reviewers = {r1}
  RowSaves = {"session"}
  MaxText = 1
  FaultKinds = {}
  MaxFaults = 0
  NoHotel = NoHotel
  NotPublished = NotPublished
  NotCached = NotCached
  NoRow = NoRow
  Idle = Idle
INVARIANT UNInitialIsNotPublished
