SPECIFICATION Spec
CONSTANTS
  Hotels = {h1}
  Editors = {o1}
  Reviewers = {r1, r2}
  RowSaves = {"session", "fresh"}
  MaxText = 1
  FaultKinds = {}
  MaxFaults = 0
  NoHotel = NoHotel
  NotPublished = NotPublished
  NotCached = NotCached
  NoRow = NoRow
  Idle = Idle
SYMMETRY Symmetry
INVARIANTS TypeOK ReviewedIsPublished RoomsComeBack ServicesComeBack ReviewedIsCached
