SPECIFICATION Spec
CONSTANTS
  Hotels = {h1}
  Editors = {o1}
  Reviewers = {r1}
  RowSaves = {}
  MaxText = 3
  FaultKinds = {"crash", "io"}
  MaxFaults = 2
  NoHotel = NoHotel
  NotPublished = NotPublished
  NotCached = NotCached
  NoRow = NoRow
  Idle = Idle
INVARIANTS UNInitialIsNotPublished SubmissionIsPublished AcceptedIsCached AcceptedIsWhole VisibleAgrees
PROPERTY CycleSpec
