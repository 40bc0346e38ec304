SPECIFICATION Spec
CONSTANTS
  PeriodBills = {p1}
  SpecialBills = {s1}
  Users = {u1, u2}
  Amounts = {a1}
  MaxRounds = 1
  FaultKinds = {"crash", "logout"}
  MaxFaults = 1
  Null = Null
  Idle = Idle
SYMMETRY Symmetry
INVARIANTS TypeOK ObjectionHasAmount DecisionIsFiled OneAppeal ConfirmationStands
PROPERTY Flow
CHECK_DEADLOCK FALSE
