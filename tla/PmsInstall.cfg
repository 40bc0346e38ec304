SPECIFICATION Spec
CONSTANTS
  Hotels = {h1, h2}
  Codes = {c1, c2}
  Users = {u1, u2}
  Tabs = {t1, t2}
  MaxInstalls = 3
  NoCode = NoCode
  NoHotel = NoHotel
  NoList = NoList
  Idle = Idle
SYMMETRY Symmetry
INVARIANTS TypeOK OneHotelPerCode InUseIsConnected
