\* Two slots, two clients, two calls in flight, on both databases.
CONSTANTS
  u1 = u1
  u2 = u2
  b1 = b1
  b2 = b2
  p1 = p1
  p2 = p2
  Null = Null
  Users = {u1, u2}
  BookingIds = {b1, b2}
  Sessions = {p1, p2}
  Days = {0}
  Starts = {3, 4}
  DayLength = 5
  DefaultStep = 1
  HoldLength = 1
  CancelCutoff = 2
  Indexes = {"slot", "user"}
  Settings <- TwoSlots
  Horizon = 2
SYMMETRY Interchangeable
SPECIFICATION Spec
INVARIANTS
  TypeOK
  ReceiptWinsOnce
PROPERTIES
  NoResurrection
  OnlyOldReadingsHarm
  SerialCalls
  HoldNotStealable
