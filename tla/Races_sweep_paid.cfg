\* A receipt is confirmed between the reads and the commit of the sweep.
CONSTANTS
  u1 = u1
  u2 = u2
  b1 = b1
  b2 = b2
  b3 = b3
  p1 = p1
  p2 = p2
  Null = Null
  Users = {u1, u2}
  BookingIds = {b1, b2, b3}
  Sessions = {p1, p2}
  Days = {0}
  Starts = {3}
  DayLength = 4
  DefaultStep = 1
  HoldLength = 1
  CancelCutoff = 2
  Indexes = {"slot", "user"}
  Settings <- SweepOnPostgres
  Horizon = 2
SYMMETRY Interchangeable
SPECIFICATION Spec
PROPERTIES
  SweepSparesPaid
CHECK_DEADLOCK FALSE
