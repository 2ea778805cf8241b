\* Two visits, windows of one and of three intervals.
CONSTANTS
  b1 = b1
  b2 = b2
  m1 = m1
  BookingIds = {b1, b2}
  Times = {5, 6}
  Movers = {m1}
  Window <- MCWindow
  Interval = 1
  Horizon = 4
SYMMETRY Visits
SPECIFICATION Spec
INVARIANTS
  TypeOK
  RemindedOnce
  FlagMeansTold
  ReminderInTime
