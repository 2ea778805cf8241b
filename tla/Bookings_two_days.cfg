\* Two days of two hourly slots, two clients, two booking rows.
CONSTANTS
  u1 = u1
  u2 = u2
  b1 = b1
  b2 = b2
  Null = Null
  Users = {u1, u2}
  BookingIds = {b1, b2}
  Days = {0, 1}
  Starts = {0, 1}
  DayLength = 2
  DefaultStep = 1
  HoldLength = 1
  CancelCutoff = 2
  Indexes = {"slot", "user"}
  Hours <- MCHours
  InitialSteps = {1}
  Horizon = 4
SYMMETRY ClientsAndRows
SPECIFICATION Spec
INVARIANTS
  ScheduleInv
  TypeOK
  VisitOwnsSlot
  BusySlotHasBooking
  HoldMeetsNoIndex
PROPERTIES
  PaidVisitKept
  HoldRespected
  AgendaKept
