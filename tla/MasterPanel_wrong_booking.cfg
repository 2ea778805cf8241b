\* Two bookings whose messages both offer times.
CONSTANTS
  u1 = u1
  u2 = u2
  Null = Null
  l1 = l1
  Lists = {l1}
  Users = {u1, u2}
  BookingIds = {1, 2}
  Days = {0}
  Starts = {2, 3, 4}
  DayLength = 6
  DefaultStep = 1
  HoldLength = 1
  CancelCutoff = 1
  Indexes = {"slot", "user"}
  Hours <- MCPanelHours
  InitialSteps = {1}
  Horizon = 0
SYMMETRY Clients
SPECIFICATION PanelSpec
PROPERTIES
  MovesBookingOfScreen
