\* The form is left between the confirmation and the answer.
CONSTANTS
  u1 = u1
  u2 = u2
  Null = Null
  Users = {u1, u2}
  BookingIds = {1}
  Days = {0}
  Starts = {2}
  DayLength = 4
  DefaultStep = 1
  HoldLength = 1
  CancelCutoff = 1
  Indexes = {"slot", "user"}
  Hours <- MCOneHours
  InitialSteps = {1}
  Horizon = 3
  IdPolicies <- MCReuse
SYMMETRY Clients
SPECIFICATION FormSpec
PROPERTIES
  LeaveSparesPaid
