\* Two clients, one slot on one day, on both databases.
CONSTANTS
  u1 = u1
  u2 = u2
  Null = Null
  Users = {u1, u2}
  BookingIds = {1, 2}
  Days = {0}
  Starts = {2}
  DayLength = 4
  DefaultStep = 1
  HoldLength = 1
  CancelCutoff = 1
  Indexes = {"slot", "user"}
  Hours <- MCOneHours
  InitialSteps = {1}
  Horizon = 2
  IdPolicies <- MCPolicies
SYMMETRY Clients
SPECIFICATION FormSpec
INVARIANTS
  FormTypeOK
  OwnershipInv
  FormWaitsForPending
PROPERTIES
  ReceiptForOwnVisit
  LeaveSparesOthers
