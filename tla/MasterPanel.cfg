\* One client and booking, one day with two slots, two lists of typed days.
CONSTANTS
  u1 = u1
  Null = Null
  l1 = l1
  l2 = l2
  Lists = {l1, l2}
  Users = {u1}
  BookingIds = {1}
  Days = {0}
  Starts = {2, 3}
  DayLength = 4
  DefaultStep = 1
  HoldLength = 1
  CancelCutoff = 1
  Indexes = {"slot", "user"}
  Hours <- MCTwoHours
  InitialSteps = {1}
  Horizon = 4
SYMMETRY ListsAlike
SPECIFICATION PanelSpec
INVARIANTS
  PanelTypeOK
PROPERTIES
  Spec
  
