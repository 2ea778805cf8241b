\* One day, three slots around the end of the bounded clock, no symmetry; no
\* index was built, and the settings row may carry the step of an old version.
CONSTANTS
  u1 = u1
  u2 = u2
  b1 = b1
  b2 = b2
  Null = Null
  Users = {u1, u2}
  BookingIds = {b1, b2}
  Days = {0}
  Starts = {1, 2, 3}
  DayLength = 4
  DefaultStep = 1
  HoldLength = 1
  CancelCutoff = 1
  Indexes = {}
  Hours <- MCLongHours
  InitialSteps = {1, 2}
  Horizon = 2
SPECIFICATION FairSpec
INVARIANTS
  OneLivePerClient
PROPERTIES
  LapsedHoldReleased
  FinishedVisitSettled
