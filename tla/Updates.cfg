\* One client, two tasks, buckets of two updates.
CONSTANTS
  u1 = u1
  t1 = t1
  t2 = t2
  Users = {u1}
  Burst = 2
  Refill = 3
  MinInterval = 2
  Ttl = 6
  Topics = {"crash", "loop"}
  Senders = {t1, t2}
  Cooldown = 2
  Timeout = 1
  RECONNECT_START = 1
  RECONNECT_MAX = 2
SPECIFICATION FairSpec
INVARIANTS
  TypeOK
  CooldownFollowsMessages
PROPERTIES
  BucketImplemented
  PollingResumes
  TappingGetsThrough
