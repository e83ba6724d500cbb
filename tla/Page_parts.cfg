SPECIFICATION MCSpec
CONSTANTS
  p = p
  me = me
  m1 = m1
  m2 = m2
  r1 = r1
  w1 = w1
  v1 = v1
  c1 = c1
  c2 = c2
  t1 = t1
  t2 = t2
  Nothing = Nothing
  Me = me
  Contents <- MCContents
  Lookups = {1}
  SeenCap = 2
  HistoryCap = 2
  NoCall = NoCall
  CallIds = {c1, c2}
  CallTasks = {t1, t2}
  Absent = Absent
  Users = {x, y}
  Keypairs = {k1, k2, k3}
  DeviceIds = {d1, d2, d3}
  Viewers = {p, me}
  FileSizes = {0, 3, 4}
  ExpireTicks = {0, 1}
  ChunkLen = 2
  HeadLen = 1
  IvLen = 1
  TagLen = 1
  MaxTime = 4
VIEW PageView
INVARIANTS
  PageTypeOK
  RemovedStays
  SaveScheduled
  MicReleased
  LoginReusesDevice
  AttachmentsEnd
CHECK_DEADLOCK FALSE
