SPECIFICATION Spec
CONSTANTS
  u1 = u1
  u2 = u2
  c1 = c1
  c2 = c2
  c3 = c3
  d1 = d1
  d2 = d2
  j1 = j1
  j2 = j2
  Handles = {u1, u2}
  Clients = {c1, c2}
  Of <- MCOf
  DeviceIds = {d1, d2}
  Jobs = {j1, j2}
  InFlight = 2
  Ops = {"ban", "unban", "delete", "selfdelete", "clear", "forget"}
  MaxDevices = 1
  Failures = TRUE
SYMMETRY TwinSymmetry
VIEW AccountsView
INVARIANTS
  TypeOK
  BannedIsOut
  ListensOnOwnDevice
  BanSetExact
