SPECIFICATION FairSpec
CONSTANTS
  Requests = {a1, a2}
  Clients = {c1}
  Addresses = {x, y}
  NoAddress = NoAddress
  DbFaults = TRUE
INVARIANTS
  TypeOK
  UplinkAlive
  ToldLive
  WishInEffect
PROPERTIES
  NymRestored
