SPECIFICATION Spec
CONSTANTS
  Requests = {a1}
  Clients = {c1}
  Addresses = {x, y}
  NoAddress = NoAddress
  DbFaults = FALSE
INVARIANTS
  NoDeadUplink
