SPECIFICATION MCSpec
CONSTANTS
  s1 = s1
  s2 = s2
  m1 = m1
  m2 = m2
  e1 = e1
  e3 = e3
  p = p
  me = me
  c1 = c1
  c2 = c2
  t1 = t1
  t2 = t2
  a = a
  m = m
  v = v
  n1 = n1
  n2 = n2
  n3 = n3
  n4 = n4
  n5 = n5
  Sockets = {s1, s2}
  Mailboxes = {m1, m2}
  NoMailbox = NoMailbox
  Envelopes = {e1, e3}
  Flushes = {j1}
  To <- MCTo
  Owns <- MCOwns
  Cap = 1
  DrainLimit = 1
  Resubscribers = {s1}
  Faults = {"stale"}
  Names = {h1, h2}
  Secrets = {c1, c2}
  Attempts = {t1, t2}
  Threshold = 2
  MaxEntries = 1
  NoAccount = NoAccount
  Packets = {a, b}
  Path <- MCPath
  EpochMs = 3
  MaxPerEpoch = 1
  Never = Never
  Routes <- MCRoutes
  MaxHops = 5
  Devices = {n1, n2, n3}
  HandleOf <- MCHandleOf
  ProviderOf <- MCProviderOf
  Page = n1
  Letters = {m1}
  Unsent = Unsent
  Padding = 2
  MaxNet = 2
  MaxSeals = 3
  Clients = {n1, n2}
  Proxy = n3
  Hops = 2
  Claims <- MCClaims
  Conns = {n4, n5}
  Accounts = {me}
  MaxConnPerIp = 1
  Keys <- MCKeys
  Capacity = 2
  Refill = 1
  IdleTicks = 2
  Costs = {1, 2}
VIEW GatewayView
INVARIANTS
  RegistrationsExact
  OnlyOwnMail
  BurstBounded
  TokensOfOwner
  DeliveredOnce
  OnionPeels
  LettersTrue
  CountsExact
CHECK_DEADLOCK FALSE
