SPECIFICATION FairSpec
CONSTANTS
  s1 = s1
  s2 = s2
  m1 = m1
  m2 = m2
  e1 = e1
  e2 = e2
  e3 = e3
  j1 = j1
  j2 = j2
  Sockets = {s1}
  Mailboxes = {m1}
  NoMailbox = NoMailbox
  Envelopes = {e1, e2}
  Flushes = {j1}
  To <- MCTo
  Owns <- MCOwns
  Cap = 2
  DrainLimit = 1
  Resubscribers = {}
  Faults = {"stale"}
PROPERTIES
  QueueServed
  StaleReclaimed
