SPECIFICATION CallsSpec
CONSTANTS
  CallIds = {c1, c2}
  CallTasks = {t1}
  NoCall = NoCall
INVARIANTS
  ConsentedExposure
