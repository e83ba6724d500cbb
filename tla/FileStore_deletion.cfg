SPECIFICATION Spec
CONSTANTS
  f1 = f1
  f2 = f2
  Ids = {f1}
  Owners = {u1}
  Readers = {d1}
  Size <- MCSize
  Quota = 2
  MinAge = 1
  UploadLimit = 1
  LostCommits = {}
INVARIANTS
  DeletionTakesFiles
