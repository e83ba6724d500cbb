SPECIFICATION FairSpec
CONSTANTS
  f1 = f1
  f2 = f2
  Ids = {f1, f2}
  Owners = {u1}
  Readers = {d1}
  Size <- MCSize
  Quota = 2
  MinAge = 1
  UploadLimit = 1
  LostCommits = {f2}
INVARIANTS
  TypeOK
  RowHasFile
  QuotaHolds
PROPERTIES
  KeptUntilDue
  TableMeetsDisk
