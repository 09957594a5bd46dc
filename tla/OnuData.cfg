\* Uploads, alarm and table reads, changes and resets, with copies that expire.
SPECIFICATION Spec
CONSTANTS
  a = a
  b = b
  c = c
  Tables <- ThreeTables
  Owners <- ThreeOwners
  NoTable = NoTable
  TableCopies = 2
  CopyTime = 1
  SyncMax = 2
  MaxIds = 3
  MaxRev = 3
  MaxAlarms = 1
SYMMETRY TableSymmetry
INVARIANTS TypeOK UploadIsAnnounced CopyLifetime EventsAreOwn
