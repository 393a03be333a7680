\* The same with a string that UTF-8 represents by bytes above 127.
SPECIFICATION Spec
CONSTANTS
  LeafRecords = 2
  DirRecords = 2
  KeyBytes = 2
  Keys <- Accented
  Encoding <- StringEncoding
  Less <- StringLess
  MaxSlots = 2
  NoRow = NoRow
  Failures = FALSE
INVARIANT ScanFindsEntries
CHECK_DEADLOCK FALSE
