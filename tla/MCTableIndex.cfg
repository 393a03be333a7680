\* Inserts, deletes, vacuums and scans of ASCII strings in two slots.
SPECIFICATION Spec
CONSTANTS
  LeafRecords = 2
  DirRecords = 2
  KeyBytes = 2
  Keys <- Ascii
  Encoding <- StringEncoding
  Less <- StringLess
  MaxSlots = 2
  NoRow = NoRow
  Failures = TRUE
INVARIANTS IInv EntrySound RowsHaveEntries ScanFindsEntries
CHECK_DEADLOCK FALSE
