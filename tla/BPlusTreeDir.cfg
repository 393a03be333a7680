\* Directories of four records (the code's 204 is even as well): the root fills
\* and splits, and its halves fill.  Leaves of at most four records.
SPECIFICATION Spec
CONSTANTS
  LeafRecords = 4
  DirRecords = 4
  Below = 2
  MaxRecord = 6
  MaxLeaves = 9
INVARIANTS IInv RoutesHome LeavesInTree SearchFindsLowerBound DuplicatesFound
CHECK_DEADLOCK FALSE
