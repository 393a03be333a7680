\* Two tables, two rows, every program and client, restarts and crashes.
SPECIFICATION ProgramsSpec
CONSTANTS
  RawNames <- LetterNames
  Rows = {r1, r2}
  Root = Root
  Nobody = Nobody
  Astray = Astray
  DbTables <- LetterDb
  LabTable <- LetterLab
INVARIANTS ProgramsIInv TablesAreKnown RowsBelong CrashKeepsLastShutdown
PROPERTIES RestartKeepsDatabase RunAddsItsRows StatusTells
SYMMETRY RowSymmetry
