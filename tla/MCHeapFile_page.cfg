\* One page with room for five records, of two sizes.
SPECIFICATION Spec
CONSTANTS
  a = a
  b = b
  PageSize = 12
  Records = {a, b}
  Size <- MCSize
  Word = Word
  Garbage = Garbage
  MaxPages = 1
  Iters = {}
  NoRecord = NoRecord
  Restarts = FALSE
  Failures = FALSE
INVARIANTS LayoutOK
PROPERTIES ImplementsHeapStore VacuumReclaims
