\* An iterator over at most three pages that fill and empty below it.
SPECIFICATION Spec
CONSTANTS
  a = a
  b = b
  PageSize = 6
  Records = {a}
  Size <- MCSize
  Word = Word
  Garbage = Garbage
  MaxPages = 3
  Iters = {i1}
  NoRecord = NoRecord
  Restarts = FALSE
  Failures = TRUE
INVARIANTS IInv ScanComplete
