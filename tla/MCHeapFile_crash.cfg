\* Two pages that hold one or two records each; processes end and crash.
SPECIFICATION FairSpec
CONSTANTS
  a = a
  b = b
  PageSize = 6
  Records = {a}
  Size <- MCSize
  Word = Word
  Garbage = Garbage
  MaxPages = 2
  Iters = {}
  NoRecord = NoRecord
  Restarts = TRUE
  Failures = TRUE
INVARIANT LayoutOK
PROPERTIES ImplementsHeapStore InsertReturns
