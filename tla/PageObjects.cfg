\* One tree, two iterators and pins lost to failed reads, in the smallest
\* buffer they get by with.
SPECIFICATION Spec
CONSTANTS
  FrameCount = 7
  Pages = {p1, p2, p3, p4, p5, p6}
  NoPage = NoPage
  Trees = {t1}
  HeapIters = {h1}
  TreeIters = {i1}
  MaxLost = 1
  Nobody = Nobody
INVARIANTS IInv GetPageFindsFrame PinsEndWithCalls
