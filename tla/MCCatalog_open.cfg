\* A table whose file could not be opened.
SPECIFICATION Spec
CONSTANTS
  RawNames <- LetterNames
  Rows = {r1}
  Root = Root
  Nobody = Nobody
  Astray = Astray
INVARIANT GetTableSound
