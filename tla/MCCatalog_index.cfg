\* An index after an orderly restart.
SPECIFICATION Spec
CONSTANTS
  RawNames <- LetterNames
  Rows = {r1}
  Root = Root
  Nobody = Nobody
  Astray = Astray
PROPERTY RestartFindsTrees
