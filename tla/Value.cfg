\* Three objects and blocks for each of them and one in flight.
SPECIFICATION Spec
CONSTANTS
  Values = {v1, v2, v3}
  Blocks = {b1, b2, b3, b4}
  NoBlock = NoBlock
INVARIANTS OneOwner NoLeak
