\* Two sets of two ways, five line addresses: conflicts, hits and evictions
\* of clean and dirty lines in both sets.
CONSTANTS
  RccSets = 2
  RccWays = 2
  Addrs = {0, 1, 2, 3, 4, 5}
SPECIFICATION Spec
INVARIANT TypeOK
PROPERTY LruRefines
