SPECIFICATION GSpec
CONSTANTS
  Commands = {shutdown, hibernate}
  Origins = {"ui", "remote"}
  MaxSeq = 2
  MaxPresses = 1
 
INVARIANT StoredForSameCommand
CHECK_DEADLOCK FALSE
SYMMETRY CommandSymmetry
