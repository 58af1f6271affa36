SPECIFICATION Spec
CONSTANTS
  Keys = {"a", "b"}
  Verbs = {"/shutdown n", "exec"}
  MaxUpdates = 2
  MaxSaves = 2
  MaxStops = 1
  Faults = 1
INVARIANTS
  ActsOnceInTime
  
PROPERTIES
  Taken
