SPECIFICATION Spec
CONSTANTS
  MaxVersion = 3
  Faults = 1
  Sessions = {"a"}
  MinVersion <- MinVersions
  MaxUpdaters = 1
INVARIANTS
  ExeWholeOrKept
  CleanIsTrue
  
PROPERTIES
  NeverOlder
  UpdaterRestores
