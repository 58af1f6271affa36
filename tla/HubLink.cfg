SPECIFICATION Spec
CONSTANTS
  UnreachableLimit = 2
  Budget = 3
INVARIANTS
  ShownAsAnnounced
PROPERTIES
  GoneIsSeen
  AliveIsSeen
  PushesReturn
