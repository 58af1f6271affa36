SPECIFICATION CardSpec
CONSTANTS
  Slots = {"slotOne"}
  Apps = {"a", "b"}
  Budget = 2
  PaintBatch = 2
  SortedAs <- RowPlace
PROPERTIES
  NewestGoesOut
  
  CardCatchesUp
  
CHECK_DEADLOCK FALSE
