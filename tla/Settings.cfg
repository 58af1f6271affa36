SPECIFICATION Spec
CONSTANTS
  Apps = {"app"}
  Page = "page"
  Admins = {"app"}
  Typable = {"secret","presets","token","port"}
  MaxEdits = 1
  MaxRestarts = 1
  Faults = 1
INVARIANTS
  MasksNeverStored
PROPERTIES
  EditsKept
  AppFollows
CHECK_DEADLOCK FALSE
