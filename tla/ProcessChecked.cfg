\* The files stay as they are and every address is free.
SPECIFICATION Spec
CONSTANTS
  Starts <- AllStarts
  Contents <- Files
  Breakable = {}
  BindMayFail = FALSE
  MaxScrapes = 1
INVARIANTS
  CheckedConfigStarts
CHECK_DEADLOCK FALSE
