\* Nearly two hundred configurations and command lines, one or two switches,
\* one scrape at a time.  A credential and the key of the listener may go away while
\* the process starts, and addresses may be taken.
SPECIFICATION FairSpec
CONSTANTS
  Starts <- AllStarts
  Contents <- Files
  Breakable = {"own", "key"}
  BindMayFail = TRUE
  MaxScrapes = 1
INVARIANTS
  ClientsAsConfigured
  AcceptedSchedule
  CheckAgrees
  ScrapesAreDrained
PROPERTIES
  StopsWhenTold
CHECK_DEADLOCK FALSE
