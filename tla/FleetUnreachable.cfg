\* A switch that stays lost, until the window is over.
SPECIFICATION Spec
CONSTANTS
  N = 2
  PollSpacing = 3
  PollInterval = 3
  MaxPoll = 1
  ProgressMultiple = 2
  MaxClock = 8
INVARIANT DeadMeansWedged
CHECK_DEADLOCK FALSE
