\* Two pollers, one unit apart; a poll every 3 units, of up to one unit; a window
\* of 6 units, which a switch that stays lost passes twice in the 10 of a run.
SPECIFICATION Spec
CONSTANTS
  N = 2
  PollSpacing = 3
  PollInterval = 3
  MaxPoll = 1
  ProgressMultiple = 2
  MaxClock = 10
INVARIANTS
  FirstPollsStaggered
  LiveMeansCycling
  DeadOnlyAfterLostPolls
  ReportAgreesWithItself
  ReadyStays
PROPERTIES
  ImplementsPollLoops
CHECK_DEADLOCK FALSE
