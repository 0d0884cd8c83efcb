\* Two commands with intervals 6 and 8; a refused batch is the only fault, and its
\* retries, each with another password, fill the interval.  The limits of 18 and 24
\* units pass within the 27 of a run, in which deadlines and ticks meet again.
SPECIFICATION Spec
CONSTANTS
  Commands <- Two
  Position <- TwoPosition
  Version = "version"
  Interval <- LongInterval
  PollInterval = 6
  Timeout = 1
  CredentialFile = TRUE
  StartOffset = 0
  SummaryEvery = 2
  Faults = {"refused"}
  MaxClock = 27
  StalenessLimit = 12
INVARIANTS
  VersionInEveryBatch
  DeadlineIsNextInPhase
  NoCommandStarves
  ScrapeGateHidesNothingFresh
  ServedWithinLimit
  HealthyCommandsStayPublished
  SuccessHasReadings
CHECK_DEADLOCK FALSE
