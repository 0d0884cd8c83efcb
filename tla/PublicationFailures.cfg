\* The slow command fails at one tick, and a poll without it is lost at the next.
SPECIFICATION Spec
CONSTANTS
  Commands <- Two
  Position <- TwoPosition
  Version = "version"
  Interval <- TwoInterval
  PollInterval = 3
  Timeout = 1
  CredentialFile = FALSE
  StartOffset = 0
  SummaryEvery = 2
  Faults = {"lost", "unusable"}
  MaxClock = 9
  StalenessLimit = 9
INVARIANT EveryFailureIsReported
CHECK_DEADLOCK FALSE
