\* Two commands; requests of up to 1 unit, and 2 where the password is changed, so
\* that a refused batch may take 6, three ticks; time up to 9: every kind of answer
\* at each of up to four ticks.
SPECIFICATION Spec
CONSTANTS
  Commands <- Two
  Position <- TwoPosition
  Version = "version"
  Interval <- TwoInterval
  PollInterval = 2
  Timeout = 1
  CredentialFile = TRUE
  StartOffset = 1
  SummaryEvery = 2
  Faults = {"lost", "refused", "unusable"}
  MaxClock = 9
INVARIANTS
  TypeOK
  AgeNeverUnderstated
  ScrapeErrTellsLastPoll
  ErrorsAreReal
  SilenceBounded
PROPERTIES
  ReadingsChangeWithTheirStamp
  ImplementsStore
  ImplementsPollLoop
CHECK_DEADLOCK FALSE
