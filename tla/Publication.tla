----------------------------- MODULE Publication -----------------------------
(***************************************************************************)
(* What one rendering of a switch shows (metrics.Collector.collectSwitch), *)
(* as a function of the poller's published record and of the time.  The    *)
(* rendering holds the read lock, so it sees one state.                    *)
(***************************************************************************)
EXTENDS Poller

CONSTANT StalenessLimit    \* how old data may be, unless its command is slow

ASSUME StalenessAssumption == StalenessLimit \in Nat

\* resolveInterval: the poll interval is a floor to the interval of every module.
ASSUME IntervalAssumption == \A c \in Commands : PollInterval <= Interval[c]

Larger(a, b) == IF a > b THEN a ELSE b

\* Not the code: every command is held to the one limit.
StalenessLimitFor(c) == StalenessLimit

\* The limit of one command: three of its intervals, if that is more.
LimitFor(c) == Larger(StalenessLimit, 3 * Interval[c])

\* Not the code: the scrape is bounded by the limit of show version.
WithinVersionLimit(age) == age <= LimitFor(Version)

\* The bound on the scrape as a whole is the most lenient of the commands': an
\* age is within it when it is within any of them.
WithinScrapeLimit(age) == age <= StalenessLimit \/ \E c \in Commands : age <= 3 * Interval[c]

Age(stamp) == clock - stamp

Collected == LastSuccess # Never

Fresh(c) == CommandLastSuccess[c] # Never /\ Age(CommandLastSuccess[c]) <= LimitFor(c)

\* The commands whose readings a full scrape renders.
Published ==
  IF Collected /\ WithinScrapeLimit(Age(LastSuccess)) THEN { c \in Commands : Fresh(c) } ELSE {}

\* arista_scrape_success.
ScrapeSuccess == Collected /\ ScrapeErr = NoError

\* arista_command_success of c, once there is a map of errors to read; before,
\* there is no such series.
Reported == Collected \/ ScrapeErr # NoError
CommandSuccess(c) == CommandErrors[c] = NoError

-----------------------------------------------------------------------------
(* Correctness                                                             *)

\* The gate on the whole scrape never hides a reading that the gate of its own
\* command lets through.
ScrapeGateHidesNothingFresh ==
  \A c \in Commands : Fresh(c) => c \in Published

\* No reading is served once the switch produced it longer ago than the limit
\* of its command, counted in real age and not in what its stamp claims.
ServedWithinLimit ==
  \A c \in Published : Age(data[c]) <= LimitFor(c)

\* Polls are quicker than the poll interval, even with every command retried.
PromptPolls == MaxPoll <= PollInterval

\* Between its polls no healthy command disappears: one that was answered well
\* when last asked is served as long as the poller runs.
HealthyCommandsStayPublished ==
  PromptPolls /\ ~cancelled =>
    \A c \in Commands : CommandLastSuccess[c] # Never /\ c \notin failing => c \in Published

\* While arista_scrape_success is 1 there is something to scrape.
SuccessHasReadings ==
  PromptPolls /\ ~cancelled /\ ScrapeSuccess => Published # {}

\* A failed command is reported with 0 for as long as its last answer stands,
\* also at the ticks where it is not asked.
EveryFailureIsReported ==
  pc = "waiting" => \A c \in failing : Reported /\ ~CommandSuccess(c)

-----------------------------------------------------------------------------
(* The inductive invariant behind the two about prompt polls               *)

\* Every tick is handled as it comes, and over by the next; no deadline is missed by
\* more than the interval.
OnTime ==
  /\ pc = "waiting" => clock <= nextTick
  /\ InFlight => /\ LatestEnd <= now + PollInterval
                 /\ nextTick # Never => nextTick = now + PollInterval
  /\ nextTick # Never => /\ nextTick <= now + 2 * PollInterval
                         /\ \A c \in Commands : nextTick <= nextDue[c] + PollInterval
  /\ Started /\ nextTick = Never => \A c \in Commands : nextDue[c] = now + Interval[c]

Healthy(c) == CommandLastSuccess[c] # Never /\ c \notin failing

\* A healthy command's deadline is reckoned from the tick that stamped it, and the
\* tick that asks it again is not more than the poll interval after that deadline.
Renewed ==
  /\ \A c \in Commands : Healthy(c) =>
       IF c \in specs THEN now <= CommandLastSuccess[c] + Interval[c] + PollInterval
                      ELSE nextDue[c] <= CommandLastSuccess[c] + Interval[c]
  /\ InFlight /\ ScrapeSuccess => now <= LastSuccess + 2 * PollInterval

PromptInv ==
  /\ IInv
  /\ pc = "stopped" => cancelled
  /\ PromptPolls => OnTime /\ Renewed
=============================================================================
