-------------------------- MODULE PublicationProofs --------------------------
(***************************************************************************)
(* What a scrape renders, for every set of commands, intervals and limits. *)
(***************************************************************************)
EXTENDS Publication, PollerProofs

USE CommandsAssumption, TimesAssumption, StalenessAssumption DEF Never

\* Stamps are in the past, and none is newer than LastSuccess.
LEMMA StampsInOrder ==
  ASSUME IInv, NEW c \in Commands
  PROVE  /\ clock \in Nat /\ data[c] \in Nat
         /\ CommandLastSuccess[c] \in Nat /\ LastSuccess \in Nat /\ Interval[c] \in Nat
         /\ CommandLastSuccess[c] <= LastSuccess /\ LastSuccess <= clock
         /\ CommandLastSuccess[c] <= data[c]
  <1>0. LoopType /\ RecordType /\ LoopInv /\ StampInv
    BY DEF IInv, TypeOK
  <1>1. /\ clock \in Nat /\ data[c] \in Nat /\ now \in Nat
        /\ CommandLastSuccess[c] \in Nat /\ LastSuccess \in Nat /\ Interval[c] \in Nat
    BY <1>0 DEF LoopType, RecordType
  <1>2. CommandLastSuccess[c] <= LastSuccess /\ CommandLastSuccess[c] <= data[c]
    BY <1>0 DEF StampInv, LastSuccessIsNewest, AgeNeverUnderstated
  <1>3. LastSuccess <= now /\ now <= clock
    BY <1>0, <1>1 DEF StampInv, LoopInv, Started
  <1>4. QED
    BY <1>1, <1>2, <1>3

\* The limit of a command is one the scrape as a whole is allowed.
LEMMA LimitWithinScrapeLimit ==
  ASSUME NEW c \in Commands, NEW age \in Int, age <= LimitFor(c)
  PROVE  WithinScrapeLimit(age)
  BY DEF WithinScrapeLimit, LimitFor, Larger

\* What the command's own gate lets through, the scrape's does.
LEMMA FreshIsPublished ==
  ASSUME IInv, NEW c \in Commands, Fresh(c)
  PROVE  c \in Published
  <1>1. LimitFor(c) \in Int
    BY StampsInOrder DEF LimitFor, Larger
  <1>2. Age(LastSuccess) \in Int /\ Age(LastSuccess) <= LimitFor(c) /\ Collected
    BY <1>1, StampsInOrder DEF Fresh, Age, Collected
  <1>3. WithinScrapeLimit(Age(LastSuccess))
    BY <1>2, LimitWithinScrapeLimit
  <1>4. QED
    BY <1>2, <1>3 DEF Published

\* The gate on the whole scrape costs no series that the command's own gate
\* would serve: scrapeLimit is generous enough for every command.
THEOREM ScrapeGateIsHarmless == Spec => []ScrapeGateHidesNothingFresh
  <1>1. IInv => ScrapeGateHidesNothingFresh
    BY FreshIsPublished DEF ScrapeGateHidesNothingFresh
  <1>2. QED
    BY <1>1, Invariance, PTL

\* No reading is served longer than its command's limit after the switch
\* produced it: limitFor judges the stamp, and the stamp is never the younger.
THEOREM NothingStaleIsServed == Spec => []ServedWithinLimit
  <1>1. ASSUME IInv, NEW c \in Published PROVE Age(data[c]) <= LimitFor(c)
    <2>1. c \in Commands /\ Fresh(c)
      BY <1>1 DEF Published
    <2>2. QED
      BY <1>1, <2>1, StampsInOrder DEF Fresh, Age, LimitFor, Larger
  <1>2. IInv => ServedWithinLimit
    BY <1>1 DEF ServedWithinLimit
  <1>3. QED
    BY <1>2, Invariance, PTL

-----------------------------------------------------------------------------
(* Prompt polls                                                            *)

\* Where the types of the times are what is asked.
LEMMA TimesType ==
  ASSUME IInv
  PROVE  /\ clock \in Nat /\ now \in Nat /\ nextTick \in Nat /\ LastSuccess \in Nat
         /\ MaxPoll \in Nat
         /\ \A c \in Commands : /\ nextDue[c] \in Nat /\ CommandLastSuccess[c] \in Nat
                                /\ Interval[c] \in Nat /\ PollInterval <= Interval[c]
         /\ Started => \A c \in Commands : now < nextDue[c] /\ nextDue[c] <= now + Interval[c]
  BY TimeOfRequests, IntervalAssumption
     DEF IInv, TypeOK, LoopType, RecordType, LoopInv, DeadlineIsNextInPhase, Started

\* The tick of a prompt poller is handled as it fires.
LEMMA PromptTick ==
  ASSUME IInv, Tick, clock <= nextTick
  PROVE  clock = nextTick /\ nextTick' = clock + PollInterval
  <1>1. clock = nextTick /\ clock \in Nat
    BY TimesType DEF Tick
  <1>2. (clock - clock) \div PollInterval = 0
    BY <1>1
  <1>3. QED
    BY <1>1, <1>2 DEF Tick, TickerNext

\* OnTime is about the loop alone: its clock, its ticker and its deadlines.
LEMMA BeginsOnTime ==
  ASSUME IInv, OnTime, PromptPolls, NEW t \in Nat \ {0}, Begins(t)
  PROVE  OnTime'
  <1>1. /\ LatestEnd' \in Nat /\ LatestEnd' <= clock + MaxPoll /\ clock' = clock
        /\ pc' = "batch" /\ now' = t
    BY BeginsLatestEnd, BeginsWithVersion DEF Begins, StartPoll
  <1>2. \A c \in Commands : nextDue'[c] \in Nat /\ t < nextDue'[c]
    BY BeginsDeadlines, LoopTypeStep DEF LoopType, Begins, Next
  <1>3. CASE FirstPoll /\ ~Started
    <2>1. t = clock /\ nextTick' = Never
      BY <1>1, <1>3 DEF FirstPoll, StartPoll, IInv, LoopInv
    <2>2. \A c \in Commands : nextDue'[c] = t + Interval[c]
      BY <1>3 DEF Begins, StartPoll, Due, IsDue, NextDeadline, IInv, LoopInv
    <2>3. QED
      BY <1>1, <2>1, <2>2, TimesType DEF OnTime, PromptPolls
  <1>4. CASE Tick /\ Started
    <2>1. clock = nextTick /\ nextTick' = clock + PollInterval /\ t = nextTick
      <3>1. clock <= nextTick
        BY <1>4 DEF Tick, OnTime
      <3>2. t = nextTick
        BY <1>1, <1>4 DEF Tick, StartPoll
      <3>3. QED
        BY <1>4, <3>1, <3>2, PromptTick
    <2>2. QED
      BY <1>1, <1>2, <2>1, TimesType DEF OnTime, PromptPolls
  <1>5. QED
    BY <1>3, <1>4 DEF Begins

LEMMA EndPollOnTime ==
  ASSUME IInv, OnTime, InFlight, EndPoll, clock' = clock
  PROVE  OnTime'
  <1>1. clock <= LatestEnd /\ LatestEnd \in Nat /\ LatestEnd <= now + PollInterval
    BY LatestEndHolds, TimesType DEF LatestEnd, OnTime
  <1>2. Started
    BY DEF IInv, LoopInv
  <1>3. /\ pc' = "waiting" /\ now' = now /\ nextDue' = nextDue
        /\ nextTick' = IF nextTick = Never THEN clock + PollInterval ELSE nextTick
    BY DEF EndPoll
  <1>4. CASE nextTick = Never
    <2>1. \A c \in Commands : nextDue[c] = now + Interval[c]
      BY <1>2, <1>4 DEF OnTime
    <2>2. nextTick' = clock + PollInterval /\ clock <= now + PollInterval
      BY <1>1, <1>3, <1>4, TimesType
    <2>3. \A c \in Commands : nextTick' <= nextDue'[c] + PollInterval
      BY <1>3, <2>1, <2>2, TimesType
    <2>4. QED
      BY <1>3, <2>2, <2>3, TimesType DEF OnTime, InFlight
  <1>5. CASE nextTick # Never
    <2>1. nextTick = now + PollInterval
      BY <1>5 DEF OnTime
    <2>2. \A c \in Commands : nextTick <= nextDue[c] + PollInterval
      BY <1>5 DEF OnTime
    <2>3. QED
      BY <1>1, <1>3, <1>5, <2>1, <2>2, TimesType DEF OnTime, InFlight
  <1>6. QED
    BY <1>4, <1>5

\* What a poll does between its start and its end puts its latest end no later.
LEMMA SoonerOnTime ==
  ASSUME IInv, OnTime, InFlight, LatestEnd \in Nat, LatestEnd' \in Nat, LatestEnd' <= LatestEnd,
         UNCHANGED loopVars, pc' # "waiting"
  PROVE  OnTime'
  <1>1. /\ LatestEnd <= now + PollInterval
        /\ nextTick # Never => nextTick = now + PollInterval
    BY DEF OnTime
  <1>2. now' = now /\ nextTick' = nextTick /\ nextDue' = nextDue
    BY DEF loopVars
  <1>3. LatestEnd' <= now' + PollInterval
    BY <1>1, <1>2, TimesType
  <1>4. QED
    BY <1>1, <1>2, <1>3 DEF OnTime, Started

LEMMA OnTimeStep ==
  ASSUME IInv, OnTime, PromptPolls, [Next]_vars
  PROVE  OnTime'
  <1>1. ASSUME NEW t \in Nat \ {0}, Begins(t) PROVE OnTime'
    BY <1>1, BeginsOnTime
  <1>2. CASE BatchLost \/ RecordFailure \/ RecordSuccess
    BY <1>2, EndPollOnTime DEF BatchLost, RecordFailure, RecordSuccess, InFlight
  <1>3. CASE InFlight /\ InFlight' /\ ~\E t \in Nat \ {0} : Begins(t)
    <2>1. UNCHANGED loopVars
      BY <1>3, Steps
         DEF AskAgain, BatchAnswered, BatchRefused, Retry, MarkAttempt, TimePasses, Cancel, vars,
             Stop, BatchLost, RecordFailure, RecordSuccess, EndPoll, InFlight
    <2>2. QED
      BY <1>3, <2>1, PollGoesOn, SoonerOnTime DEF InFlight
  <1>4. CASE TimePasses /\ ~InFlight
    <2>1. clock' = clock + 1 /\ Idle /\ UNCHANGED <<pc, now, nextTick, nextDue>>
      BY <1>4 DEF TimePasses, loopVars
    <2>2. pc = "waiting" => clock' <= nextTick
      BY <2>1, TimesType DEF Idle
    <2>3. QED
      BY <1>4, <2>1, <2>2 DEF OnTime, InFlight, Started
  <1>5. CASE Stop
    BY <1>5 DEF Stop, loopVars, OnTime, InFlight, Started
  <1>6. CASE (Cancel \/ UNCHANGED vars) /\ ~InFlight
    <2>1. UNCHANGED <<clock, pc, now, nextTick, nextDue>>
      BY <1>6 DEF Cancel, vars, loopVars
    <2>2. QED
      BY <1>6, <2>1 DEF OnTime, InFlight, Started
  <1>7. QED
    BY <1>1, <1>2, <1>3, <1>4, <1>5, <1>6, Steps
       DEF AskAgain, BatchAnswered, BatchRefused, Retry, MarkAttempt, TimePasses, Cancel, vars,
           InFlight

-----------------------------------------------------------------------------
\* A tick asks what is due, and finds it no more than the poll interval overdue.
LEMMA BeginsRenewed ==
  ASSUME IInv, OnTime, Renewed, NEW t \in Nat \ {0}, Begins(t)
  PROVE  Renewed'
  <1>0. /\ UNCHANGED <<CommandLastSuccess, failing, LastSuccess, ScrapeErr>> /\ now' = t
        /\ specs' = Due(t)
    BY DEF Begins, StartPoll, published
  <1>1. CASE FirstPoll /\ ~Started
    <2>1. LastSuccess = Never
      BY <1>1 DEF IInv, LoopInv
    <2>2. \A c \in Commands : CommandLastSuccess[c] = Never
      BY <2>1, StampsInOrder
    <2>3. QED
      BY <1>0, <2>1, <2>2 DEF Renewed, Healthy, ScrapeSuccess, Collected
  <1>2. CASE Tick /\ Started
    <2>1. pc = "waiting" /\ t = nextTick /\ specs = {} /\ nextTick # Never
      BY <1>0, <1>2 DEF Tick, StartPoll, IInv, PollInv, LoopInv, InFlight
    <2>2. ASSUME NEW c \in Commands, Healthy(c)
          PROVE  IF c \in specs' THEN t <= CommandLastSuccess[c] + Interval[c] + PollInterval
                                 ELSE nextDue'[c] <= CommandLastSuccess[c] + Interval[c]
      <3>1. nextDue[c] <= CommandLastSuccess[c] + Interval[c]
        BY <2>1, <2>2 DEF Renewed
      <3>2. CASE c \in Due(t)
        <4>1. nextTick <= nextDue[c] + PollInterval
          BY <2>1 DEF OnTime
        <4>2. QED
          BY <1>0, <2>1, <3>1, <3>2, <4>1, TimesType
      <3>3. CASE c \notin Due(t)
        <4>1. nextDue'[c] = nextDue[c]
          BY <3>3 DEF Begins, StartPoll
        <4>2. QED
          BY <1>0, <3>1, <3>3, <4>1
      <3>4. QED
        BY <3>2, <3>3
    <2>3. ScrapeSuccess => t <= LastSuccess + 2 * PollInterval
      <3>1. ScrapeSuccess => LastSuccess = now
        BY <2>1 DEF ScrapeSuccess, IInv, ScrapeErrTellsLastPoll
      <3>2. nextTick <= now + 2 * PollInterval
        BY <2>1 DEF OnTime
      <3>3. QED
        BY <2>1, <3>1, <3>2
    <2>4. QED
      BY <1>0, <2>2, <2>3 DEF Renewed, Healthy, ScrapeSuccess, Collected
  <1>3. QED
    BY <1>1, <1>2 DEF Begins

\* What failed is not healthy, and what was not asked is as healthy as before.
LEMMA FailureRenewed ==
  ASSUME IInv, Renewed, NEW reason, SetError(reason), EndPoll
  PROVE  Renewed'
  <1>1. /\ CommandLastSuccess' = CommandLastSuccess /\ failing' = failing \cup specs
        /\ nextDue' = nextDue /\ specs' = {} /\ ~InFlight'
    BY DEF SetError, EndPoll, InFlight
  <1>2. \A c \in Commands : Healthy(c)' => Healthy(c) /\ c \notin specs
    BY <1>1 DEF Healthy
  <1>3. QED
    BY <1>1, <1>2 DEF Renewed

\* What landed is stamped with the tick its deadline is reckoned from.
LEMMA SuccessRenewed ==
  ASSUME IInv, Renewed, RecordSuccess
  PROVE  Renewed'
  <1>1. /\ CommandLastSuccess' = [c \in Commands |-> IF c \in Landed THEN now ELSE CommandLastSuccess[c]]
        /\ failing' = (failing \ specs) \cup (specs \ Landed)
        /\ nextDue' = nextDue /\ specs' = {} /\ ~InFlight'
    BY DEF RecordSuccess, EndPoll, InFlight, Stamp
  <1>2. Started
    BY DEF RecordSuccess, IInv, LoopInv, InFlight
  <1>3. ASSUME NEW c \in Commands, Healthy(c)'
        PROVE  nextDue[c] <= CommandLastSuccess'[c] + Interval[c]
    <2>1. CASE c \in Landed
      BY <1>1, <1>2, <2>1, TimesType
    <2>2. CASE c \notin Landed
      <3>1. Healthy(c) /\ c \notin specs
        BY <1>1, <1>3, <2>2 DEF Healthy
      <3>2. QED
        BY <1>1, <2>2, <3>1 DEF Renewed
    <2>3. QED
      BY <2>1, <2>2
  <1>4. QED
    BY <1>1, <1>3 DEF Renewed

LEMMA RenewedStep ==
  ASSUME IInv, OnTime, Renewed, [Next]_vars
  PROVE  Renewed'
  <1>1. ASSUME NEW t \in Nat \ {0}, Begins(t) PROVE Renewed'
    BY <1>1, BeginsRenewed
  <1>2. CASE BatchLost \/ RecordFailure
    BY <1>2, FailureRenewed DEF BatchLost, RecordFailure
  <1>3. CASE RecordSuccess
    BY <1>3, SuccessRenewed
  <1>4. CASE AskAgain \/ BatchAnswered \/ BatchRefused \/ Retry \/ MarkAttempt
    <2>1. /\ UNCHANGED <<CommandLastSuccess, failing, LastSuccess, ScrapeErr, now, nextDue, specs>>
          /\ InFlight
      BY <1>4 DEF AskAgain, BatchAnswered, BatchRefused, Retry, MarkAttempt, published,
                  loopVars, pollVars, InFlight
    <2>2. QED
      BY <2>1 DEF Renewed, Healthy, ScrapeSuccess, Collected
  <1>5. CASE Stop \/ Cancel \/ TimePasses \/ UNCHANGED vars
    <2>1. /\ UNCHANGED <<CommandLastSuccess, failing, LastSuccess, ScrapeErr, now, nextDue, specs>>
          /\ InFlight' => InFlight
      BY <1>5 DEF Stop, Cancel, TimePasses, vars, published, loopVars, pollVars, InFlight
    <2>2. QED
      BY <2>1 DEF Renewed, Healthy, ScrapeSuccess, Collected
  <1>6. QED
    BY <1>1, <1>2, <1>3, <1>4, <1>5, Steps

LEMMA InitPrompt == Init => OnTime /\ Renewed /\ pc # "stopped"
  <1> SUFFICES ASSUME Init PROVE OnTime /\ Renewed /\ pc # "stopped"
    OBVIOUS
  <1>1. OnTime
    BY DEF Init, OnTime, InFlight, Started
  <1>2. Renewed
    BY DEF Init, Renewed, Healthy, InFlight
  <1>3. QED
    BY <1>1, <1>2 DEF Init

LEMMA StoppedStep ==
  ASSUME IInv, pc = "stopped" => cancelled, [Next]_vars
  PROVE  pc' = "stopped" => cancelled'
  <1>1. ASSUME NEW t \in Nat \ {0}, Begins(t) PROVE pc' # "stopped"
    BY <1>1, BeginsWithVersion
  <1>2. CASE Stop
    BY <1>2 DEF Stop
  <1>3. CASE AskAgain \/ BatchAnswered \/ BatchRefused \/ BatchLost \/ Retry \/ MarkAttempt
             \/ RecordFailure \/ RecordSuccess
    BY <1>3 DEF AskAgain, BatchAnswered, BatchRefused, BatchLost, Retry, MarkAttempt, RecordFailure,
                RecordSuccess, EndPoll
  <1>4. CASE Cancel \/ TimePasses \/ UNCHANGED vars
    BY <1>4 DEF Cancel, TimePasses, vars
  <1>5. QED
    BY <1>1, <1>2, <1>3, <1>4, Steps

\* A poller whose polls are shorter than its interval is never late.
THEOREM Promptness == Spec => []PromptInv
  <1>1. Init => PromptInv
    BY InitIInv, InitPrompt DEF PromptInv
  <1>2. PromptInv /\ IInv' /\ [Next]_vars => PromptInv'
    <2>1. SUFFICES ASSUME PromptInv, IInv', [Next]_vars
                   PROVE  PromptInv'
      OBVIOUS
    <2>2. (pc = "stopped" => cancelled)'
      BY <2>1, StoppedStep DEF PromptInv
    <2>3. PromptPolls' <=> PromptPolls
      BY DEF PromptPolls, MaxPoll, RunTime
    <2>4. ASSUME PromptPolls PROVE OnTime' /\ Renewed'
      BY <2>1, <2>4, OnTimeStep, RenewedStep DEF PromptInv
    <2>5. QED
      BY <2>1, <2>2, <2>3, <2>4 DEF PromptInv
  <1>3. QED
    BY <1>1, <1>2, Invariance, PTL DEF Spec

\* Until it is stopped, a command that some poll stamped and none found failing since
\* is served, whatever becomes of the other commands and of the polls without it.
THEOREM HealthyAreServed == Spec => []HealthyCommandsStayPublished
  <1>1. ASSUME PromptInv, PromptPolls, ~cancelled, NEW c \in Commands,
               CommandLastSuccess[c] # Never, c \notin failing
        PROVE  c \in Published
    <2>0. IInv /\ OnTime /\ Renewed /\ Healthy(c) /\ pc # "stopped"
      BY <1>1 DEF PromptInv, Healthy
    <2> DEFINE stamp == CommandLastSuccess[c]
    <2>1. /\ clock \in Nat /\ now \in Nat /\ nextTick \in Nat /\ stamp \in Nat /\ nextDue[c] \in Nat
          /\ Interval[c] \in Nat /\ PollInterval <= Interval[c]
      BY <2>0, TimesType
    <2>2. Started
      <3>1. ~Started => stamp = Never
        BY <2>0, StampsInOrder DEF IInv, LoopInv
      <3>2. QED
        BY <1>1, <3>1
    <2>3. clock <= stamp + 3 * Interval[c]
      <3>1. CASE pc = "waiting"
        <4>1. c \notin specs /\ clock <= nextTick /\ nextTick <= nextDue[c] + PollInterval
          BY <2>0, <3>1 DEF IInv, PollInv, LoopInv, InFlight, OnTime
        <4>2. nextDue[c] <= stamp + Interval[c]
          BY <2>0, <4>1 DEF Renewed
        <4> HIDE DEF stamp
        <4>3. QED
          BY <2>1, <4>1, <4>2
      <3>2. CASE InFlight
        <4>1. clock <= LatestEnd /\ LatestEnd \in Nat /\ LatestEnd <= now + PollInterval
          BY <2>0, <2>1, <3>2, LatestEndHolds DEF LatestEnd, OnTime
        <4>2. now <= stamp + Interval[c] + PollInterval
          <5>1. CASE c \in specs
            BY <2>0, <5>1 DEF Renewed
          <5>2. CASE c \notin specs
            <6>1. nextDue[c] <= stamp + Interval[c] /\ now < nextDue[c]
              BY <2>0, <2>2, <5>2, TimesType DEF Renewed
            <6> HIDE DEF stamp
            <6>2. QED
              BY <2>1, <6>1
          <5>3. QED
            BY <5>1, <5>2
        <4> HIDE DEF stamp
        <4>3. QED
          BY <2>1, <4>1, <4>2
      <3>3. QED
        BY <2>0, <2>2, <3>1, <3>2 DEF IInv, TypeOK, LoopType, LoopInv, InFlight
    <2>4. Fresh(c)
      <3>1. Age(stamp) <= LimitFor(c)
        BY <2>1, <2>3 DEF Age, LimitFor, Larger
      <3>2. QED
        BY <1>1, <3>1 DEF Fresh
    <2>5. QED
      BY <2>0, <2>4, FreshIsPublished
  <1>2. PromptInv => HealthyCommandsStayPublished
    BY <1>1 DEF HealthyCommandsStayPublished
  <1>3. QED
    BY <1>2, Promptness, PTL

\* A scrape that says it is a success is not empty: the newest reading is young enough
\* for the gate of its own command and for that of the scrape.
THEOREM SuccessIsNotEmpty == Spec => []SuccessHasReadings
  <1>1. ASSUME PromptInv, PromptPolls, ~cancelled, ScrapeSuccess
        PROVE  Published # {}
    <2>0. IInv /\ OnTime /\ Renewed /\ pc # "stopped" /\ LastSuccess # Never
      BY <1>1 DEF PromptInv, ScrapeSuccess, Collected
    <2>1. PICK c \in Commands : CommandLastSuccess[c] = LastSuccess
      BY <2>0 DEF IInv, StampInv, LastSuccessIsNewest
    <2>2. /\ clock \in Nat /\ now \in Nat /\ nextTick \in Nat /\ LastSuccess \in Nat
          /\ Interval[c] \in Nat /\ PollInterval <= Interval[c]
      BY <2>0, TimesType
    <2>3. Started
      BY <2>0 DEF IInv, LoopInv
    <2>4. clock <= LastSuccess + 3 * PollInterval
      <3>1. CASE pc = "waiting"
        <4>1. LastSuccess = now
          BY <1>1, <2>0, <3>1 DEF ScrapeSuccess, IInv, ScrapeErrTellsLastPoll
        <4>2. clock <= nextTick /\ nextTick <= now + 2 * PollInterval
          BY <2>0, <3>1 DEF IInv, LoopInv, OnTime
        <4>3. QED
          BY <2>2, <4>1, <4>2
      <3>2. CASE InFlight
        <4>1. clock <= LatestEnd /\ LatestEnd \in Nat /\ LatestEnd <= now + PollInterval
          BY <2>0, <2>2, <3>2, LatestEndHolds DEF LatestEnd, OnTime
        <4>2. now <= LastSuccess + 2 * PollInterval
          BY <1>1, <2>0, <3>2 DEF Renewed
        <4>3. QED
          BY <2>2, <4>1, <4>2
      <3>3. QED
        BY <2>0, <2>3, <3>1, <3>2 DEF IInv, TypeOK, LoopType, LoopInv, InFlight
    <2>5. Fresh(c)
      BY <2>0, <2>1, <2>2, <2>4 DEF Fresh, Age, LimitFor, Larger
    <2>6. QED
      BY <2>0, <2>5, FreshIsPublished
  <1>2. PromptInv => SuccessHasReadings
    BY <1>1 DEF SuccessHasReadings
  <1>3. QED
    BY <1>2, Promptness, PTL
=============================================================================
