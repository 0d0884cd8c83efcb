---------------------------- MODULE PollerProofs ----------------------------
(***************************************************************************)
(* The poller's invariants for every set of commands, every interval and   *)
(* every behaviour of the switch, and that the poller implements the       *)
(* promise of SwitchStore.                                                 *)
(***************************************************************************)
EXTENDS Poller, SchedulingProofs, FiniteSetTheorems, WellFoundedInduction

USE CommandsAssumption, TimesAssumption, FaultsAssumption DEF Never

LEMMA NextDeadlineType ==
  ASSUME NEW interval \in Nat \ {0}, NEW previous \in Nat, NEW t \in Nat
  PROVE  NextDeadline(interval, previous, t) \in Nat
  BY DEF NextDeadline

LEMMA TimeoutType ==
  ASSUME LoopType
  PROVE  clock + Timeout \in Nat
  BY DEF LoopType

LEMMA InitIInv == Init => IInv
  <1> SUFFICES ASSUME Init PROVE IInv
    OBVIOUS
  <1> USE DEF Init, AllWell, NothingPending, Pending, InFlight, Started
  <1>1. TypeOK
    <2>1. cancelled \in BOOLEAN /\ again \in BOOLEAN
      BY Zenon
    <2>2. LoopType /\ PollType
      BY <2>1 DEF LoopType, PollType
    <2>3. RecordType
      BY DEF RecordType
    <2>4. LogType
      BY DEF LogType, R!Quiet, Messages
    <2>5. QED
      BY <2>1, <2>2, <2>3, <2>4 DEF TypeOK
  <1>2. LoopInv
    BY DEF LoopInv, DeadlineIsNextInPhase
  <1>3. PollInv
    BY DEF PollInv
  <1>4. StampInv
    BY DEF StampInv, AgeNeverUnderstated, LastSuccessIsNewest
  <1>5. ErrorsAreReal /\ ScrapeErrTellsLastPoll /\ BatchesStayAligned
    BY DEF ErrorsAreReal, ScrapeErrTellsLastPoll, BatchesStayAligned
  <1>6. LogInv
    BY DEF LogInv, R!Quiet, SilenceBounded
  <1>7. LateInv /\ BoundInv
    BY DEF LateInv, BoundInv
  <1>8. QED
    BY <1>1, <1>2, <1>3, <1>4, <1>5, <1>6, <1>7 DEF IInv

-----------------------------------------------------------------------------
(* Types                                                                   *)

\* The two actions that begin a poll, seen as one: at some tick t that is later
\* than the tick before and not later than the clock.
Begins(t) ==
  /\ StartPoll(t)
  /\ now < t /\ t <= clock /\ nextDue[Version] <= t
  /\ \/ FirstPoll /\ ~Started
     \/ Tick /\ Started

LEMMA PollBegins ==
  ASSUME IInv, FirstPoll \/ Tick
  PROVE  \E t \in Nat \ {0} : Begins(t)
  <1> USE DEF IInv, TypeOK, LoopType, LoopInv, Started
  <1>1. CASE FirstPoll
    BY <1>1 DEF FirstPoll, Begins
  <1>2. CASE Tick
    BY <1>2 DEF Tick, Begins
  <1>3. QED
    BY <1>1, <1>2

\* The steps of a behaviour, by what they do.
LEMMA Steps ==
  ASSUME IInv, [Next]_vars
  PROVE  \/ \E t \in Nat \ {0} : Begins(t)
         \/ Stop
         \/ BatchAnswered
         \/ BatchRefused
         \/ BatchLost
         \/ Retry
         \/ MarkAttempt
         \/ RecordFailure
         \/ RecordSuccess
         \/ AskAgain \/ Cancel \/ TimePasses \/ UNCHANGED vars
  BY PollBegins DEF Next, Answer, Record

LEMMA LoopTypeStep == IInv /\ [Next]_vars => LoopType'
  <1> SUFFICES ASSUME IInv, [Next]_vars PROVE LoopType'
    OBVIOUS
  <1> USE DEF LoopType, loopVars
  <1>0. LoopType
    BY DEF IInv, TypeOK
  <1>1. ASSUME NEW t \in Nat \ {0}, Begins(t) PROVE LoopType'
    <2>1. nextDue' \in [Commands -> Nat]
      BY <1>0, <1>1, NextDeadlineType DEF Begins, StartPoll
    <2>2. nextTick' \in Nat /\ firstPoll' \in Nat
      BY <1>0, <1>1 DEF Begins, FirstPoll, Tick, TickerNext
    <2>3. QED
      BY <1>0, <1>1, <2>1, <2>2 DEF Begins, StartPoll
  <1>2. CASE Stop
    BY <1>0, <1>2 DEF Stop
  <1>3. CASE BatchAnswered
    BY <1>0, <1>3 DEF BatchAnswered
  <1>4. CASE BatchRefused
    BY <1>0, <1>4 DEF BatchRefused
  <1>5. CASE BatchLost
    BY <1>0, <1>5 DEF BatchLost, EndPoll
  <1>6. CASE Retry
    BY <1>0, <1>6 DEF Retry
  <1>7. CASE MarkAttempt
    BY <1>0, <1>7 DEF MarkAttempt
  <1>8. CASE RecordFailure
    BY <1>0, <1>8 DEF RecordFailure, EndPoll
  <1>9. CASE RecordSuccess
    BY <1>0, <1>9 DEF RecordSuccess, EndPoll
  <1>10. CASE AskAgain \/ Cancel \/ TimePasses \/ UNCHANGED vars
    BY <1>0, <1>10 DEF AskAgain, Cancel, TimePasses, vars
  <1>11. QED
    BY <1>1, <1>2, <1>3, <1>4, <1>5, <1>6, <1>7, <1>8, <1>9, <1>10, Steps

LEMMA PollTypeStep == IInv /\ [Next]_vars => PollType'
  <1> SUFFICES ASSUME IInv, [Next]_vars PROVE PollType'
    OBVIOUS
  <1> USE DEF PollType, pollVars, Errors, NoError, Pending
  <1>0. PollType /\ LoopType /\ PollInv
    BY DEF IInv, TypeOK
  <1>1. ASSUME NEW t \in Nat \ {0}, Begins(t) PROVE PollType'
    <2>1. specs = {}
      BY <1>0, <1>1 DEF Begins, FirstPoll, Tick, PollInv, InFlight
    <2>2. left' = {} /\ specs' \in SUBSET Commands
      BY <1>0, <1>1, <2>1 DEF Begins, StartPoll, Due
    <2>3. deadline' \in Nat /\ again' = FALSE /\ began' \in Nat
      BY <1>0, <1>1, TimeoutType DEF Begins, StartPoll, Run, LoopType
    <2>4. err' = err /\ result' = result /\ readAt' = readAt
      BY <1>1 DEF Begins, StartPoll
    <2>5. QED
      BY <1>0, <2>2, <2>3, <2>4
  <1>2. CASE Stop
    BY <1>0, <1>2 DEF Stop
  <1>3. CASE BatchAnswered
    BY <1>0, <1>3 DEF BatchAnswered, LoopType
  <1>4. CASE BatchRefused
    <2>1. deadline' \in Nat /\ again' = FALSE
      BY <1>0, <1>4, TimeoutType DEF BatchRefused, Run
    <2>2. /\ specs' = specs /\ left' = specs /\ err' = "refused"
          /\ result' = result /\ readAt' = readAt /\ began' = began
      BY <1>4 DEF BatchRefused
    <2>3. QED
      BY <1>0, <2>1, <2>2
  <1>5. CASE BatchLost
    BY <1>0, <1>5 DEF BatchLost, EndPoll, NothingPending
  <1>6. CASE Retry
    <2>1. deadline' \in Nat /\ again' = FALSE
      BY <1>0, <1>6, TimeoutType DEF Retry, Run
    <2>2. specs' = specs /\ err' = err /\ began' = began /\ left' \in SUBSET specs
      BY <1>0, <1>6 DEF Retry
    <2>3. result' \in [Commands -> Errors \cup {NoError, Pending}]
      BY <1>0, <1>6 DEF Retry
    <2>4. readAt' \in [Commands -> Nat]
      BY <1>0, <1>6 DEF Retry, LoopType
    <2>5. QED
      BY <1>0, <2>1, <2>2, <2>3, <2>4
  <1>7. CASE MarkAttempt
    BY <1>0, <1>7 DEF MarkAttempt
  <1>8. CASE RecordFailure
    BY <1>0, <1>8 DEF RecordFailure, EndPoll, NothingPending
  <1>9. CASE RecordSuccess
    BY <1>0, <1>9 DEF RecordSuccess, EndPoll, NothingPending
  <1>10. CASE Cancel \/ TimePasses \/ UNCHANGED vars
    BY <1>0, <1>10 DEF Cancel, TimePasses, vars
  <1>11. CASE AskAgain
    <2>1. deadline' \in Nat /\ again' = TRUE
      BY <1>0, <1>11, TimeoutType DEF AskAgain
    <2>2. UNCHANGED <<specs, err, left, result, readAt, began>>
      BY <1>11 DEF AskAgain
    <2>3. QED
      BY <1>0, <2>1, <2>2
  <1>12. QED
    BY <1>1, <1>2, <1>3, <1>4, <1>5, <1>6, <1>7, <1>8, <1>9, <1>10, <1>11, Steps

LEMMA RecordTypeStep == IInv /\ [Next]_vars => RecordType'
  <1> SUFFICES ASSUME IInv, [Next]_vars PROVE RecordType'
    OBVIOUS
  <1> USE DEF RecordType, published, Errors, NoError, Pending
  <1>0. RecordType /\ LoopType /\ PollType /\ PollInv
    BY DEF IInv, TypeOK
  <1>1. ASSUME NEW t \in Nat \ {0}, Begins(t) PROVE RecordType'
    BY <1>0, <1>1 DEF Begins, StartPoll
  <1>2. CASE Stop
    BY <1>0, <1>2 DEF Stop
  <1>3. CASE BatchAnswered
    BY <1>0, <1>3 DEF BatchAnswered
  <1>4. CASE BatchRefused
    BY <1>0, <1>4 DEF BatchRefused
  <1>5. CASE BatchLost
    BY <1>0, <1>5 DEF BatchLost, SetError, PollType
  <1>6. CASE Retry
    BY <1>0, <1>6 DEF Retry
  <1>7. CASE MarkAttempt
    BY <1>0, <1>7 DEF MarkAttempt, LoopType
  <1>8. CASE RecordFailure
    BY <1>0, <1>8 DEF RecordFailure, SetError, PollType
  <1>9. CASE RecordSuccess
    <2>1. data' \in [Commands -> Nat] /\ CommandLastSuccess' \in [Commands -> Nat]
      BY <1>0, <1>9 DEF RecordSuccess, Stamp, LoopType, PollType
    <2>2. CommandErrors' \in [Commands -> Errors \cup {NoError}]
      BY <1>0, <1>9 DEF RecordSuccess, MergedErrors, PollType, PollInv
    <2>3. failing' \in SUBSET Commands /\ LastSuccess' \in Nat
      BY <1>0, <1>9 DEF RecordSuccess, Landed, Stamp, LoopType, PollType
    <2>4. QED
      BY <1>0, <1>9, <2>1, <2>2, <2>3 DEF RecordSuccess
  <1>10. CASE AskAgain \/ Cancel \/ TimePasses \/ UNCHANGED vars
    BY <1>0, <1>10 DEF AskAgain, Cancel, TimePasses, vars
  <1>11. QED
    BY <1>1, <1>2, <1>3, <1>4, <1>5, <1>6, <1>7, <1>8, <1>9, <1>10, Steps

\* What the tracker makes of a well-formed message.
LEMMA ObserveType ==
  ASSUME LogType, NEW msg \in Messages, Observe(msg)
  PROVE  LogType'
  <1>1. tracker' \in [last : Messages, count : Nat, sinceLastReport : Nat]
    <2>1. CASE msg # tracker.last
      BY <2>1 DEF LogType, Observe, R!Observe
    <2>2. CASE msg = tracker.last
      <3> DEFINE n == tracker.sinceLastReport + 1
                 m == IF n < SummaryEvery THEN n ELSE 0
      <3>1. tracker' = [tracker EXCEPT !.count = @ + 1, !.sinceLastReport = m]
        BY <2>2 DEF Observe, R!Observe
      <3>2. m \in Nat
        BY DEF LogType
      <3> HIDE DEF m
      <3>3. tracker \in [last : Messages, count : Nat, sinceLastReport : Nat]
        BY DEF LogType
      <3>4. tracker.last \in Messages /\ tracker.count + 1 \in Nat
        BY <3>3
      <3>5. tracker' = [last |-> tracker.last, count |-> tracker.count + 1,
                        sinceLastReport |-> m]
        BY <3>1, <3>3
      <3>6. QED
        BY <3>2, <3>4, <3>5
    <2>3. QED
      BY <2>1, <2>2
  <1>2. silence' \in Nat
    BY DEF LogType, Observe
  <1>3. QED
    BY <1>1, <1>2 DEF LogType

LEMMA FailureMessage ==
  ASSUME NEW reason \in Errors
  PROVE  [cause |-> reason, asked |-> {}, errs |-> AllWell] \in Messages
  BY DEF Messages, AllWell

LEMMA LogTypeStep == IInv /\ [Next]_vars => LogType'
  <1> SUFFICES ASSUME IInv, [Next]_vars PROVE LogType'
    OBVIOUS
  <1> USE DEF logVars
  <1>0. LogType /\ PollType /\ PollInv
    BY DEF IInv, TypeOK
  <1>1. ASSUME NEW t \in Nat \ {0}, Begins(t) PROVE LogType'
    BY <1>0, <1>1 DEF Begins, StartPoll, LogType
  <1>2. CASE Stop
    BY <1>0, <1>2 DEF Stop, LogType
  <1>3. CASE BatchAnswered
    BY <1>0, <1>3 DEF BatchAnswered, LogType
  <1>4. CASE BatchRefused
    BY <1>0, <1>4 DEF BatchRefused, LogType
  <1>5. CASE BatchLost
    <2>1. "lost" \in Errors
      BY DEF Errors
    <2>2. QED
      BY <1>0, <1>5, <2>1, ObserveType, FailureMessage DEF BatchLost, SetError
  <1>6. CASE Retry
    BY <1>0, <1>6 DEF Retry, LogType
  <1>7. CASE MarkAttempt
    BY <1>0, <1>7 DEF MarkAttempt, LogType
  <1>8. CASE RecordFailure
    <2>1. (IF err = NoError THEN "unusable" ELSE err) \in Errors
      BY <1>0 DEF Errors, PollType
    <2>2. QED
      BY <1>0, <1>8, <2>1, ObserveType, FailureMessage DEF RecordFailure, SetError
  <1>9. CASE RecordSuccess
    <2> DEFINE errs == [c \in Commands |-> IF c \in specs THEN result[c] ELSE NoError]
               msg == [cause |-> NoError, asked |-> specs, errs |-> errs]
    <2>1. errs \in [Commands -> Errors \cup {NoError}]
      BY <1>0, <1>9 DEF RecordSuccess, PollType, PollInv
    <2>2. msg \in Messages
      BY <1>0, <2>1 DEF Messages, PollType
    <2>3. CASE Landed = specs
      BY <1>0, <1>9, <2>3 DEF RecordSuccess, LogType, R!Recovered, R!Quiet, Messages, AllWell
    <2>4. CASE Landed # specs
      <3>1. Observe(msg)
        BY <1>9, <2>4 DEF RecordSuccess
      <3> HIDE DEF msg
      <3>2. QED
        BY <1>0, <2>2, <3>1, ObserveType
    <2>5. QED
      BY <2>3, <2>4
  <1>10. CASE AskAgain \/ Cancel \/ TimePasses \/ UNCHANGED vars
    BY <1>0, <1>10 DEF AskAgain, Cancel, TimePasses, vars, LogType
  <1>11. QED
    BY <1>1, <1>2, <1>3, <1>4, <1>5, <1>6, <1>7, <1>8, <1>9, <1>10, Steps

LEMMA TypeStep == IInv /\ [Next]_vars => TypeOK'
  <1> SUFFICES ASSUME IInv, [Next]_vars PROVE TypeOK'
    OBVIOUS
  <1>1. cancelled' = cancelled \/ cancelled' = TRUE
    BY Steps DEF Begins, StartPoll, Stop, BatchAnswered, BatchRefused, BatchLost, Retry,
                 MarkAttempt, RecordFailure, RecordSuccess, AskAgain, Cancel, TimePasses, vars
  <1>2. cancelled' \in BOOLEAN
    BY <1>1, Zenon DEF IInv, TypeOK
  <1>3. QED
    BY <1>2, LoopTypeStep, PollTypeStep, RecordTypeStep, LogTypeStep DEF TypeOK

-----------------------------------------------------------------------------
(* The schedule                                                            *)

LEMMA TickerLater ==
  ASSUME clock \in Nat, NEW due \in Nat, due <= clock
  PROVE  TickerNext(due) \in Nat /\ due + PollInterval <= TickerNext(due)
  <1> DEFINE k == (clock - due) \div PollInterval
  <1>1. k \in Nat
    OBVIOUS
  <1> HIDE DEF k
  <1>2. PollInterval * (1 + k) \in Nat /\ PollInterval * (1 + k) = PollInterval + PollInterval * k
    BY <1>1
  <1>3. PollInterval * k \in Nat
    BY <1>1
  <1>4. TickerNext(due) = due + PollInterval * (1 + k)
    BY DEF TickerNext, k
  <1>5. QED
    BY <1>2, <1>3, <1>4

\* A poll always has show version to ask for.
LEMMA BeginsWithVersion ==
  ASSUME IInv, NEW t \in Nat \ {0}, Begins(t)
  PROVE  Version \in specs' /\ pc' = "batch"
  BY DEF Begins, StartPoll, Due, IsDue, IInv, TypeOK, LoopType

\* The deadlines a poll leaves behind.
LEMMA BeginsDeadlines ==
  ASSUME IInv, NEW t \in Nat \ {0}, Begins(t), NEW c \in Commands
  PROVE  /\ t < nextDue'[c] /\ nextDue'[c] <= t + Interval[c]
         /\ (nextDue'[c] - firstPoll') % Interval[c] = 0
  <1>0. LoopType /\ LoopInv
    BY DEF IInv, TypeOK
  <1>1. Interval[c] \in Nat \ {0} /\ nextDue[c] \in Nat
    BY <1>0 DEF LoopType
  <1>2. nextDue'[c] = IF IsDue(nextDue[c], t) THEN NextDeadline(Interval[c], nextDue[c], t)
                                             ELSE nextDue[c]
    BY DEF Begins, StartPoll, Due
  <1>3. CASE ~Started
    <2>1. nextDue[c] = Never /\ firstPoll' = t
      BY <1>0, <1>3 DEF LoopInv, Begins, FirstPoll, StartPoll
    <2>2. nextDue'[c] = t + Interval[c]
      BY <1>1, <1>2, <2>1 DEF IsDue, NextDeadline
    <2>3. Interval[c] % Interval[c] = 0
      BY <1>1, ModUnique
    <2>4. nextDue'[c] - firstPoll' = Interval[c]
      BY <1>1, <2>1, <2>2
    <2>5. QED
      BY <1>1, <2>2, <2>3, <2>4
  <1>4. CASE Started
    <2>1. /\ now \in Nat /\ now < t /\ firstPoll' = firstPoll /\ firstPoll \in Nat
          /\ now < nextDue[c] /\ nextDue[c] <= now + Interval[c]
          /\ (nextDue[c] - firstPoll) % Interval[c] = 0
      BY <1>0, <1>4 DEF LoopType, LoopInv, DeadlineIsNextInPhase, Begins, Tick, Started
    <2>2. CASE IsDue(nextDue[c], t)
      <3>1. t < nextDue'[c] /\ nextDue'[c] <= t + Interval[c]
        BY <1>1, <1>2, <2>2, NextDeadlineBounds
      <3>2. nextDue[c] \in Nat \ {0}
        BY <1>1, <2>1
      <3>3. (NextDeadline(Interval[c], nextDue[c], t) - firstPoll) % Interval[c] = 0
        BY <1>1, <2>1, <3>2, NextDeadlineInPhase
      <3>4. QED
        BY <1>2, <2>1, <2>2, <3>1, <3>3
    <2>3. CASE ~IsDue(nextDue[c], t)
      BY <1>1, <1>2, <2>1, <2>3 DEF IsDue
    <2>4. QED
      BY <2>2, <2>3
  <1>5. QED
    BY <1>3, <1>4

\* The end of a poll leaves a tick to wait for.
LEMMA EndPollLoopInv ==
  ASSUME IInv, InFlight, EndPoll, clock' = clock, LastSuccess' \in Nat
  PROVE  LoopInv'
  <1>0. LoopType /\ LoopInv
    BY DEF IInv, TypeOK
  <1>1. Started /\ Started' /\ now \in Nat /\ now <= clock /\ clock \in Nat \ {0}
    BY <1>0 DEF LoopType, LoopInv, EndPoll, Started
  <1>2. nextDue[Version] \in Nat /\ nextDue[Version] <= now + PollInterval
    BY <1>0, <1>1 DEF LoopType, LoopInv, DeadlineIsNextInPhase, Started
  <1>3. DeadlineIsNextInPhase'
    BY <1>0 DEF LoopInv, DeadlineIsNextInPhase, EndPoll
  <1>4. nextTick' # Never /\ now' < nextTick' /\ nextDue'[Version] <= nextTick'
    BY <1>0, <1>1, <1>2 DEF LoopType, LoopInv, EndPoll
  <1>5. QED
    BY <1>0, <1>1, <1>3, <1>4 DEF LoopInv, EndPoll

\* Nor does anything else the poller does touch the schedule.
LEMMA SameLoopInv ==
  ASSUME IInv, UNCHANGED loopVars, clock' \in Nat, clock <= clock', LastSuccess' = LastSuccess,
         \/ pc' = pc
         \/ pc' = "stopped"
         \/ InFlight /\ InFlight'
  PROVE  LoopInv'
  <1>0. LoopType /\ LoopInv
    BY DEF IInv, TypeOK
  <1>1. DeadlineIsNextInPhase'
    BY <1>0 DEF LoopInv, DeadlineIsNextInPhase, loopVars
  <1>2. Started' <=> Started
    BY DEF Started, loopVars
  <1>3. Started' => firstPoll' # Never /\ firstPoll' <= now' /\ now' <= clock'
    BY <1>0, <1>2 DEF LoopType, LoopInv, loopVars
  <1>4. QED
    BY <1>0, <1>1, <1>2, <1>3 DEF LoopInv, loopVars, InFlight

LEMMA LoopInvStep == IInv /\ [Next]_vars => LoopInv'
  <1> SUFFICES ASSUME IInv, [Next]_vars PROVE LoopInv'
    OBVIOUS
  <1>0. LoopType /\ LoopInv /\ RecordType /\ RecordType'
    BY RecordTypeStep DEF IInv, TypeOK
  <1>t. clock \in Nat /\ LastSuccess' \in Nat
    BY <1>0 DEF LoopType, RecordType
  <1>1. ASSUME NEW t \in Nat \ {0}, Begins(t) PROVE LoopInv'
    <2>1. now' = t /\ clock' = clock /\ t <= clock /\ LastSuccess' = LastSuccess
      BY <1>1 DEF Begins, StartPoll, published
    <2>2. firstPoll' # Never /\ firstPoll' <= now'
      BY <1>0, <1>1 DEF Begins, FirstPoll, Tick, StartPoll, LoopType, LoopInv
    <2>3. nextTick' # Never => now' < nextTick' /\ nextDue'[Version] <= nextTick'
      <3>1. CASE ~Started
        BY <1>0, <1>1, <3>1 DEF Begins, FirstPoll, LoopInv
      <3>2. CASE Started
        <4>1. t = nextTick /\ nextTick' = TickerNext(t)
          BY <1>1, <3>2 DEF Begins, Tick, StartPoll
        <4>2. TickerNext(t) \in Nat /\ t + PollInterval <= TickerNext(t)
          BY <1>t, <2>1, TickerLater
        <4>3. nextDue'[Version] <= t + PollInterval
          BY <1>1, BeginsDeadlines
        <4>4. nextDue'[Version] \in Nat
          BY LoopTypeStep DEF LoopType
        <4>5. QED
          BY <2>1, <4>1, <4>2, <4>3, <4>4
      <3>3. QED
        BY <3>1, <3>2
    <2>4. DeadlineIsNextInPhase'
      BY <1>1, <2>1, BeginsDeadlines DEF DeadlineIsNextInPhase
    <2>5. pc' = "batch"
      BY <1>1, BeginsWithVersion
    <2>6. QED
      BY <2>1, <2>2, <2>3, <2>4, <2>5 DEF LoopInv, Started
  <1>2. CASE Stop
    BY <1>t, <1>2, SameLoopInv DEF Stop, published
  <1>3. CASE BatchAnswered
    BY <1>t, <1>3, SameLoopInv DEF BatchAnswered, InFlight, published
  <1>4. CASE BatchRefused
    BY <1>t, <1>4, SameLoopInv DEF BatchRefused, InFlight, published
  <1>5. CASE BatchLost
    BY <1>t, <1>5, EndPollLoopInv DEF BatchLost, InFlight
  <1>6. CASE Retry
    BY <1>t, <1>6, SameLoopInv DEF Retry, InFlight, published
  <1>7. CASE MarkAttempt
    BY <1>t, <1>7, SameLoopInv DEF MarkAttempt, InFlight, published
  <1>8. CASE RecordFailure
    BY <1>t, <1>8, EndPollLoopInv DEF RecordFailure, InFlight
  <1>9. CASE RecordSuccess
    BY <1>t, <1>9, EndPollLoopInv DEF RecordSuccess, InFlight
  <1>10. CASE AskAgain \/ Cancel \/ TimePasses \/ UNCHANGED vars
    BY <1>t, <1>10, SameLoopInv DEF AskAgain, Cancel, TimePasses, vars, published
  <1>11. QED
    BY <1>1, <1>2, <1>3, <1>4, <1>5, <1>6, <1>7, <1>8, <1>9, <1>10, Steps

-----------------------------------------------------------------------------
(* The poll in progress                                                    *)

\* Some command of a batch comes first.
LEMMA FirstOfSome ==
  ASSUME NEW S \in SUBSET Commands, S # {}
  PROVE  First(S) \in S
  <1> DEFINE T == { Position[c] : c \in S }
             R0 == OpToRel(<, Nat)
  <1>1. T \subseteq Nat /\ T # {}
    OBVIOUS
  <1>2. PICK x \in T : \A y \in T : ~(<<y, x>> \in R0)
    <2> HIDE DEF T, R0
    <2>1. IsWellFoundedOn(R0, Nat)
      BY NatLessThanWellFounded DEF R0
    <2>2. QED
      BY <1>1, <2>1, WFMin
  <1>3. \A y \in T : ~(y < x)
    BY <1>1, <1>2 DEF OpToRel
  <1>4. PICK c \in S : x = Position[c]
    OBVIOUS
  <1>5. \A d \in S : Position[c] <= Position[d]
    BY <1>1, <1>3, <1>4
  <1>6. QED
    BY <1>5 DEF First

\* What a finished poll leaves: nothing.
LEMMA EndPollPollInv ==
  ASSUME EndPoll
  PROVE  PollInv'
  BY DEF EndPoll, PollInv, InFlight, NothingPending, Pending

LEMMA PollInvStep == IInv /\ [Next]_vars => PollInv'
  <1> SUFFICES ASSUME IInv, [Next]_vars PROVE PollInv'
    OBVIOUS
  <1> USE DEF pollVars, loopVars, published
  <1>0. /\ LoopType /\ PollType /\ RecordType
        /\ LoopInv /\ PollInv /\ StampInv
    BY DEF IInv, TypeOK
  <1>1. ASSUME NEW t \in Nat \ {0}, Begins(t) PROVE PollInv'
    <2>1. /\ Version \in specs' /\ pc' = "batch"
          /\ \A c \in Commands : result'[c] = Pending
      <3>1. ~InFlight /\ result' = result
        BY <1>1 DEF Begins, StartPoll, FirstPoll, Tick, InFlight
      <3>2. QED
        BY <1>0, <1>1, <3>1, BeginsWithVersion DEF PollInv
    <2>2. LastSuccess' < now'
      BY <1>0, <1>1 DEF Begins, StartPoll, StampInv, LoopType, RecordType
    <2>3. QED
      BY <2>1, <2>2 DEF PollInv, InFlight
  <1>2. CASE Stop
    BY <1>0, <1>2 DEF Stop, PollInv, InFlight
  <1>3. CASE BatchAnswered
    <2>1. /\ \A c \in specs : result'[c] # Pending /\ readAt'[c] = clock
          /\ \A c \in Commands \ specs : result'[c] = Pending
      BY <1>0, <1>3 DEF BatchAnswered, PollType, Pending, NoError
    <2>2. InFlight /\ now <= clock
      BY <1>0, <1>3 DEF BatchAnswered, InFlight, LoopInv, LoopType
    <2>3. UNCHANGED <<clock, now, specs, LastSuccess>> /\ pc' = "parsed"
      BY <1>3 DEF BatchAnswered
    <2>4. Version \in specs /\ LastSuccess < now /\ clock \in Nat
      BY <1>0, <2>2 DEF PollInv, LoopType
    <2>5. \A c \in Commands : result'[c] # Pending => /\ c \in specs'
                                                     /\ now' <= readAt'[c] /\ readAt'[c] <= clock'
      BY <2>1, <2>2, <2>3, <2>4
    <2>6. \A c \in specs' : result'[c] # Pending
      BY <2>1, <2>3
    <2>7. QED
      BY <2>3, <2>4, <2>5, <2>6 DEF PollInv, InFlight
  <1>4. CASE BatchRefused
    <2>1. InFlight /\ Version \in specs
      BY <1>0, <1>4 DEF BatchRefused, InFlight, PollInv
    <2>2. QED
      BY <1>0, <1>4, <2>1 DEF BatchRefused, PollInv, InFlight
  <1>5. CASE BatchLost
    BY <1>5, EndPollPollInv DEF BatchLost
  <1>6. CASE Retry
    <2> DEFINE c == First(left)
    <2>1. InFlight /\ left # {} /\ left \subseteq specs /\ left \in SUBSET Commands
      BY <1>0, <1>6 DEF Retry, InFlight, PollInv, PollType
    <2>2. c \in left /\ c \in specs /\ c \in Commands
      BY <2>1, FirstOfSome
    <2> HIDE DEF c
    <2>3. /\ \A d \in Commands : d # c => result'[d] = result[d] /\ readAt'[d] = readAt[d]
          /\ result'[c] # Pending /\ readAt'[c] = clock
      <3>1. \E answer \in Faults \cup {NoError} : result' = [result EXCEPT ![c] = answer]
        BY <1>6 DEF Retry, c
      <3>2. readAt' = [readAt EXCEPT ![c] = clock]
        BY <1>6 DEF Retry, c
      <3>3. \A answer \in Faults \cup {NoError} : answer # Pending
        BY DEF Errors, NoError, Pending
      <3>4. QED
        BY <1>0, <2>2, <3>1, <3>2, <3>3 DEF PollType
    <2>4. /\ specs' = specs /\ left' = left \ {c} /\ clock' = clock /\ now' = now
          /\ LastSuccess' = LastSuccess
          /\ pc' = IF left = {c} THEN "parsed" ELSE "retry"
      BY <1>6 DEF Retry, c
    <2>5. now <= clock
      BY <1>0, <2>1 DEF LoopInv, LoopType
    <2>6. \A d \in Commands : result'[d] # Pending => /\ d \in specs'
                                                     /\ now' <= readAt'[d] /\ readAt'[d] <= clock'
      BY <1>0, <2>2, <2>3, <2>4, <2>5 DEF PollInv, LoopType
    <2>7. \A d \in specs \ left' : result'[d] # Pending
      BY <1>0, <1>6, <2>2, <2>3, <2>4 DEF PollInv, PollType, Retry
    <2>8. QED
      BY <1>0, <2>1, <2>2, <2>4, <2>6, <2>7 DEF PollInv, InFlight
  <1>7. CASE MarkAttempt
    BY <1>0, <1>7 DEF MarkAttempt, PollInv, InFlight
  <1>8. CASE RecordFailure
    BY <1>8, EndPollPollInv DEF RecordFailure
  <1>9. CASE RecordSuccess
    BY <1>9, EndPollPollInv DEF RecordSuccess
  <1>10. CASE AskAgain \/ Cancel \/ TimePasses \/ UNCHANGED vars
    <2>1. UNCHANGED <<pc, now, specs, left, result, readAt, LastSuccess>> /\ clock <= clock'
      BY <1>0, <1>10 DEF AskAgain, Cancel, TimePasses, vars, LoopType
    <2>2. clock' \in Nat
      BY LoopTypeStep DEF LoopType
    <2>3. QED
      BY <1>0, <2>1, <2>2 DEF PollInv, InFlight, LoopType, PollType
  <1>11. QED
    BY <1>1, <1>2, <1>3, <1>4, <1>5, <1>6, <1>7, <1>8, <1>9, <1>10, Steps

-----------------------------------------------------------------------------
(* The record                                                              *)

\* No step but the recording of a success touches the readings and stamps.
LEMMA SameStampInv ==
  ASSUME IInv, UNCHANGED <<data, CommandLastSuccess, LastSuccess>>,
         now' \in Nat, now <= now', clock' \in Nat, clock <= clock'
  PROVE  StampInv'
  <1>0. LoopType /\ RecordType /\ StampInv
    BY DEF IInv, TypeOK
  <1>1. AgeNeverUnderstated'
    BY <1>0 DEF StampInv, AgeNeverUnderstated
  <1>2. LastSuccessIsNewest'
    BY <1>0 DEF StampInv, LastSuccessIsNewest
  <1>3. LastSuccess' <= now' /\ \A c \in Commands : data'[c] <= clock'
    BY <1>0 DEF StampInv, LoopType, RecordType
  <1>4. QED
    BY <1>1, <1>2, <1>3 DEF StampInv

LEMMA StampInvStep == IInv /\ [Next]_vars => StampInv'
  <1> SUFFICES ASSUME IInv, [Next]_vars PROVE StampInv'
    OBVIOUS
  <1> USE DEF pollVars, loopVars, published
  <1>0. /\ LoopType /\ PollType /\ RecordType
        /\ LoopInv /\ PollInv /\ StampInv
    BY DEF IInv, TypeOK
  <1>t. now \in Nat /\ clock \in Nat
    BY <1>0 DEF LoopType
  <1>1. ASSUME NEW t \in Nat \ {0}, Begins(t) PROVE StampInv'
    BY <1>t, <1>1, SameStampInv DEF Begins, StartPoll
  <1>2. CASE Stop
    BY <1>t, <1>2, SameStampInv DEF Stop
  <1>3. CASE BatchAnswered
    BY <1>t, <1>3, SameStampInv DEF BatchAnswered
  <1>4. CASE BatchRefused
    BY <1>t, <1>4, SameStampInv DEF BatchRefused
  <1>5. CASE BatchLost
    BY <1>t, <1>5, SameStampInv DEF BatchLost, SetError, EndPoll
  <1>6. CASE Retry
    BY <1>t, <1>6, SameStampInv DEF Retry
  <1>7. CASE MarkAttempt
    BY <1>t, <1>7, SameStampInv DEF MarkAttempt
  <1>8. CASE RecordFailure
    BY <1>t, <1>8, SameStampInv DEF RecordFailure, SetError, EndPoll
  <1>9. CASE RecordSuccess
    <2>1. /\ clock' = clock /\ now' = now /\ LastSuccess' = now /\ Landed # {}
          /\ data' = [c \in Commands |-> IF c \in Landed THEN readAt[c] ELSE data[c]]
          /\ CommandLastSuccess' =
                [c \in Commands |-> IF c \in Landed THEN now ELSE CommandLastSuccess[c]]
      BY <1>9 DEF RecordSuccess, EndPoll, Stamp
    <2>2. now # 0 /\ LastSuccess <= now
      BY <1>0, <1>9 DEF RecordSuccess, LoopInv, InFlight, Started, StampInv
    <2>3. Landed \subseteq Commands
          /\ \A c \in Landed : now <= readAt[c] /\ readAt[c] <= clock
      BY <1>0 DEF Landed, Good, PollInv, PollType, NoError, Pending
    <2>4. AgeNeverUnderstated'
      BY <1>0, <1>t, <2>1, <2>2, <2>3 DEF StampInv, AgeNeverUnderstated, RecordType, PollType
    <2>5. LastSuccessIsNewest'
      <3>1. \A c \in Commands : CommandLastSuccess'[c] <= LastSuccess'
        BY <1>0, <1>t, <2>1, <2>2 DEF StampInv, LastSuccessIsNewest, RecordType
      <3>2. \E c \in Commands : CommandLastSuccess'[c] = LastSuccess'
        BY <2>1, <2>3
      <3>3. QED
        BY <3>1, <3>2 DEF LastSuccessIsNewest
    <2>6. LastSuccess' <= now' /\ \A c \in Commands : data'[c] <= clock'
      BY <1>0, <1>t, <2>1, <2>3 DEF StampInv
    <2>7. QED
      BY <2>4, <2>5, <2>6 DEF StampInv
  <1>10. CASE AskAgain \/ Cancel \/ TimePasses \/ UNCHANGED vars
    BY <1>t, <1>10, SameStampInv DEF AskAgain, Cancel, TimePasses, vars
  <1>11. QED
    BY <1>1, <1>2, <1>3, <1>4, <1>5, <1>6, <1>7, <1>8, <1>9, <1>10, Steps

LEMMA ErrorsStep == IInv /\ [Next]_vars => ErrorsAreReal'
  <1> SUFFICES ASSUME IInv, [Next]_vars PROVE ErrorsAreReal'
    OBVIOUS
  <1> USE DEF published, ErrorsAreReal
  <1>0. ErrorsAreReal /\ PollType /\ RecordType /\ PollInv
    BY DEF IInv, TypeOK
  <1>1. ASSUME NEW t \in Nat \ {0}, Begins(t) PROVE ErrorsAreReal'
    BY <1>0, <1>1 DEF Begins, StartPoll
  <1>2. CASE BatchLost \/ RecordFailure
    BY <1>2 DEF BatchLost, RecordFailure, SetError
  <1>3. CASE RecordSuccess
    BY <1>0, <1>3 DEF RecordSuccess, MergedErrors, Landed, Good, PollType
  <1>4. CASE Stop \/ BatchAnswered \/ BatchRefused \/ Retry \/ MarkAttempt
    BY <1>0, <1>4 DEF Stop, BatchAnswered, BatchRefused, Retry, MarkAttempt
  <1>5. CASE AskAgain \/ Cancel \/ TimePasses \/ UNCHANGED vars
    BY <1>0, <1>5 DEF AskAgain, Cancel, TimePasses, vars
  <1>6. QED
    BY <1>1, <1>2, <1>3, <1>4, <1>5, Steps

LEMMA ScrapeErrStep == IInv /\ [Next]_vars => ScrapeErrTellsLastPoll'
  <1> SUFFICES ASSUME IInv, [Next]_vars PROVE ScrapeErrTellsLastPoll'
    OBVIOUS
  <1> USE DEF published, loopVars, ScrapeErrTellsLastPoll
  <1>0. ScrapeErrTellsLastPoll /\ PollType /\ PollInv /\ LoopType /\ RecordType
    BY DEF IInv, TypeOK
  <1>1. ASSUME NEW t \in Nat \ {0}, Begins(t) PROVE ScrapeErrTellsLastPoll'
    BY <1>1, BeginsWithVersion
  <1>2. ASSUME InFlight, EndPoll, LastSuccess' = LastSuccess, ScrapeErr' # NoError
        PROVE  ScrapeErrTellsLastPoll'
    BY <1>0, <1>2 DEF PollInv, EndPoll, LoopType, RecordType
  <1>3. CASE BatchLost
    BY <1>2, <1>3 DEF BatchLost, SetError, InFlight, NoError
  <1>4. CASE RecordFailure
    BY <1>0, <1>2, <1>4 DEF RecordFailure, SetError, InFlight, NoError, PollType
  <1>5. CASE RecordSuccess
    BY <1>5 DEF RecordSuccess, Stamp, EndPoll
  <1>6. CASE Stop \/ BatchAnswered \/ BatchRefused \/ Retry \/ MarkAttempt
    BY <1>6 DEF Stop, BatchAnswered, BatchRefused, Retry, MarkAttempt
  <1>7. CASE AskAgain \/ Cancel \/ TimePasses \/ UNCHANGED vars
    BY <1>0, <1>7 DEF AskAgain, Cancel, TimePasses, vars
  <1>8. QED
    BY <1>1, <1>3, <1>4, <1>5, <1>6, <1>7, Steps

\* By the time a slow command is due, so is every command whose interval
\* divides the slow one's.
LEMMA AlignedStep == IInv /\ [Next]_vars => BatchesStayAligned'
  <1> SUFFICES ASSUME IInv, [Next]_vars PROVE BatchesStayAligned'
    OBVIOUS
  <1> USE DEF pollVars, BatchesStayAligned
  <1>0. BatchesStayAligned /\ LoopType /\ LoopInv
    BY DEF IInv, TypeOK
  <1>1. ASSUME NEW t \in Nat \ {0}, Begins(t) PROVE BatchesStayAligned'
    <2> SUFFICES ASSUME NEW c \in Commands, NEW d \in Commands, d \in specs',
                        Interval[d] % Interval[c] = 0
                 PROVE  c \in specs'
      OBVIOUS
    <2>1. IsDue(nextDue[d], t)
      BY <1>1 DEF Begins, StartPoll, Due
    <2>2. CASE ~Started
      BY <1>0, <1>1, <2>2 DEF Begins, StartPoll, Due, IsDue, LoopInv
    <2>3. CASE Started
      <3>1. /\ nextDue[c] \in Nat /\ nextDue[d] \in Nat /\ now \in Nat /\ firstPoll \in Nat
            /\ Interval[c] \in Nat \ {0} /\ Interval[d] \in Nat \ {0}
        BY <1>0 DEF LoopType
      <3>2. /\ now < nextDue[d] /\ nextDue[c] <= now + Interval[c]
            /\ (nextDue[c] - firstPoll) % Interval[c] = 0
            /\ (nextDue[d] - firstPoll) % Interval[d] = 0
        BY <1>0, <2>3 DEF LoopInv, DeadlineIsNextInPhase, Started
      <3>3. nextDue[c] <= nextDue[d]
        BY <3>1, <3>2, FasterIsDueFirst
      <3>4. IsDue(nextDue[c], t)
        BY <2>1, <3>1, <3>2, <3>3 DEF IsDue
      <3>5. QED
        BY <1>1, <3>4 DEF Begins, StartPoll, Due
    <2>4. QED
      BY <2>2, <2>3
  <1>2. CASE BatchLost \/ RecordFailure \/ RecordSuccess
    BY <1>2 DEF BatchLost, RecordFailure, RecordSuccess, EndPoll
  <1>3. CASE Stop \/ BatchAnswered \/ BatchRefused \/ Retry \/ MarkAttempt
    BY <1>0, <1>3 DEF Stop, BatchAnswered, BatchRefused, Retry, MarkAttempt
  <1>4. CASE AskAgain \/ Cancel \/ TimePasses \/ UNCHANGED vars
    BY <1>0, <1>4 DEF AskAgain, Cancel, TimePasses, vars
  <1>5. QED
    BY <1>1, <1>2, <1>3, <1>4, Steps

-----------------------------------------------------------------------------
(* The log                                                                 *)

LEMMA ObserveLogInv ==
  ASSUME LogType, LogInv, NEW msg \in Messages, Observe(msg)
  PROVE  LogInv'
  <1>0. /\ tracker \in [last : Messages, count : Nat, sinceLastReport : Nat]
        /\ silence = tracker.sinceLastReport /\ silence < SummaryEvery /\ silence \in Nat
    BY DEF LogType, LogInv, SilenceBounded
  <1>1. CASE msg # tracker.last
    <2>1. tracker' = [last |-> msg, count |-> 1, sinceLastReport |-> 0]
      BY <1>1 DEF Observe, R!Observe
    <2>2. silence' = 0
      BY <1>1 DEF Observe, R!Reports
    <2>3. QED
      BY <2>1, <2>2 DEF LogInv, SilenceBounded
  <1>2. CASE msg = tracker.last
    <2> DEFINE n == silence + 1
               m == IF n < SummaryEvery THEN n ELSE 0
    <2>1. tracker' = [tracker EXCEPT !.count = @ + 1, !.sinceLastReport = m]
      BY <1>0, <1>2 DEF Observe, R!Observe
    <2>2. silence' = m
      BY <1>0, <1>2 DEF Observe, R!Reports
    <2>3. m \in Nat /\ m < SummaryEvery
      BY <1>0
    <2> HIDE DEF m
    <2>4. tracker'.count # 0 /\ tracker'.sinceLastReport = m
      BY <1>0, <2>1
    <2>5. QED
      BY <2>2, <2>3, <2>4 DEF LogInv, SilenceBounded
  <1>3. QED
    BY <1>1, <1>2

LEMMA LogInvStep == IInv /\ [Next]_vars => LogInv'
  <1> SUFFICES ASSUME IInv, [Next]_vars PROVE LogInv'
    OBVIOUS
  <1> USE DEF logVars
  <1>0. LogInv /\ LogType /\ PollType /\ PollInv
    BY DEF IInv, TypeOK
  <1>1. ASSUME NEW t \in Nat \ {0}, Begins(t) PROVE LogInv'
    BY <1>0, <1>1 DEF Begins, StartPoll, LogInv, SilenceBounded
  <1>2. CASE BatchLost
    <2>1. "lost" \in Errors
      BY DEF Errors
    <2>2. QED
      BY <1>0, <1>2, <2>1, ObserveLogInv, FailureMessage DEF BatchLost, SetError
  <1>3. CASE RecordFailure
    <2>1. (IF err = NoError THEN "unusable" ELSE err) \in Errors
      BY <1>0 DEF Errors, PollType
    <2>2. QED
      BY <1>0, <1>3, <2>1, ObserveLogInv, FailureMessage DEF RecordFailure, SetError
  <1>4. CASE RecordSuccess
    <2> DEFINE errs == [c \in Commands |-> IF c \in specs THEN result[c] ELSE NoError]
               msg == [cause |-> NoError, asked |-> specs, errs |-> errs]
    <2>1. CASE Landed = specs
      BY <1>0, <1>4, <2>1 DEF RecordSuccess, LogInv, SilenceBounded, R!Recovered, R!Quiet
    <2>2. CASE Landed # specs
      <3>1. Observe(msg)
        BY <1>4, <2>2 DEF RecordSuccess
      <3>2. errs \in [Commands -> Errors \cup {NoError}]
        BY <1>0, <1>4 DEF RecordSuccess, PollType, PollInv
      <3>3. msg \in Messages
        BY <1>0, <3>2 DEF Messages, PollType
      <3> HIDE DEF msg
      <3>4. QED
        BY <1>0, <3>1, <3>3, ObserveLogInv
    <2>3. QED
      BY <2>1, <2>2
  <1>5. CASE Stop \/ BatchAnswered \/ BatchRefused \/ Retry \/ MarkAttempt
    BY <1>0, <1>5 DEF Stop, BatchAnswered, BatchRefused, Retry, MarkAttempt, LogInv,
                      SilenceBounded
  <1>6. CASE AskAgain \/ Cancel \/ TimePasses \/ UNCHANGED vars
    BY <1>0, <1>6 DEF AskAgain, Cancel, TimePasses, vars, LogInv, SilenceBounded
  <1>7. QED
    BY <1>1, <1>2, <1>3, <1>4, <1>5, <1>6, Steps

-----------------------------------------------------------------------------
(* How late a poll may be                                                  *)

\* A call takes one request or two.
LEMMA RunTimeType ==
  /\ RunTime \in Nat /\ Timeout <= RunTime
  /\ RunTime = IF CredentialFile THEN Timeout + Timeout ELSE Timeout
  BY DEF RunTime

\* The time the calls for some commands take, one at a time: RunTime for each.
LEMMA TimeOfRequests ==
  ASSUME NEW S \in SUBSET Commands
  PROVE  /\ Cardinality(S) \in Nat /\ RunTime * Cardinality(S) \in Nat
         /\ RunTime + RunTime * Cardinality(S) <= MaxPoll
         /\ RunTime * (Cardinality(S) - 1) = RunTime * Cardinality(S) - RunTime
         /\ MaxPoll \in Nat /\ Lag \in Nat /\ MaxPoll <= Lag /\ PollInterval <= Lag
  <1>r. RunTime \in Nat
    BY RunTimeType
  <1>1. /\ Cardinality(S) \in Nat /\ Cardinality(Commands) \in Nat
        /\ Cardinality(S) <= Cardinality(Commands)
    BY FS_Subset, FS_CardinalityType
  <1>2. \A m, n \in Nat : m <= n => /\ RunTime * m \in Nat /\ RunTime * m <= RunTime * n
    <2>1. SUFFICES ASSUME NEW m \in Nat, NEW n \in Nat, m <= n
                   PROVE  RunTime * m \in Nat /\ RunTime * m <= RunTime * n
      BY <1>r
    <2>2. PICK k \in Nat : n = m + k
      BY <2>1
    <2>3. RunTime * n = RunTime * m + RunTime * k
      BY <1>r, <2>2, Distribute
    <2>4. RunTime * m \in Nat /\ RunTime * k \in Nat
      BY <1>r
    <2>5. QED
      BY <2>3, <2>4
  <1>3. MaxPoll = RunTime + RunTime * Cardinality(Commands)
    <2>1. RunTime * (1 + Cardinality(Commands)) = RunTime * 1 + RunTime * Cardinality(Commands)
      BY <1>r, <1>1, Distribute
    <2>2. QED
      BY <1>r, <2>1 DEF MaxPoll
  <1>4. RunTime * (Cardinality(S) - 1) = RunTime * Cardinality(S) - RunTime
    <2>1. RunTime * (Cardinality(S) + (-1)) = RunTime * Cardinality(S) + RunTime * (-1)
      BY <1>r, <1>1, Distribute
    <2>2. RunTime * (-1) = -RunTime /\ Cardinality(S) + (-1) = Cardinality(S) - 1
      BY <1>r, <1>1
    <2>3. RunTime * Cardinality(S) \in Nat
      BY <1>1, <1>2
    <2>4. QED
      BY <1>r, <2>1, <2>2, <2>3
  <1>5. /\ RunTime * Cardinality(S) \in Nat /\ RunTime * Cardinality(Commands) \in Nat
        /\ RunTime * Cardinality(S) <= RunTime * Cardinality(Commands)
    BY <1>1, <1>2
  <1>6. QED
    BY <1>r, <1>1, <1>3, <1>4, <1>5 DEF Lag

\* A call that begins is over after a RunTime, and one that asks again not later.
LEMMA RunBegins ==
  ASSUME LoopType, Run
  PROVE  /\ RunEnd' = clock + RunTime /\ RunTime' = RunTime
         /\ clock \in Nat /\ clock <= deadline'
  BY RunTimeType DEF LoopType, Run, RunEnd, RunTime

LEMMA RunGoesOn ==
  ASSUME LoopType, PollType
  PROVE  deadline \in Nat /\ RunEnd \in Nat /\ deadline <= RunEnd
  BY DEF PollType, RunEnd

\* A poll that begins takes MaxPoll at most.
LEMMA BeginsLatestEnd ==
  ASSUME IInv, NEW t \in Nat \ {0}, Begins(t)
  PROVE  /\ LatestEnd' \in Nat /\ clock <= LatestEnd' /\ LatestEnd' <= clock + MaxPoll
         /\ clock <= deadline' /\ clock' = clock /\ began' = clock /\ pc' = "batch"
  <1>1. pc' = "batch" /\ Run /\ clock' = clock /\ began' = clock
    BY BeginsWithVersion DEF Begins, StartPoll
  <1>2. LoopType /\ specs' \in SUBSET Commands
    BY PollTypeStep DEF IInv, TypeOK, Begins, StartPoll, Due
  <1>3. LatestEnd' = clock + RunTime + RunTime * Cardinality(specs')
    BY <1>1, <1>2, RunBegins DEF LatestEnd
  <1>4. QED
    BY <1>1, <1>2, <1>3, RunBegins, RunTimeType, TimeOfRequests

\* The poll does not end before the request in flight, and what is left to be asked
\* after it has its time.
LEMMA LatestEndHolds ==
  ASSUME IInv, pc \in {"batch", "retry"}
  PROVE  /\ LatestEnd \in Nat /\ clock <= LatestEnd /\ deadline <= LatestEnd
         /\ pc = "batch" => clock + RunTime * Cardinality(specs) <= LatestEnd
         /\ pc = "retry" /\ left # {First(left)} =>
              /\ First(left) \in left
              /\ clock + RunTime * Cardinality(left \ {First(left)}) <= LatestEnd
  <1>1. /\ clock \in Nat /\ deadline \in Nat /\ clock <= deadline
        /\ RunEnd \in Nat /\ deadline <= RunEnd
        /\ specs \in SUBSET Commands /\ left \in SUBSET Commands
    BY RunGoesOn DEF IInv, TypeOK, LoopType, PollType, LateInv
  <1>2. CASE pc = "batch"
    BY <1>1, <1>2, TimeOfRequests DEF LatestEnd
  <1>3. CASE pc = "retry"
    <2> DEFINE rest == left \ {First(left)}
    <2>1. left # {} /\ First(left) \in left
      BY <1>1, <1>3, FirstOfSome DEF IInv, PollInv
    <2>2. IsFiniteSet(left)
      BY <1>1, FS_Subset
    <2>3. Cardinality(rest) = Cardinality(left) - 1
      BY <2>1, <2>2, FS_RemoveElement
    <2>4. rest \in SUBSET Commands
      BY <1>1
    <2>5. LatestEnd = RunEnd + RunTime * Cardinality(rest)
      BY <1>3, <2>3 DEF LatestEnd
    <2>6. RunTime * Cardinality(rest) \in Nat
      BY <2>4, TimeOfRequests
    <2> HIDE DEF rest
    <2>7. /\ LatestEnd \in Nat /\ clock + RunTime * Cardinality(rest) <= LatestEnd
          /\ clock <= LatestEnd /\ deadline <= LatestEnd
      BY <1>1, <2>5, <2>6
    <2>8. QED
      BY <1>3, <2>1, <2>7 DEF rest
  <1>4. QED
    BY <1>2, <1>3

\* A step within a poll, or to the wait after it, that does not put the end off.
LEMMA SoonerEnd ==
  ASSUME IInv, pc = "waiting" \/ InFlight, LatestEnd \in Nat, LatestEnd' \in Nat,
         LatestEnd' <= LatestEnd, now' = now, nextTick' = nextTick,
         pc' \in {"batch", "retry"} => clock' <= deadline'
  PROVE  LateInv'
  <1>1. /\ LatestEnd <= now + 2 * Lag
        /\ nextTick = Never => LatestEnd <= now + MaxPoll
        /\ nextTick # Never => LatestEnd <= nextTick + Lag /\ nextTick <= now + 2 * Lag
    BY DEF IInv, LateInv
  <1>2. now \in Nat /\ nextTick \in Nat /\ Lag \in Nat /\ MaxPoll \in Nat
    BY TimeOfRequests DEF IInv, TypeOK, LoopType
  <1>3. Lag' = Lag /\ MaxPoll' = MaxPoll
    BY DEF Lag, MaxPoll, RunTime
  <1> HIDE DEF Never
  <1>4. QED
    BY <1>1, <1>2, <1>3 DEF LateInv

\* Of a poll in flight, the end is never put off, and the clock does not pass it.
LEMMA PollGoesOn ==
  ASSUME IInv, [Next]_vars, InFlight, InFlight'
  PROVE  /\ LatestEnd \in Nat /\ LatestEnd' \in Nat
         /\ LatestEnd' <= LatestEnd /\ clock' <= LatestEnd'
         /\ UNCHANGED <<now, nextTick, began>>
         /\ pc' \in {"batch", "retry"} => clock' <= deadline'
  <1>0. PollType /\ LoopType /\ LateInv
    BY DEF IInv, TypeOK
  <1>c. clock \in Nat /\ deadline \in Nat
    BY <1>0 DEF LoopType, PollType
  <1>1. CASE BatchAnswered
    <2>1. /\ pc = "batch" /\ pc' = "parsed" /\ clock' = clock /\ began' = began
          /\ now' = now /\ nextTick' = nextTick /\ LatestEnd' = clock
      BY <1>1 DEF BatchAnswered, loopVars, LatestEnd
    <2>2. QED
      BY <1>c, <2>1, LatestEndHolds
  <1>2. CASE BatchRefused
    <2>1. /\ pc = "batch" /\ pc' = "retry" /\ clock' = clock /\ left' = specs /\ began' = began
          /\ now' = now /\ nextTick' = nextTick /\ Run
      BY <1>2 DEF BatchRefused, loopVars
    <2>2. specs \in SUBSET Commands
      BY <1>0 DEF PollType
    <2>3. LatestEnd' = clock + RunTime + (RunTime * Cardinality(specs) - RunTime)
      BY <1>0, <2>1, <2>2, RunBegins, TimeOfRequests DEF LatestEnd
    <2>4. LatestEnd' = clock + RunTime * Cardinality(specs) /\ LatestEnd' \in Nat
          /\ clock <= LatestEnd'
      BY <1>c, <2>2, <2>3, RunTimeType, TimeOfRequests
    <2>5. QED
      BY <1>0, <1>c, <2>1, <2>4, LatestEndHolds, RunBegins
  <1>3. CASE Retry
    <2> DEFINE c == First(left)
    <2>1. /\ pc = "retry" /\ clock' = clock /\ left' = left \ {c} /\ began' = began
          /\ pc' = IF left = {c} THEN "parsed" ELSE "retry"
          /\ now' = now /\ nextTick' = nextTick /\ Run
      BY <1>3 DEF Retry, loopVars
    <2> HIDE DEF c
    <2>2. CASE left = {c}
      <3>1. LatestEnd' = clock
        BY <2>1, <2>2 DEF LatestEnd
      <3>2. QED
        BY <1>c, <2>1, <2>2, <3>1, LatestEndHolds
    <2>3. CASE left # {c}
      <3>1. left' \in SUBSET Commands
        BY <1>0, <2>1 DEF PollType
      <3>2. LatestEnd' = clock + RunTime + (RunTime * Cardinality(left') - RunTime)
        BY <1>0, <2>1, <2>3, <3>1, RunBegins, TimeOfRequests DEF LatestEnd
      <3>3. LatestEnd' = clock + RunTime * Cardinality(left') /\ LatestEnd' \in Nat
            /\ clock <= LatestEnd'
        BY <1>c, <3>1, <3>2, RunTimeType, TimeOfRequests
      <3>4. LatestEnd' <= LatestEnd /\ LatestEnd \in Nat
        BY <2>1, <2>3, <3>3, LatestEndHolds DEF c
      <3>5. clock' <= deadline'
        BY <1>0, <2>1, RunBegins
      <3>6. QED
        BY <2>1, <3>3, <3>4, <3>5
    <2>4. QED
      BY <2>2, <2>3
  <1>4. CASE AskAgain
    <2>1. /\ pc \in {"batch", "retry"} /\ CredentialFile /\ again = FALSE /\ again' = TRUE
          /\ deadline' = clock + Timeout
          /\ UNCHANGED <<clock, pc, now, nextTick, specs, left, began>>
      BY <1>0, <1>4 DEF AskAgain, loopVars, PollType
    <2>2. clock <= deadline /\ RunEnd = deadline + Timeout /\ RunEnd' = clock + Timeout
      BY <1>0, <2>1 DEF LateInv, RunEnd
    <2>3. LatestEnd \in Nat /\ clock <= LatestEnd
      BY <2>1, LatestEndHolds
    <2>4. PICK rest \in Nat : LatestEnd = RunEnd + rest /\ LatestEnd' = RunEnd' + rest
      <3>1. CASE pc = "batch"
        <4>1. RunTime * Cardinality(specs) \in Nat
          BY <1>0, TimeOfRequests DEF PollType
        <4>2. QED
          BY <2>1, <3>1, <4>1 DEF LatestEnd, RunTime
      <3>2. CASE pc = "retry"
        <4>1. left # {} /\ left \in SUBSET Commands /\ IsFiniteSet(left)
          BY <1>0, <3>2, FS_Subset DEF IInv, PollInv, PollType
        <4>2. PICK n \in Nat : n = Cardinality(left) - 1
          BY <4>1, FS_EmptySet, FS_CardinalityType
        <4>3. RunTime * n \in Nat
          BY RunTimeType
        <4>4. LatestEnd = RunEnd + RunTime * n /\ LatestEnd' = RunEnd' + RunTime * n
          BY <2>1, <3>2, <4>2 DEF LatestEnd, RunTime
        <4>5. QED
          BY <4>3, <4>4
      <3>3. QED
        BY <2>1, <3>1, <3>2
    <2>5. QED
      BY <1>c, <2>1, <2>2, <2>3, <2>4
  <1>5. CASE MarkAttempt
    <2>1. /\ pc = "parsed" /\ pc' = "attempted" /\ LatestEnd = clock /\ LatestEnd' = clock
          /\ clock' = clock /\ now' = now /\ nextTick' = nextTick /\ began' = began
      BY <1>5 DEF MarkAttempt, loopVars, pollVars, LatestEnd
    <2>2. QED
      BY <1>c, <2>1
  <1>6. CASE TimePasses
    <2>1. /\ clock' = clock + 1
          /\ UNCHANGED <<pc, now, nextTick, deadline, again, specs, left, began>>
          /\ pc \in {"batch", "retry"} /\ clock < deadline
      BY <1>6 DEF TimePasses, loopVars, pollVars, Idle, InFlight
    <2>2. LatestEnd' = LatestEnd
      BY <2>1 DEF LatestEnd, RunEnd, RunTime
    <2>3. QED
      BY <1>c, <2>1, <2>2, LatestEndHolds
  <1>7. CASE Cancel \/ UNCHANGED vars
    <2>1. UNCHANGED <<clock, pc, now, nextTick, deadline, again, specs, left, began>>
      BY <1>7 DEF Cancel, vars, loopVars, pollVars
    <2>2. LatestEnd' = LatestEnd
      BY <2>1 DEF LatestEnd, RunEnd, RunTime
    <2>3. LatestEnd \in Nat /\ clock <= LatestEnd
      BY <1>c, LatestEndHolds DEF LatestEnd, InFlight
    <2>4. QED
      BY <1>0, <2>1, <2>2, <2>3 DEF LateInv
  <1>8. QED
    BY <1>1, <1>2, <1>3, <1>4, <1>5, <1>6, <1>7, Steps
       DEF Begins, FirstPoll, Tick, Stop, BatchLost, RecordFailure, RecordSuccess, EndPoll, InFlight

\* A poll is over MaxPoll after it began.
LEMMA BoundStep == IInv /\ [Next]_vars => BoundInv'
  <1> SUFFICES ASSUME IInv, [Next]_vars, InFlight'
               PROVE  began' <= clock' /\ clock' <= LatestEnd' /\ LatestEnd' <= began' + MaxPoll
    BY DEF BoundInv, MaxPoll, RunTime
  <1>1. CASE InFlight
    <2>1. /\ began <= clock /\ LatestEnd <= began + MaxPoll
          /\ began \in Nat /\ clock \in Nat /\ MaxPoll \in Nat
      BY <1>1, TimeOfRequests DEF IInv, BoundInv, TypeOK, LoopType, PollType
    <2>2. clock' = clock \/ clock' = clock + 1
      BY Steps DEF Begins, StartPoll, Stop, BatchAnswered, BatchRefused, BatchLost, Retry,
                   MarkAttempt, RecordFailure, RecordSuccess, AskAgain, Cancel, TimePasses, vars
    <2>3. QED
      BY <1>1, <2>1, <2>2, PollGoesOn
  <1>2. CASE ~InFlight
    <2>1. \E t \in Nat \ {0} : Begins(t)
      BY <1>2, Steps DEF Stop, BatchAnswered, BatchRefused, BatchLost, Retry, MarkAttempt,
         RecordFailure, RecordSuccess, EndPoll, AskAgain, Cancel, TimePasses, vars, InFlight
    <2>2. clock \in Nat
      BY DEF IInv, TypeOK, LoopType
    <2>3. QED
      BY <2>1, <2>2, BeginsLatestEnd
  <1>3. QED
    BY <1>1, <1>2

\* The next tick, late or not, is one PollInterval away at most.
LEMMA TickerSoon ==
  ASSUME clock \in Nat, NEW due \in Nat, due <= clock
  PROVE  clock < TickerNext(due) /\ TickerNext(due) <= clock + PollInterval
  <1> DEFINE k == (clock - due) \div PollInterval
  <1>1. /\ k \in Int
        /\ PollInterval * k <= clock - due
        /\ clock - due < PollInterval * k + PollInterval
    <2>1. PICK a \in Int : a = clock - due
      OBVIOUS
    <2>2. a = PollInterval * (a \div PollInterval) + (a % PollInterval)
          /\ a \div PollInterval \in Int /\ a % PollInterval \in 0 .. (PollInterval - 1)
      BY <2>1, DivMod
    <2>3. PollInterval * (a \div PollInterval) \in Int
      BY <2>2, Distribute
    <2>4. QED
      BY <2>1, <2>2, <2>3
  <1> HIDE DEF k
  <1>2. PollInterval * (1 + k) = PollInterval + PollInterval * k /\ PollInterval * k \in Int
    BY <1>1, Distribute
  <1>3. TickerNext(due) = due + PollInterval * (1 + k)
    BY DEF TickerNext, k
  <1>4. QED
    BY <1>1, <1>2, <1>3

\* The end of a poll, which is on the clock now, with the tick to wait for.
LEMMA EndPollLate ==
  ASSUME IInv, InFlight, EndPoll, clock' = clock, clock <= LatestEnd, LatestEnd \in Nat
  PROVE  LateInv'
  <1>1. /\ LatestEnd <= now + 2 * Lag
        /\ nextTick = Never => LatestEnd <= now + MaxPoll
        /\ nextTick # Never => LatestEnd <= nextTick + Lag /\ nextTick <= now + 2 * Lag
    BY DEF IInv, LateInv
  <1>2. /\ now \in Nat /\ nextTick \in Nat /\ clock \in Nat
        /\ Lag \in Nat /\ MaxPoll \in Nat /\ MaxPoll <= Lag /\ PollInterval <= Lag
    BY TimeOfRequests DEF IInv, TypeOK, LoopType
  <1>3. /\ pc' = "waiting" /\ now' = now /\ LatestEnd' = clock
        /\ nextTick' = IF nextTick = Never THEN clock + PollInterval ELSE nextTick
    BY DEF EndPoll, LatestEnd
  <1>4. Lag' = Lag /\ MaxPoll' = MaxPoll
    BY DEF Lag, MaxPoll, RunTime
  <1>5. CASE nextTick = Never
    BY <1>1, <1>2, <1>3, <1>4, <1>5 DEF LateInv, InFlight
  <1>6. CASE nextTick # Never
    BY <1>1, <1>2, <1>3, <1>4, <1>6 DEF LateInv, InFlight
  <1>7. QED
    BY <1>5, <1>6

LEMMA LateStep == IInv /\ [Next]_vars => LateInv'
  <1> SUFFICES ASSUME IInv, [Next]_vars PROVE LateInv'
    OBVIOUS
  <1>0. LoopType /\ PollType /\ LoopInv /\ PollInv /\ LateInv
    BY DEF IInv, TypeOK
  <1>c. /\ clock \in Nat /\ now \in Nat /\ nextTick \in Nat /\ deadline \in Nat
        /\ Lag \in Nat /\ MaxPoll \in Nat /\ MaxPoll <= Lag /\ PollInterval <= Lag
        /\ Lag' = Lag /\ MaxPoll' = MaxPoll
    BY <1>0, TimeOfRequests DEF LoopType, PollType, Lag, MaxPoll, RunTime
  <1>1. ASSUME NEW t \in Nat \ {0}, Begins(t) PROVE LateInv'
    <2>1. /\ LatestEnd' \in Nat /\ LatestEnd' <= clock + MaxPoll /\ clock <= deadline'
          /\ clock' = clock /\ pc' = "batch" /\ now' = t
      BY <1>1, BeginsLatestEnd, BeginsWithVersion DEF Begins, StartPoll
    <2>2. CASE FirstPoll /\ ~Started
      <3>1. t = clock /\ nextTick' = Never
        BY <1>0, <1>1, <2>1, <2>2 DEF FirstPoll, StartPoll, LoopInv
      <3>2. QED
        BY <1>c, <2>1, <3>1 DEF LateInv
    <2>3. CASE Tick /\ Started
      <3>1. t = nextTick /\ nextTick' = TickerNext(t) /\ pc = "waiting" /\ t <= clock
        BY <1>1, <2>1, <2>3 DEF Tick, StartPoll, Begins
      <3>2. clock <= t + Lag
        BY <1>0, <3>1 DEF LateInv, LatestEnd
      <3>3. TickerNext(t) \in Nat /\ clock < TickerNext(t) /\ TickerNext(t) <= clock + PollInterval
        BY <1>c, <3>1, TickerSoon, TickerLater
      <3>4. QED
        BY <1>c, <2>1, <3>1, <3>2, <3>3 DEF LateInv
    <2>4. QED
      BY <1>1, <2>2, <2>3 DEF Begins
  <1>2. CASE Stop
    BY <1>2 DEF Stop, LateInv, InFlight
  <1>3. CASE InFlight /\ InFlight'
    BY <1>3, PollGoesOn, SoonerEnd
  <1>5. CASE BatchLost
    BY <1>5, LatestEndHolds, EndPollLate DEF BatchLost, InFlight
  <1>8. CASE RecordFailure \/ RecordSuccess
    <2>1. InFlight /\ EndPoll /\ LatestEnd = clock /\ clock' = clock
      BY <1>8 DEF RecordFailure, RecordSuccess, LatestEnd, InFlight
    <2>2. QED
      BY <1>c, <2>1, EndPollLate
  <1>9. CASE TimePasses /\ ~InFlight
    <2>1. /\ clock' = clock + 1 /\ Idle /\ UNCHANGED <<pc, now, nextTick, deadline, specs, left>>
      BY <1>9 DEF TimePasses, loopVars, pollVars
    <2>2. CASE pc = "waiting"
      <3>1. clock' <= nextTick /\ nextTick # Never
        BY <1>0, <1>c, <2>1, <2>2 DEF Idle, LoopInv
      <3>2. nextTick <= now + 2 * Lag
        BY <1>0, <2>2, <3>1 DEF LateInv
      <3>3. LatestEnd' = clock'
        BY <2>1, <2>2 DEF LatestEnd
      <3>4. QED
        BY <1>c, <2>1, <2>2, <3>1, <3>2, <3>3 DEF LateInv, InFlight
    <2>3. CASE pc # "waiting"
      BY <1>9, <2>1, <2>3 DEF LateInv, InFlight
    <2>4. QED
      BY <2>2, <2>3
  <1>10. CASE (Cancel \/ UNCHANGED vars) /\ ~InFlight
    <2>1. UNCHANGED <<clock, pc, now, nextTick, deadline, again, specs, left>>
      BY <1>10 DEF Cancel, vars, loopVars, pollVars
    <2>2. QED
      BY <1>0, <1>c, <2>1, <1>10 DEF LateInv, LatestEnd, InFlight
  <1>11. QED
    BY <1>1, <1>2, <1>3, <1>5, <1>8, <1>9, <1>10, Steps
       DEF AskAgain, BatchAnswered, BatchRefused, Retry, MarkAttempt, TimePasses, Cancel, vars,
           InFlight

-----------------------------------------------------------------------------
(* The theorems                                                            *)

\* The inductive invariant holds in every state the poller reaches.
THEOREM Invariance == Spec => []IInv
  <1>1. IInv /\ [Next]_vars => IInv'
    BY TypeStep, LoopInvStep, PollInvStep, StampInvStep, ErrorsStep, ScrapeErrStep,
       AlignedStep, LogInvStep, LateStep, BoundStep DEF IInv
  <1>2. QED
    BY <1>1, InitIInv, PTL DEF Spec

\* Every variable keeps its type: times are natural numbers, an error is one of
\* the three kinds, and no pending answer is ever published.
THEOREM TypeCorrect == Spec => []TypeOK
  <1>1. IInv => TypeOK
    BY DEF IInv
  <1>2. QED
    BY <1>1, Invariance, PTL

\* A reading is never older than its stamp says: the stamp is the tick the poll
\* began at, and the switch answered after it.
THEOREM AgesAreTrue == Spec => []AgeNeverUnderstated
  <1>1. IInv => AgeNeverUnderstated
    BY DEF IInv, StampInv
  <1>2. QED
    BY <1>1, Invariance, PTL

\* LastSuccess is the newest of the commands' stamps.
THEOREM NewestStamp == Spec => []LastSuccessIsNewest
  <1>1. IInv => LastSuccessIsNewest
    BY DEF IInv, StampInv
  <1>2. QED
    BY <1>1, Invariance, PTL

\* Between polls ScrapeErr is clear exactly when the last poll landed something.
THEOREM ScrapeErrIsCurrent == Spec => []ScrapeErrTellsLastPoll
  <1>1. IInv => ScrapeErrTellsLastPoll
    BY DEF IInv
  <1>2. QED
    BY <1>1, Invariance, PTL

\* A command reported failed did fail when it was last asked.
THEOREM NoFalseAlarm == Spec => []ErrorsAreReal
  <1>1. IInv => ErrorsAreReal
    BY DEF IInv
  <1>2. QED
    BY <1>1, Invariance, PTL

\* No request goes out without show version, so every poll that lands it can
\* name the switch, and the branch of collect for nothing due is never taken.
THEOREM VersionAlwaysAsked == Spec => []VersionInEveryBatch
  <1>1. IInv => VersionInEveryBatch
    BY DEF IInv, PollInv, VersionInEveryBatch
  <1>2. QED
    BY <1>1, Invariance, PTL

\* Deadlines stay in phase with the first poll, however late the polls are.
THEOREM DeadlinesInPhase == Spec => []DeadlineIsNextInPhase
  <1>1. IInv => DeadlineIsNextInPhase
    BY DEF IInv, LoopInv
  <1>2. QED
    BY <1>1, Invariance, PTL

\* A slow command never costs a request of its own when a faster one divides it.
THEOREM SlowRidesWithFast == Spec => []BatchesStayAligned
  <1>1. IInv => BatchesStayAligned
    BY DEF IInv
  <1>2. QED
    BY <1>1, Invariance, PTL

\* No command starves, however slow the switch answers and however often a batch
\* is refused: it is asked again within two Lags of its deadline.
THEOREM NothingStarves == Spec => []NoCommandStarves
  <1>1. ASSUME IInv, pc \notin {"offset", "stopped"}, NEW c \in Commands
        PROVE  clock <= nextDue[c] + 2 * Lag
    <2>1. /\ clock \in Nat /\ now \in Nat /\ nextDue[c] \in Nat /\ Lag \in Nat
          /\ pc = "waiting" \/ InFlight
      BY <1>1, TimeOfRequests DEF IInv, TypeOK, LoopType, InFlight
    <2>2. clock <= LatestEnd /\ LatestEnd \in Nat
      BY <1>1, <2>1, LatestEndHolds DEF LatestEnd
    <2>3. LatestEnd <= now + 2 * Lag
      BY <1>1, <2>1 DEF IInv, LateInv
    <2>4. now < nextDue[c]
      BY <1>1, <2>1 DEF IInv, LoopInv, DeadlineIsNextInPhase, Started
    <2>5. QED
      BY <2>1, <2>2, <2>3, <2>4
  <1>2. IInv => NoCommandStarves
    BY <1>1 DEF NoCommandStarves
  <1>3. QED
    BY <1>2, Invariance, PTL

\* A standing failure is logged at least once in SummaryEvery failed polls.
THEOREM FailuresAreLogged == Spec => []SilenceBounded
  <1>1. IInv => SilenceBounded
    BY DEF IInv, LogInv
  <1>2. QED
    BY <1>1, Invariance, PTL

\* The readings change in no step that does not also publish their stamp and
\* clear their errors: a reader never sees one without the other.
THEOREM ReadingsAndStampsTogether == Spec => ReadingsChangeWithTheirStamp
  <1> DEFINE Together == \A c \in Commands : data'[c] # data[c] =>
                           /\ CommandLastSuccess'[c] = now
                           /\ CommandErrors'[c] = NoError
                           /\ ScrapeErr' = NoError
  <1>1. ASSUME IInv, [Next]_vars PROVE Together \/ UNCHANGED vars
    <2> USE DEF published
    <2>1. ASSUME NEW t \in Nat \ {0}, Begins(t) PROVE Together
      BY <2>1 DEF Begins, StartPoll
    <2>2. CASE BatchLost \/ RecordFailure
      BY <2>2 DEF BatchLost, RecordFailure, SetError
    <2>3. CASE RecordSuccess
      BY <2>3 DEF RecordSuccess, MergedErrors, Landed, Good, Stamp
    <2>4. CASE Stop \/ BatchAnswered \/ BatchRefused \/ Retry \/ MarkAttempt
      BY <2>4 DEF Stop, BatchAnswered, BatchRefused, Retry, MarkAttempt
    <2>5. CASE AskAgain \/ Cancel \/ TimePasses \/ UNCHANGED vars
      BY <2>5 DEF AskAgain, Cancel, TimePasses
    <2>6. QED
      BY <1>1, <2>1, <2>2, <2>3, <2>4, <2>5, Steps
  <1>2. QED
    BY <1>1, Invariance, PTL DEF Spec, ReadingsChangeWithTheirStamp

-----------------------------------------------------------------------------
(* The refinement                                                          *)

LEMMA InitRefines == Init => Store!Init
  BY DEF Init, Store!Init, Never, Store!Never, AllWell

\* A poll that landed something is one step of the store: what landed gets the
\* one new stamp, what was asked in vain its error.
LEMMA SuccessRefines ==
  ASSUME IInv, RecordSuccess
  PROVE  Store!Land(Landed, specs \ Landed, now)
  <1> USE DEF published
  <1>0. LoopType /\ PollType /\ RecordType /\ LoopInv /\ PollInv /\ StampInv /\ InFlight
    BY DEF IInv, TypeOK, RecordSuccess, InFlight
  <1>1. /\ Landed # {} /\ Landed \subseteq specs /\ specs \subseteq Commands
        /\ LastSuccess < now /\ now <= clock /\ now \in Nat /\ clock \in Nat
    BY <1>0 DEF RecordSuccess, Landed, PollInv, PollType, LoopInv, LoopType
  <1>2. \A c \in Landed : readAt[c] \in Nat /\ now <= readAt[c] /\ readAt[c] <= clock
    BY <1>0 DEF Landed, Good, PollInv, PollType, NoError, Pending
  <1>3. data' = [c \in Commands |-> IF c \in Landed THEN readAt[c] ELSE data[c]]
    BY DEF RecordSuccess
  <1>4. data' \in [Commands -> Store!Never .. clock]
    <2>1. \A c \in Commands : data[c] \in Nat /\ data[c] <= clock
      BY <1>0 DEF StampInv, RecordType
    <2>2. QED
      BY <1>1, <1>2, <1>3, <2>1 DEF Store!Never
  <1>5. \A c \in Commands : IF c \in Landed THEN now <= data'[c] ELSE data'[c] = data[c]
    BY <1>2, <1>3
  <1>6. CommandErrors' = [c \in Commands |-> IF c \in specs THEN result[c] ELSE CommandErrors[c]]
    BY DEF RecordSuccess, MergedErrors
  <1>7. CommandErrors' \in [Commands -> Errors \cup {NoError}]
    BY RecordTypeStep DEF RecordType, Next, Record
  <1>8. \A c \in Commands :
           /\ c \in Landed => CommandErrors'[c] = NoError
           /\ c \in specs \ Landed => CommandErrors'[c] # NoError
           /\ c \notin Landed \cup (specs \ Landed) => CommandErrors'[c] = CommandErrors[c]
    BY <1>6 DEF Landed, Good
  <1>9. QED
    BY <1>1, <1>4, <1>5, <1>7, <1>8 DEF Store!Land, RecordSuccess, Stamp

\* A poll that landed nothing is one step of the store too.
LEMMA FailureRefines ==
  ASSUME IInv, InFlight, NEW reason \in Errors, SetError(reason),
         UNCHANGED <<clock, LastAttempt>>
  PROVE  Store!Next
  <1>1. specs # {} /\ specs \in SUBSET Commands
    BY DEF IInv, PollInv, TypeOK, PollType
  <1>2. Store!Fail(specs, reason)
    BY <1>1 DEF Store!Fail, SetError
  <1>3. QED
    BY <1>1, <1>2 DEF Store!Next

LEMMA NextRefines == IInv /\ [Next]_vars => [Store!Next]_Store!vars
  <1> SUFFICES ASSUME IInv, [Next]_vars PROVE [Store!Next]_Store!vars
    OBVIOUS
  <1> USE DEF published, Store!published, Store!vars
  <1>1. ASSUME NEW t \in Nat \ {0}, Begins(t) PROVE UNCHANGED Store!vars
    BY <1>1 DEF Begins, StartPoll
  <1>2. CASE BatchLost
    <2>1. "lost" \in Errors
      BY DEF Errors
    <2>2. QED
      BY <1>2, <2>1, FailureRefines DEF BatchLost, InFlight
  <1>3. CASE RecordFailure
    <2>1. (IF err = NoError THEN "unusable" ELSE err) \in Errors
      BY DEF Errors, IInv, TypeOK, PollType
    <2>2. QED
      BY <1>3, <2>1, FailureRefines DEF RecordFailure, InFlight
  <1>4. CASE RecordSuccess
    <2>1. /\ Landed \in SUBSET Commands /\ specs \ Landed \in SUBSET Commands
          /\ now \in 1 .. clock
      BY <1>4 DEF IInv, TypeOK, LoopType, PollType, LoopInv, Landed, RecordSuccess, InFlight,
                  Started
    <2>2. QED
      BY <1>4, <2>1, SuccessRefines DEF Store!Next
  <1>5. CASE MarkAttempt
    BY <1>5 DEF MarkAttempt, Store!Next, Store!Attempted
  <1>6. CASE Stop \/ AskAgain \/ BatchAnswered \/ BatchRefused \/ Retry \/ Cancel \/ UNCHANGED vars
    BY <1>6 DEF Stop, AskAgain, BatchAnswered, BatchRefused, Retry, Cancel, vars
  <1>7. CASE TimePasses
    <2>1. clock' > clock
      BY <1>7 DEF TimePasses, IInv, TypeOK, LoopType
    <2>2. QED
      BY <1>7, <2>1 DEF TimePasses, Store!TimePasses, Store!Next
  <1>8. QED
    BY <1>1, <1>2, <1>3, <1>4, <1>5, <1>6, <1>7, Steps

\* What PollLoop and collect do to the SwitchData is what SwitchStore promises
\* its readers.
THEOREM PollerImplementsStore == Spec => ImplementsStore
  <1>1. QED
    BY InitRefines, NextRefines, Invariance, PTL DEF Spec, Store!Spec, ImplementsStore

-----------------------------------------------------------------------------
(* The refinement of the loop                                              *)

LEMMA InitRefinesLoop == Init => Loop!Init
  BY DEF Init, InFlight, Loop!Init, Loop!Startup, Loop!Never

\* A poll that ends puts PollLoop back to waiting.
LEMMA EndRefines ==
  ASSUME InFlight, EndPoll, UNCHANGED <<clock, cancelled, LastAttempt>>
  PROVE  Loop!End
  BY DEF EndPoll, InFlight, Loop!End, Loop!Never

LEMMA LoopStep == IInv /\ [Next]_vars => [Loop!Next]_Loop!vars
  <1> SUFFICES ASSUME IInv, [Next]_vars PROVE [Loop!Next]_Loop!vars
    OBVIOUS
  <1> USE DEF InFlight
  <1>0. LoopType /\ LoopInv /\ PollInv
    BY DEF IInv, TypeOK
  <1>1. ASSUME NEW t \in Nat \ {0}, Begins(t) PROVE Loop!Next
    <2>1. pc' = "batch" /\ began' = clock
      BY <1>1, BeginsLatestEnd
    <2>2. Loop!Begin
      BY <1>1, <2>1 DEF Begins, StartPoll, Loop!Begin, MaxPoll, RunTime
    <2>3. CASE FirstPoll
      BY <2>2, <2>3 DEF FirstPoll, Loop!FirstPoll, Loop!Startup, Loop!Poll, Loop!Next
    <2>4. CASE Tick
      BY <2>2, <2>4 DEF Tick, TickerNext, Loop!Tick, Loop!Poll, Loop!Next
    <2>5. QED
      BY <1>1, <2>3, <2>4 DEF Begins
  <1>2. CASE BatchLost
    <2>1. Loop!End
      BY <1>2, EndRefines DEF BatchLost
    <2>2. QED
      BY <1>2, <2>1 DEF BatchLost, Loop!Lost, Loop!Poll, Loop!Next
  <1>3. CASE RecordFailure \/ RecordSuccess
    <2>1. pc = "attempted" /\ Loop!End
      BY <1>3, EndRefines DEF RecordFailure, RecordSuccess
    <2>2. QED
      BY <2>1 DEF Loop!Recorded, Loop!Poll, Loop!Next
  <1>4. CASE MarkAttempt
    BY <1>4 DEF MarkAttempt, loopVars, pollVars, MaxPoll, RunTime, Loop!Answered, Loop!Poll, Loop!Next
  <1>5. CASE AskAgain \/ BatchAnswered \/ BatchRefused \/ Retry
    BY <1>5 DEF AskAgain, BatchAnswered, BatchRefused, Retry, loopVars, MaxPoll, RunTime, Loop!vars
  <1>6. CASE Stop
    BY <1>6 DEF Stop, loopVars, pollVars, Loop!Stop, Loop!Next
  <1>7. CASE Cancel
    BY <1>7 DEF Cancel, loopVars, pollVars, MaxPoll, RunTime, Loop!Cancel, Loop!Next
  <1>8. CASE TimePasses
    <2>1. Loop!Idle
      <3>1. CASE pc \in {"batch", "retry"}
        <4>1. clock' <= LatestEnd' /\ LatestEnd' <= LatestEnd /\ LatestEnd \in Nat
              /\ LatestEnd' \in Nat
          BY <1>8, <3>1, PollGoesOn DEF TimePasses
        <4>2. LatestEnd <= began + MaxPoll /\ clock' = clock + 1
          BY <1>8, <3>1 DEF IInv, BoundInv, TimePasses
        <4>3. clock \in Nat /\ began \in Nat /\ MaxPoll \in Nat
          BY TimeOfRequests DEF IInv, TypeOK, LoopType, PollType
        <4>4. clock < began + MaxPoll
          BY <4>1, <4>2, <4>3
        <4>5. QED
          BY <3>1, <4>4 DEF Loop!Idle
      <3>2. CASE pc \notin {"batch", "retry"}
        BY <1>8, <3>2 DEF TimePasses, Idle, Loop!Idle, Loop!Startup
      <3>3. QED
        BY <3>1, <3>2
    <2>2. QED
      BY <1>8, <2>1 DEF TimePasses, loopVars, pollVars, MaxPoll, RunTime, Loop!TimePasses, Loop!Next
  <1>9. CASE UNCHANGED vars
    BY <1>9 DEF vars, loopVars, pollVars, MaxPoll, RunTime, Loop!vars
  <1>10. QED
    BY <1>1, <1>2, <1>3, <1>4, <1>5, <1>6, <1>7, <1>8, <1>9, Steps

\* Whatever the switch answers, and however often collect asks it again, PollLoop
\* keeps its times: the loop Fleet is made of is the one of this program.
THEOREM PollerImplementsPollLoop == Spec => ImplementsPollLoop
  <1>1. QED
    BY InitRefinesLoop, LoopStep, Invariance, PTL DEF Spec, Loop!Spec, ImplementsPollLoop
=============================================================================
