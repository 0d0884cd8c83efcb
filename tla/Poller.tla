------------------------------- MODULE Poller -------------------------------
(***************************************************************************)
(* One poller goroutine (collector.PollLoop) and the SwitchData it fills.  *)
(*                                                                         *)
(* The poller waits for its start offset, then for its ticker.  At a tick  *)
(* it asks the switch for every command that is due, in one batch; if the  *)
(* switch rejects the batch it asks again command by command; then it      *)
(* records what it learned.  The switch, the network and the operator who  *)
(* stops the process are nondeterministic.                                 *)
(*                                                                         *)
(* Requests take time, up to Timeout each, and each has a second one after *)
(* it if its password was rejected and the file has another by then.  The  *)
(* poller's own steps take none: time passes only while it waits or a      *)
(* request is in flight.                                                   *)
(***************************************************************************)
EXTENDS Scheduling, FiniteSets

CONSTANTS
  Commands,       \* the commands collected from this switch
  Position,       \* their order in the batch
  Version,        \* `show version', always collected
  Interval,       \* how often each command is due
  PollInterval,   \* the period of the ticker
  Timeout,        \* how long one request may take; there is always a limit
  CredentialFile, \* the password comes from a file, which may change
  StartOffset,    \* how long after the start of the process the first poll is
  SummaryEvery,   \* failed polls between two summary log lines
  Faults,         \* what can go wrong with an answer, for TLC: all of Errors or less
  MaxClock        \* the bound on time, for TLC

ASSUME CommandsAssumption ==
  /\ IsFiniteSet(Commands)
  /\ Version \in Commands
  /\ Position \in [Commands -> Nat]
  /\ \A c, d \in Commands : Position[c] = Position[d] => c = d

ASSUME TimesAssumption ==
  /\ PollInterval \in Nat \ {0}
  /\ Interval \in [Commands -> Nat \ {0}]
  /\ Interval[Version] = PollInterval
  /\ Timeout \in Nat
  /\ CredentialFile \in BOOLEAN
  /\ StartOffset \in Nat
  /\ SummaryEvery \in Nat \ {0}
  /\ MaxClock \in Nat

NoError == "no error"

\* lost: no usable HTTP answer, or refused credentials; refused: the switch
\* rejected a command; unusable: an empty or unparseable result.
Errors == {"lost", "refused", "unusable"}

ASSUME FaultsAssumption == Faults \subseteq Errors

\* A log message: either the failure of a whole poll, or which of the asked
\* commands failed and how.
Messages ==
  [cause : Errors \cup {NoError}, asked : SUBSET Commands,
   errs : [Commands -> Errors \cup {NoError}]]

AllWell == [c \in Commands |-> NoError]

R == INSTANCE RepeatTracker
       WITH NoMessage <- [cause |-> NoError, asked |-> {}, errs |-> AllWell]

-----------------------------------------------------------------------------
VARIABLES
  clock,                \* wall-clock time, from the start of the process
  cancelled,            \* the context the poller watches is done
  \* the poller
  pc,                   \* what the poller is doing
  nextTick,             \* when the ticker fires next; Never before it exists
  now,                  \* the time of the tick being handled, or handled last
  nextDue,              \* the deadline of each command
  \* the poll in progress
  specs,                \* the commands asked
  err,                  \* the error of the batch
  left,                 \* the commands still to be asked one at a time
  result,               \* per command: its error, NoError, or Pending
  readAt,               \* when the switch answered it
  deadline,             \* when the request in flight times out
  again,                \* it is the second one, with another password
  \* the published record
  data, CommandLastSuccess, CommandErrors, ScrapeErr, LastSuccess, LastAttempt,
  \* the log
  tracker,
  \* history
  firstPoll,            \* the time of the first poll
  began,                \* when the poll in flight began: at its tick or, late, after
  failing,              \* the commands whose latest answer was no good
  silence               \* failed polls since the last log line

loopVars == <<nextTick, now, nextDue, firstPoll>>
pollVars == <<specs, err, left, result, readAt, deadline, again, began>>
published == <<data, CommandLastSuccess, CommandErrors, ScrapeErr, LastSuccess>>
logVars == <<tracker, silence>>
vars == <<clock, cancelled, pc, loopVars, pollVars, published, LastAttempt,
          logVars, failing>>

InFlight == pc \in {"batch", "retry", "parsed", "attempted"}

\* How long one call of the client may take: the password it had and, if that comes
\* from a file, the one it finds there when it is rejected.
RunTime == IF CredentialFile THEN 2 * Timeout ELSE Timeout

\* The time a whole poll may take: a batch, and every command again on its own.
MaxPoll == RunTime * (1 + Cardinality(Commands))

Store == INSTANCE SwitchStore

Loop == INSTANCE PollLoop
          WITH pc <- IF pc \in {"batch", "retry", "parsed"} THEN "polling" ELSE pc,
               offset <- StartOffset,
               deadline <- IF InFlight THEN began + MaxPoll ELSE Never

Pending == "pending"
NothingPending == [c \in Commands |-> Pending]

Good(c) == result[c] = NoError
Landed == { c \in specs : Good(c) }

\* The first command of S in the batch.
First(S) == CHOOSE c \in S : \A d \in S : Position[c] <= Position[d]

-----------------------------------------------------------------------------
Init ==
  /\ clock = 1
  /\ cancelled = FALSE
  /\ pc = "offset"
  /\ nextTick = Never /\ now = Never
  /\ nextDue = [c \in Commands |-> Never]
  /\ firstPoll = Never
  /\ specs = {} /\ err = NoError /\ left = {}
  /\ result = NothingPending
  /\ readAt = [c \in Commands |-> Never]
  /\ deadline = Never /\ again = FALSE /\ began = Never
  /\ data = [c \in Commands |-> Never]
  /\ CommandLastSuccess = [c \in Commands |-> Never]
  /\ CommandErrors = AllWell
  /\ ScrapeErr = NoError
  /\ LastSuccess = Never
  /\ LastAttempt = Never
  /\ tracker = R!Quiet
  /\ silence = 0
  /\ failing = {}

-----------------------------------------------------------------------------
(* The loop                                                                *)

\* Not the code: a command that failed is not asked again.
DueUnlessFailing(t) == { c \in Commands : IsDue(nextDue[c], t) /\ c \notin failing }

\* The commands whose interval has elapsed at time t.
Due(t) == { c \in Commands : IsDue(nextDue[c], t) }

\* The client is called: its first request goes out.
Run == deadline' = clock + Timeout /\ again' = FALSE

\* CollectDue(t), up to its first request.  The deadlines move when a command
\* is issued, whatever comes of it.  Nothing due means no request.
StartPoll(t) ==
  /\ now' = t
  /\ nextDue' = [c \in Commands |-> IF c \in Due(t)
                                    THEN NextDeadline(Interval[c], nextDue[c], t)
                                    ELSE nextDue[c]]
  /\ specs' = Due(t)
  /\ pc' = IF Due(t) = {} THEN "waiting" ELSE "batch"
  /\ Run
  /\ began' = clock
  /\ UNCHANGED <<clock, cancelled, err, left, result, readAt, published,
                 LastAttempt, logVars, failing>>

\* The offset has passed: the first poll, at the time the clock shows.
FirstPoll ==
  /\ pc = "offset"
  /\ clock >= 1 + StartOffset
  /\ StartPoll(clock)
  /\ firstPoll' = clock
  /\ UNCHANGED nextTick

\* The ticker holds one tick.  It carries the time it was due at, which is
\* past when the poller was busy then; ticks due since are dropped.
TickerNext(due) == due + PollInterval * (1 + (clock - due) \div PollInterval)

Tick ==
  /\ pc = "waiting"
  /\ clock >= nextTick
  /\ StartPoll(nextTick)
  /\ nextTick' = TickerNext(nextTick)
  /\ UNCHANGED firstPoll

\* The select also takes a cancelled context: at random, if a tick is ready
\* too.  With no offset to wait for the first poll is made whatever happens.
Stop ==
  /\ cancelled
  /\ pc = "waiting" \/ (pc = "offset" /\ StartOffset > 0)
  /\ pc' = "stopped"
  /\ UNCHANGED <<clock, cancelled, loopVars, pollVars, published, LastAttempt,
                 logVars, failing>>

\* collect returns: its locals are gone, and after the first poll the ticker
\* is made.
EndPoll ==
  /\ pc' = "waiting"
  /\ nextTick' = IF nextTick = Never THEN clock + PollInterval ELSE nextTick
  /\ specs' = {} /\ err' = NoError /\ left' = {}
  /\ result' = NothingPending
  /\ readAt' = [c \in Commands |-> Never]
  /\ deadline' = Never /\ again' = FALSE /\ began' = Never
  /\ UNCHANGED <<now, nextDue, firstPoll>>

-----------------------------------------------------------------------------
(* Recording the outcome                                                   *)

\* The tracker is told of a failed poll, which it logs or not.
Observe(msg) ==
  /\ tracker' = R!Observe(tracker, msg)
  /\ silence' = IF R!Reports(tracker, msg) THEN 0 ELSE silence + 1

\* Not the code: the poll that failed keeps quiet about itself.
SetErrorOfCommands(reason) ==
  /\ CommandErrors' = [c \in Commands |-> IF c \in specs THEN reason ELSE NoError]
  /\ Observe([cause |-> reason, asked |-> {}, errs |-> AllWell])
  /\ failing' = failing \cup specs
  /\ UNCHANGED <<data, CommandLastSuccess, ScrapeErr, LastSuccess>>

\* Not the code: a failed poll counts as a success of the switch.
SetErrorAdvancing(reason) ==
  /\ ScrapeErr' = reason
  /\ CommandErrors' = [c \in Commands |-> IF c \in specs THEN reason ELSE NoError]
  /\ Observe([cause |-> reason, asked |-> {}, errs |-> AllWell])
  /\ failing' = failing \cup specs
  /\ LastSuccess' = now
  /\ UNCHANGED <<data, CommandLastSuccess>>

\* setError: nothing landed.  Every command asked gets the one error; the
\* map is a new one, so what it said of the others is dropped.
SetError(reason) ==
  /\ ScrapeErr' = reason
  /\ CommandErrors' = [c \in Commands |-> IF c \in specs THEN reason ELSE NoError]
  /\ Observe([cause |-> reason, asked |-> {}, errs |-> AllWell])
  /\ failing' = failing \cup specs
  /\ UNCHANGED <<data, CommandLastSuccess, LastSuccess>>

-----------------------------------------------------------------------------
(* The answers                                                             *)

\* The password was rejected, and another one is in its file: the request goes out
\* once more, with as much time again.
AskAgain ==
  /\ pc \in {"batch", "retry"}
  /\ CredentialFile /\ ~again
  /\ again' = TRUE
  /\ deadline' = clock + Timeout
  /\ UNCHANGED <<clock, cancelled, pc, loopVars, specs, err, left, result, readAt, began,
                 published, LastAttempt, logVars, failing>>

\* One result per command, of which those of bad are empty or unparseable.
BatchAnswered ==
  /\ pc = "batch"
  /\ \E bad \in IF "unusable" \in Faults THEN SUBSET specs ELSE {{}} :
        result' = [c \in Commands |-> IF c \notin specs THEN Pending
                                      ELSE IF c \in bad THEN "unusable" ELSE NoError]
  /\ readAt' = [c \in Commands |-> IF c \in specs THEN clock ELSE Never]
  /\ pc' = "parsed"
  /\ UNCHANGED <<clock, cancelled, loopVars, specs, err, left, deadline, again, began,
                 published, LastAttempt, logVars, failing>>

\* A CommandError, or a wrong number of results: worth asking one at a time.
BatchRefused ==
  /\ pc = "batch"
  /\ "refused" \in Faults
  /\ err' = "refused"
  /\ left' = specs
  /\ Run
  /\ pc' = "retry"
  /\ UNCHANGED <<clock, cancelled, loopVars, specs, result, readAt, began, published,
                 LastAttempt, logVars, failing>>

\* Anything else ends the poll on the spot.  LastAttempt is not touched.
BatchLost ==
  /\ pc = "batch"
  /\ "lost" \in Faults
  /\ SetError("lost")
  /\ EndPoll
  /\ UNCHANGED <<clock, cancelled, LastAttempt>>

\* Not the code: a command whose request is lost is asked again until it is not.
RetryUntilAnswered ==
  /\ pc = "retry"
  /\ LET c == First(left)
     IN  \E answer \in Faults \cup {NoError} :
           /\ result' = [result EXCEPT ![c] = answer]
           /\ left' = IF answer = "lost" THEN left ELSE left \ {c}
           /\ readAt' = [readAt EXCEPT ![c] = clock]
           /\ pc' = IF left' = {} THEN "parsed" ELSE "retry"
  /\ Run
  /\ UNCHANGED <<clock, cancelled, loopVars, specs, err, began, published, LastAttempt,
                 logVars, failing>>

\* The next command on its own; its answer may be refused or lost too, and
\* the ones after it are asked all the same.
Retry ==
  /\ pc = "retry"
  /\ LET c == First(left)
     IN  /\ \E answer \in Faults \cup {NoError} : result' = [result EXCEPT ![c] = answer]
         /\ readAt' = [readAt EXCEPT ![c] = clock]
         /\ left' = left \ {c}
         /\ pc' = IF left = {c} THEN "parsed" ELSE "retry"
  /\ Run
  /\ UNCHANGED <<clock, cancelled, loopVars, specs, err, began, published, LastAttempt,
                 logVars, failing>>

-----------------------------------------------------------------------------
\* Not the code: the readings are taken over here, their stamps later.
MarkAttemptApplying ==
  /\ pc = "parsed"
  /\ LastAttempt' = clock
  /\ data' = [c \in Commands |-> IF c \in Landed THEN readAt[c] ELSE data[c]]
  /\ pc' = "attempted"
  /\ UNCHANGED <<clock, cancelled, loopVars, pollVars, CommandLastSuccess, CommandErrors,
                 ScrapeErr, LastSuccess, logVars, failing>>

\* The attempt is recorded under a lock of its own, before the outcome.
MarkAttempt ==
  /\ pc = "parsed"
  /\ LastAttempt' = clock
  /\ pc' = "attempted"
  /\ UNCHANGED <<clock, cancelled, loopVars, pollVars, published, logVars, failing>>

\* Nothing landed; an answered batch has no error of its own to report.
RecordFailure ==
  /\ pc = "attempted"
  /\ Landed = {}
  /\ SetError(IF err = NoError THEN "unusable" ELSE err)
  /\ EndPoll
  /\ UNCHANGED <<clock, cancelled, LastAttempt>>

\* Not the code: a standing error outlives the answer that refutes it.
StickyErrors ==
  [c \in Commands |-> IF c \in specs /\ CommandErrors[c] = NoError THEN result[c]
                                                               ELSE CommandErrors[c]]

\* Not the code: the poll's errors replace the standing ones.
ReplacedErrors ==
  [c \in Commands |-> IF c \in specs THEN result[c] ELSE NoError]

\* Not the code: the outcome of every command, asked or not.
RawOutcomes == [c \in Commands |-> result[c]]

\* The error each command has after a poll that landed something: the poll's
\* own for the commands asked, the standing one for the others.
MergedErrors ==
  [c \in Commands |-> IF c \in specs THEN result[c] ELSE CommandErrors[c]]

\* Not the code: what landed is stamped when the poll ends.
StampAtTheEnd == clock

\* The stamp of what landed: when the poll began, not when it ended.
Stamp == now

\* Under one lock: the log, the readings that landed, the errors, the stamps.
RecordSuccess ==
  /\ pc = "attempted"
  /\ Landed # {}
  /\ IF Landed = specs
     THEN tracker' = R!Recovered(tracker) /\ silence' = 0
     ELSE Observe([cause |-> NoError, asked |-> specs,
                   errs |-> [c \in Commands |-> IF c \in specs THEN result[c] ELSE NoError]])
  /\ data' = [c \in Commands |-> IF c \in Landed THEN readAt[c] ELSE data[c]]
  /\ CommandLastSuccess' =
        [c \in Commands |-> IF c \in Landed THEN Stamp ELSE CommandLastSuccess[c]]
  /\ CommandErrors' = MergedErrors
  /\ ScrapeErr' = NoError
  /\ LastSuccess' = Stamp
  /\ failing' = (failing \ specs) \cup (specs \ Landed)
  /\ EndPoll
  /\ UNCHANGED <<clock, cancelled, LastAttempt>>

-----------------------------------------------------------------------------
(* The environment                                                         *)

Cancel ==
  /\ ~cancelled
  /\ cancelled' = TRUE
  /\ UNCHANGED <<clock, pc, loopVars, pollVars, published, LastAttempt, logVars, failing>>

\* Time passes while the poller has nothing it could do at once, and never
\* over the deadline of a request.
Idle ==
  \/ pc = "offset" /\ clock < 1 + StartOffset /\ ~cancelled
  \/ pc = "waiting" /\ clock < nextTick /\ ~cancelled
  \/ pc \in {"batch", "retry"} /\ clock < deadline
  \/ pc = "stopped"

TimePasses ==
  /\ Idle
  /\ clock < MaxClock
  /\ clock' = clock + 1
  /\ UNCHANGED <<cancelled, pc, loopVars, pollVars, published, LastAttempt, logVars, failing>>

-----------------------------------------------------------------------------
Answer == AskAgain \/ BatchAnswered \/ BatchRefused \/ BatchLost \/ Retry

Record == MarkAttempt \/ RecordFailure \/ RecordSuccess

Next == FirstPoll \/ Tick \/ Stop \/ Answer \/ Record \/ Cancel \/ TimePasses

Spec == Init /\ [][Next]_vars

-----------------------------------------------------------------------------
(* Correctness                                                             *)

LoopType ==
  /\ clock \in Nat \ {0}
  /\ pc \in {"offset", "waiting", "batch", "retry", "parsed", "attempted", "stopped"}
  /\ nextTick \in Nat /\ now \in Nat /\ firstPoll \in Nat
  /\ nextDue \in [Commands -> Nat]

PollType ==
  /\ specs \in SUBSET Commands /\ left \in SUBSET specs
  /\ err \in {NoError, "refused"}
  /\ result \in [Commands -> Errors \cup {NoError, Pending}]
  /\ readAt \in [Commands -> Nat]
  /\ deadline \in Nat /\ again \in BOOLEAN /\ began \in Nat

RecordType ==
  /\ data \in [Commands -> Nat]
  /\ CommandLastSuccess \in [Commands -> Nat]
  /\ CommandErrors \in [Commands -> Errors \cup {NoError}]
  /\ ScrapeErr \in Errors \cup {NoError}
  /\ LastSuccess \in Nat /\ LastAttempt \in Nat
  /\ failing \in SUBSET Commands

LogType ==
  /\ tracker \in [last : Messages, count : Nat, sinceLastReport : Nat]
  /\ silence \in Nat

TypeOK == cancelled \in BOOLEAN /\ LoopType /\ PollType /\ RecordType /\ LogType

\* The age a scrape reports for a reading is never less than its real age:
\* the switch produced it at its stamp or later, never before.
AgeNeverUnderstated ==
  \A c \in Commands : /\ CommandLastSuccess[c] <= data[c]
                      /\ CommandLastSuccess[c] = Never => data[c] = Never

\* LastSuccess, by which a scrape as a whole is judged, is the stamp of the
\* newest reading held: no reading is newer, and one is that new.
LastSuccessIsNewest ==
  /\ \A c \in Commands : CommandLastSuccess[c] <= LastSuccess
  /\ \E c \in Commands : CommandLastSuccess[c] = LastSuccess

\* Once the poll of a tick is recorded, a clear ScrapeErr says that this very
\* poll landed something, and a set one that it did not.
ScrapeErrTellsLastPoll ==
  pc = "waiting" => (ScrapeErr = NoError <=> LastSuccess = now)

\* No false alarm: a command reported failed was not answered well when it was
\* last asked.
ErrorsAreReal ==
  \A c \in Commands : CommandErrors[c] # NoError => c \in failing

\* Every request for anything asks for show version too, whose labels every
\* other series is joined on.
VersionInEveryBatch == InFlight => Version \in specs

\* Between polls each command waits for the first time after the last tick
\* that is a whole number of its intervals after the first poll, however late
\* or long the polls were.
DeadlineIsNextInPhase ==
  now # Never =>
    \A c \in Commands : /\ now < nextDue[c] /\ nextDue[c] <= now + Interval[c]
                        /\ (nextDue[c] - firstPoll) % Interval[c] = 0

\* Commands whose intervals divide keep going out together: the batch of the
\* slower one always carries the faster one.
BatchesStayAligned ==
  \A c, d \in Commands :
     d \in specs /\ Interval[d] % Interval[c] = 0 => c \in specs

\* The time a whole poll may take, or the time between two ticks if longer.
Lag == IF MaxPoll > PollInterval THEN MaxPoll ELSE PollInterval

\* No command starves: it is asked again at most two ticks, or two of the
\* longest polls, after its deadline.
NoCommandStarves ==
  pc \notin {"offset", "stopped"} /\ ~cancelled =>
    \A c \in Commands : clock <= nextDue[c] + 2 * Lag

\* However long a switch fails in the same way, a log line says so at least
\* once in SummaryEvery polls.
SilenceBounded == silence < SummaryEvery

\* A reader never sees a new reading beside an old stamp or a standing error,
\* and a failed poll costs no reading.
ReadingsChangeWithTheirStamp ==
  [][\A c \in Commands : data'[c] # data[c] =>
        /\ CommandLastSuccess'[c] = now
        /\ CommandErrors'[c] = NoError
        /\ ScrapeErr' = NoError]_vars

\* A poll publishes all it learned in one step, and its stamps grow.
ImplementsStore == Store!Spec

\* Whatever the switch answers, and however often it is asked again, a poller is
\* on time: it does what PollLoop promises those who only look at the loop.
ImplementsPollLoop == Loop!Spec

-----------------------------------------------------------------------------
(* The inductive invariant behind the properties above                     *)

Started == now # Never

\* Before the first poll nothing is scheduled and nothing is known.
LoopInv ==
  /\ pc = "offset" => ~Started
  /\ ~Started => /\ ~InFlight /\ pc # "waiting"
                 /\ nextTick = Never /\ firstPoll = Never /\ LastSuccess = Never
                 /\ nextDue = [c \in Commands |-> Never]
  /\ Started => firstPoll # Never /\ firstPoll <= now /\ now <= clock
  /\ pc = "waiting" => nextTick # Never
  /\ nextTick # Never => now < nextTick /\ nextDue[Version] <= nextTick
  /\ DeadlineIsNextInPhase

\* A poll in flight has asked show version among others, has published nothing
\* yet, and holds answers no older than its tick.
PollInv ==
  /\ InFlight => Version \in specs /\ LastSuccess < now
  /\ ~InFlight => specs = {}
  /\ \A c \in Commands : result[c] # Pending => /\ c \in specs
                                              /\ now <= readAt[c] /\ readAt[c] <= clock
  /\ pc = "retry" => left # {} /\ \A c \in specs \ left : result[c] # Pending
  /\ pc \in {"parsed", "attempted"} => \A c \in specs : result[c] # Pending

\* Stamps are ordered: reading after stamp, LastSuccess the newest stamp.
StampInv ==
  /\ AgeNeverUnderstated
  /\ LastSuccessIsNewest
  /\ LastSuccess <= now
  /\ \A c \in Commands : data[c] <= clock

\* The history of silence is the tracker's own counter.
LogInv ==
  /\ silence = tracker.sinceLastReport
  /\ tracker.count = 0 => silence = 0
  /\ SilenceBounded

\* When the call of the client in flight is over at the latest.
RunEnd == IF CredentialFile /\ ~again THEN deadline + Timeout ELSE deadline

\* When the poll in flight ends at the latest, if each call to come takes as long as
\* it may; the clock, if there is none to come.
LatestEnd ==
  IF pc = "batch" THEN RunEnd + RunTime * Cardinality(specs)
  ELSE IF pc = "retry" THEN RunEnd + RunTime * (Cardinality(left) - 1)
  ELSE clock

\* A poll is over MaxPoll after it began, late or not.
BoundInv ==
  InFlight => began <= clock /\ clock <= LatestEnd /\ LatestEnd <= began + MaxPoll

\* A poll ends at most a Lag after the next tick, which comes at most two after
\* this one; so no poll, nor the wait for the next, lasts longer.
LateInv ==
  /\ pc \in {"batch", "retry"} => clock <= deadline
  /\ pc = "waiting" \/ InFlight =>
       /\ LatestEnd <= now + 2 * Lag
       /\ nextTick = Never => LatestEnd <= now + MaxPoll
       /\ nextTick # Never => LatestEnd <= nextTick + Lag /\ nextTick <= now + 2 * Lag

IInv ==
  /\ TypeOK /\ LoopInv /\ PollInv /\ StampInv /\ BoundInv /\ LateInv
  /\ ErrorsAreReal /\ ScrapeErrTellsLastPoll /\ BatchesStayAligned /\ LogInv
=============================================================================
