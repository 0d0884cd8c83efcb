# A TLA+ model of arex

arex polls Arista EOS switches over eAPI and exposes what it learned as
Prometheus metrics. This directory holds TLA+ modules translated from its Go
source, TLC configurations that model-check them, and TLAPS proofs about them.
`PROJECT.json` lists components, runs, mutants (each property with a plausible
bug it catches), the source lines every definition models, findings, hazards
and theorems.

Contents: [the system](#the-system) · [modules](#modules) · [runs](#runs) ·
[bounds](#bounds-and-why-they-are-enough) · [fairness](#fairness) ·
[findings](#findings) · [proofs](#proofs) · [not modelled](#not-modelled) ·
[plan](#plan)

## The system

One process serves a fixed list of switches. `main.run` makes, per switch, a
`SwitchData` record in the `Store`, an `eapi.Client` and a goroutine that runs
`collector.PollLoop`; then one HTTP server (and perhaps a second one for
probes) whose handlers only read the records.

```
           due, markDue           Run            401: Reload
  ticker -> PollLoop -> collect -------> eapi.Client -----> secret.Credential
                          | mu.Lock          | Stats.mu          (password file)
                          v                  v
                      SwitchData <-------- Stats
                          ^ mu.RLock
      /metrics (metrics.Collector)   /livez /readyz /status (health.Checker)
           ^ target -> TargetIndex           ^
           +------- listen.basicAuth --------+---- TLS: listen.certificate
```

| Component | State | Operations | What makes it correct |
|---|---|---|---|
| Poll scheduling (`collector.go` 156-195, 688-731) | `nextDue` per command | `due`, `markDue`, `PollOffset` | deadlines keep their phase however late a poll is; commands stay in common batches; pollers are spread over one interval, in order |
| Poller (`collector.go` 505-679, 743-811) | `SwitchData`: readings, `CommandLastSuccess`, `CommandErrors`, `ScrapeErr`, `LastSuccess`, `LastAttempt` | `PollLoop`, `CollectDue`, `collect`, `setError`, `markAttempt` | a record never claims more than was learned: ages, errors and readings agree, and change together; no command starves |
| Failure log (`repeat.go`) | last message, counters | `observe`, `recovered` | a standing failure is repeated every so often, and only then |
| Rendering (`metrics/collector.go` 158-289) | none | `collectSwitch`, `limitFor`, `scrapeLimit` | nothing older than its limit is served, nothing healthy is hidden |
| Probes (`health.go`) | none but the start time | `Live`, `Ready`, `Report` | a verdict read switch by switch is true of the fleet; only a wedged poller is fatal |
| Targets (`handler.go` 33-68, 162-232) | the index | `TargetIndex`, `NewHandler` | a target selects the switch it means, or none |
| eAPI client (`client.go`, `stats.go`, `auth.go`) | counters | `Run`, `retryAfterRotation`, `attempt`, `Record` | a rotation is taken up at once; a wrong password is not hammered; counters add up |
| Credential (`secret/credential.go`) | password | `Password`, `Reload` | a file that is being replaced costs nothing |
| Listener authentication (`listen/auth.go`) | time of the last reload | `allow`, `due` | concurrent requests share one read; a rotated password is accepted |
| Listener certificate (`listen/tls.go`) | certificate, stamp, last check | `load`, `stat`, `get` | what is served is what the stamp describes; a renewal is taken up |
| Lifecycle (`main.go` 204-447) | context, servers | `run`, `startProbes`, `protect` | a signal stops everything; a start that fails leaves nothing behind |
| Configuration (`config/`) | none | `Load`, `validate`, `EffectiveCollect` | what `-check` accepts starts |
| Schemas, transport errors, catalogue, build data | none | decoding, wording, tables | data without control |

What is hard here: polls that outlast ticks (the retries of a refused batch can
take as many timeouts as there are commands, and a rotation doubles them); three
ways for a poll to fail with different bookkeeping; two lock sections per poll,
with readers between; commands with different intervals whose failures must
survive polls that do not concern them; two staleness gates over two kinds of
stamp; probes that read many records one at a time; secrets that change between
any two requests; start offsets with jitter; an index in which names and hosts
may collide; requests and handshakes that find at the same moment that a file on
disk has changed; files that change between two reads of them; and a start of
many parts that may fail, or be told to stop, at each. `PROJECT.json` lists each
of these hazards at its line, with the properties that would catch it going
wrong.

## Modules

| Module | Models | How state and actions correspond |
|---|---|---|
| `Scheduling` | `due`, `markDue`, `PollOffset` | Operators `IsDue`, `NextDeadline`, `PollOffsets` (the set of all delays the jitter can give). Go's zero time is `Never`. |
| `RepeatTracker` | `repeat.go` | A tracker is a record; `Observe` and `Recovered` return the next one, `Reports` whether a line is logged. |
| `SwitchStore` | the abstract specification of a record | A poll ends in one step: some commands land under one new stamp (`Land`), or none does (`Fail`); besides that only `Attempted` and time. |
| `PollLoop` | the abstract specification of a poller | When it polls, how long a poll may take (`MaxPoll`), which polls count as attempts (`Answered`) and which do not (`Lost`); nothing of what is asked. |
| `Poller` | `PollLoop`, `CollectDue`, `collect` | `pc` is the place in the loop. `FirstPoll` and `Tick` are the two calls of `CollectDue` up to the request; `BatchAnswered`, `BatchRefused` (worth retrying), `BatchLost` (not worth it) the outcomes of `runBatch`; `Retry` one round of the per-command loop; `AskAgain` the second request of `client.Run` after a rotation; `MarkAttempt`, `RecordFailure`, `RecordSuccess` the lock sections at the end; `Stop` the cancelled context. Refines `SwitchStore` (what readers see of the record) and `PollLoop` (what waits for the loop). |
| `Publication` | `collectSwitch`, `limitFor`, `scrapeLimit` | A rendering holds the read lock, so what it shows is a function of a state of `Poller`: `Published`, `ScrapeSuccess`, `CommandSuccess`. |
| `Fleet` | the pollers of a process with `PollOffset`, and a probe | Each poller is a `PollLoop`, with the steps that probes can tell apart (`Lost`, `Answered`, `Recorded`); the probe reads one switch per step, in the order of `Store.All`: `ReadLive`, `ReadReady`, `ReadEntry`. |
| `TargetIndex` | `metrics.TargetIndex`, target resolution in `NewHandler` | One step per configured switch (`AddSwitch`), then `DropAmbiguous`; `Selected` is what a request gets. Names and hosts are keys: a scheme and an address. |
| `EapiClient` | `eapi.Client`, `secret.Credential`, `eapi.Stats` under the requests of `collect` | `Respond` is the second half of `attempt` with its counting; `RetryAfterRotation` reads the file again; `RetryIndividually` and `AskNext` are `collect`'s per-command loop; `ChangeAccount` and `ChangeFile` are the outside world. |
| `Throttle` | `reloadInterval` | Ages of what happened instead of dates, for the two modules that follow. |
| `BasicAuth` | `listen/auth.go` over `secret/credential.go` | Per connection, the place of its request in `allow`: `Arrive` is the first `matches`, `ReadClock` and `due` the two halves of `due` (the clock is read before the lock), `ReadFile` and `Adopt` the two of `Reload`, `Recheck` the second `matches`. `Rotate`, `Truncate` and `Publish` are the outside world: a secret gets a new value, the file is emptied on the way, or replaced. |
| `Certificate` | `listen/tls.go` | Per connection, the place of its handshake in `get` and `load`: `CheckDue`, `LookAtCert`, `LookAtKey`, `Mark` up to the decision; `ReadCert`, `ReadKey`, `StampCert`, `StampKey`, `Install` the load; `Serve`. `First` is `newCertificate`. `RenewCert` and `RenewKey` write one file in two steps. |
| `Listener` | `protect` and `TLSConfig` put together | Both under one clock, and the fairness of a scraper that keeps scraping. |
| `Configuration` | package `config`, `commandsFor`, `newClient`, `buildTLSConfig`, `TLSConfig`, `resolveLevel` | Operators only: which configuration passes `Load`, what it asks of every switch, and which parts of a process can be built of it. |
| `Process` | `main.go` | `pc` is the place in `main` and `run`; one action per part that is started (`Load`, `NewStore`, `StartPoller`, `protect`, `TLSConfig`, `startProbes`, `Serve`), per case of the select, and per step of the shutdown. `Check` is `arex -check` on the same command line, before. Pollers, server and scrapes run beside it; `Terminate` and `Hangup` are signals. |
| `SchedulingProofs`, `PollerProofs`, `PublicationProofs`, `FleetProofs`, `TargetIndexProofs`, `EapiClientProofs`, `ListenerProofs`, `ProcessProofs` | | theorems |
| `MCPoller`, `MCPublication`, `MCEapiClient`, `MCProcess` | | values of constants for TLC |

`Poller` EXTENDS `Scheduling` and uses `RepeatTracker`, `SwitchStore` and
`PollLoop` as instances; `Publication` EXTENDS `Poller`; `Fleet` EXTENDS
`Scheduling`, and `Loop(s)` is the instance of `PollLoop` for its switch s. So
`PollLoop` is what joins the two: `Poller` implements it request by request, and
`Fleet` is as many of it as there are switches, with `MaxPoll` for the time of a
batch and its retries. In `Poller` that is `RunTime * (1 + Cardinality(Commands))`,
where `RunTime` is what one `client.Run` may take: `Timeout`, or twice that if the
password comes from a file, since a rejected request is sent again with the
password found there (`AskAgain`).
`EapiClient` opens up what `Poller` takes as nondeterminism: its
`RetryAfterRotation`, if the file has changed, is `AskAgain`; its `refused` is
the fault `"refused"` there, a wrong number of results too; `unauthorized`,
`turned_away`, `unreadable` and `unsent` are `"lost"`. `Listener` EXTENDS
`BasicAuth` and `Certificate`, which EXTEND `Throttle`; `Process` EXTENDS
`Configuration`, and has the poller of `Poller` in its coarsest form: between
polls, polling, stopped.

Abstractions worth knowing. A reading is the time the switch produced it: that
is all the properties ask of it. Requests take any time up to the client's
timeout, each of the two of a call that meets a rotation; the poller's own
computation takes none, so time advances only while nobody could take a step at
once. There is always a timeout: `http.Client` takes a negative `scrapeTimeout`,
which `validate` lets through, for none, and nothing is claimed of such polls.
The ticker keeps one tick, carries the time it was due at, and drops the others,
as `time.Ticker` does. Variables called history in the modules record what
happened for the properties; no guard reads them, except the bounds of a run.
Definitions marked `Not the code` are plausible bugs that the mutants of
`PROJECT.json` put in place of a definition.

## Runs

All with `tlc -workers 2 -config <cfg> <module>`.

| Run | Module, cfg | What it shows |
|---|---|---|
| `poller` | `MCPoller`, `MCPoller.cfg` | With every fault at every request, cancellation at any time, second requests after rotations, and polls that outlast three ticks: no reading is older than its stamp says, `ScrapeErr` tells of the last poll, no command is reported failed that is not, a standing failure is logged, readings change only with stamp and errors, and the whole implements `SwitchStore` and `PollLoop`. |
| `publication` | `MCPublication`, `MCPublication.cfg` | Two commands with intervals 6 and 8, and refused batches whose retries, each with a second request, fill an interval: deadlines stay whole intervals after the first poll, every batch has `show version`, and none starves; the scrape gate hides nothing the command gates let through; nothing is served past its limit in real age; healthy commands never disappear between polls, and a successful scrape has data, as long as a poll fits the interval. |
| `fleet` | `Fleet`, `MCFleet.cfg` | First polls are staggered in order; a live verdict vouches for all switches; `/livez` fails only after a lost poll, if the longest poll and the wait before it fit the window; readiness is for good; a status report agrees with itself; and each switch is polled as `PollLoop` says. |
| `targets` | `TargetIndex`, `TargetIndex.cfg` | Every configuration of up to three switches: no target returns the metrics of a switch that does not go by it, and a spelling only one goes by selects it. |
| `client` | `MCEapiClient`, `MCEapiClient.cfg` | Secrets change up to three times within two polls: no rejected password is sent twice in a call, a delivered rotation costs no command, a wrong password costs one failed login per poll, and the counters explain each other: each request that went out is counted once. |
| `listener` | `Listener`, `Listener.cfg` | Two requests, or two handshakes, at any moment of two rotations, or of two renewals in two steps a file: one of several rejected requests reads the file, none whose password has become right meanwhile, and no slow reader puts an old password back; a scraper that was refused is let in again although others keep failing. A stamp is that of the pair in memory unless a renewal overtook the load; and it catches up with files that no longer change, also after loads that failed. |
| `process` | `MCProcess`, `MCProcess.cfg` | Nearly two hundred configurations and command lines: every client has the password, the timeout and the verification the file asks for, every command the interval and scope; what `-check` refuses does not get to serve; scrapes are drained or given the grace; and a process that is told to stop at any time, or loses its listener, ends. |
| `unreachable` | `Fleet`, `FleetUnreachable.cfg` | violation, finding 1 |
| `forgotten_failure` | `MCPublication`, `PublicationFailures.cfg` | violation, finding 2 |
| `labels` | `TargetIndex`, `TargetLabels.cfg` | violation, finding 3 |
| `renewal_missed` | `Certificate`, `CertificateRenewal.cfg` | violation, finding 4 |
| `checked_config` | `MCProcess`, `ProcessChecked.cfg` | violation, finding 5 |

Deadlock is checked in the two runs of the listener, which never stops. The other
models may stop for good: at the bound on their clock or their polls, when the
poller is stopped, when the index is built, or when the process has ended.

### Bounds, and why they are enough

* Time. `MaxClock` bounds each run. A poller's behaviour depends on the clock
  only through differences, and the schedules repeat after the least common
  multiple of the intervals: the runs cover at least four ticks with a poll
  that misses three (`poller`), the whole period of the two intervals and the
  limits of both commands being passed (`publication`: 18 and 24 of 27),
  and the liveness window being passed by a switch that was never attempted and by
  one that was (`fleet`, window 6 of 10).
* Commands. Two of different intervals: a command that is due with another, one
  that is not, and one that is always asked. More commands add more of the same
  kinds; the proofs cover any number.
* Polls outlasting ticks. In `poller` a call may take as long as the interval, in
  two requests of half of it each, so a refused batch of two takes up to three
  intervals. `publication` keeps polls within an interval, second requests
  included, which is what its two conditional properties assume.
* `Fleet` has two pollers with an offset of one unit, no jitter at this spacing
  (a third of one unit is none); order and spread with jitter are proved for
  any number. The window is 2 intervals rather than 10: it only has to hold the
  longest poll and the wait before it (`PromptPolls`), and does here.
* `TargetIndex` has two ordinary addresses besides `internal` and the empty
  one, with and without a scheme, for names and hosts alike: three switches are
  enough for a key to be claimed twice and a third time.
* `EapiClient` has three passwords, so that two rotations can follow each other
  within a call and an old password can come back.
* `Listener` has an interval of 3 units of which a request or handshake takes at
  most one (`ThrottleAssumption`: less than half an interval, where the code has
  30 seconds against a read of a small file). Two connections are enough for a
  claim, or a load, to meet another one; two rotations or renewals for a slow
  reader to hold something older than what is there. Authentication and TLS are
  run one at a time: they share the clock and nothing else.
* `Process` has one or two switches and 186 starts: a sound configuration in
  which one group of settings that bear on each other (credentials,
  verification, listener, schedules, timeout, levels) is varied in full, or one field is
  bad. Of the files, a credential and the key of the listener may go away while
  it starts. One scrape at a time, which may never end.

`MaxClock`, `MaxPolls`, `MaxChanges`, `MaxRotations`, `MaxRenewals`,
`MaxScrapes` and `MaxSwitches` of `TargetIndex` are the only bounds that are not
the code's; each is a conjunct of one guard, or bounds a set in `Init`.

### Fairness

`Poller`, `Publication`, `Fleet`, `EapiClient` and `TargetIndex` are checked for
safety only and assume none.

`Listener!FairSpec` and `Certificate!FairCertSpec`: weak fairness of time, of
every step of a request or handshake that has begun (a goroutine that can run
runs), of the scraper's next request and of the next handshake (Prometheus
scrapes at an interval), and of the rest of a rotation or renewal that was
begun. Nothing is assumed of other clients: they may never come or never stop.

`Process!FairSpec`: weak fairness of the start and of the way down (the main
goroutine runs), of the listener's attempt to bind, and of the timer of the
grace; strong fairness of the cases of the select that end it. `select` picks at
random among the cases that are ready, so under any number of SIGHUPs it picks
the other one eventually, though not while it is handling a SIGHUP: enabled again
and again, which is what strong fairness is about (a SIGHUP is handled in one step
of the model, so that weak fairness would do there). Nothing is assumed of polls,
scrapes or the senders of signals: `StopsWhenTold` holds with a poll or a scrape
that never ends, since `run` waits for no poller and for scrapes only as long as
the grace.

## Findings

1. An unreachable switch fails liveness (`collector.go` 537-542). `collect`
   returns before `markAttempt` if the batch failed in a way not worth
   retrying, so `LastAttempt` stands still, and after ten intervals `/livez`
   fails; a switch never reached also keeps `/readyz` at 503.
   `docs/operations.md` 47-55, `health.go` 18-22 and `values.yaml` 206 promise
   the opposite for the former. Run `unreachable`.
2. A failure is forgotten (`collector.go` 803): `setError` replaces the map of
   errors by one of the commands that were due, so a failing slow command turns
   to `arista_command_success 1` when a poll without it is lost; the comment
   at 616-618 says why that must not happen. Run `forgotten_failure`.
3. A label that does not resolve (`handler.go` 54): if a label is also the host
   of a switch configured earlier, the key is ambiguous and deleted, although
   line 30 says that labels always resolve. Run `labels`.
4. A renewal that is not served (`listen/tls.go` 59-66). `load` reads the pair and
   takes the stamp of the files afterwards. If they are renewed in between, at
   the start or during a reload, the old certificate is stored under the stamp
   of the new files; no later check finds a difference, and it is served until
   the next renewal or restart, which line 22 says must not happen. A stamp
   taken before the read would only cost a second load. Run `renewal_missed`.
5. Checked configurations that do not start (`main.go` 115). `checkConfig` builds
   the clients, but neither the store (duplicate labels, `collector.go` 125), nor
   the listener (a key of another pair, a client CA file without certificates,
   `listen/tls.go` 138-158), nor a ticker (a negative `pollInterval` panics,
   `collector.go` 760). `docs/operations.md` 25-28 and `main.go` 70-72 say that
   what the check passes starts. Run `checked_config`.

Two smaller ones have no run: `markAttempt` has a lock section of its own
(`collector.go` 578), so `/readyz` may succeed before the outcome of the first
poll is recorded and `/metrics` shows anything of the switch (`Fleet`, between
`Answered` and `Recorded`; `health.go` 70 says otherwise); and a configured host
that does not parse as a URL fails in `http.NewRequestWithContext`, after the
deferred `Record` was set up with `OutcomeSuccess` (`client.go` 238), so that
requests never made are counted as successes (`EapiClient`, `"unsent"` in
`OutcomeOf`; `stats.go` 79 says otherwise).

## Proofs

Checked by `tlapm`, for all values of the constants that satisfy the
assumptions named in the modules: intervals, timeouts, any finite set of
commands in any order, any faults.

`SchedulingProofs`: arithmetic of one command and one fleet.
`NextDeadlineBounds` and `NextDeadlineInPhase` bound the next deadline and place
it; `FasterIsDueFirst` says that of two commands in phase, one's interval a
multiple of the other's, the faster is due whenever the slower is;
`OffsetsWithinInterval` and `OffsetsKeepOrder` are about the staggered start.

`PollerProofs`: `Invariance` proves the inductive invariant
`IInv == TypeOK /\ LoopInv /\ PollInv /\ StampInv /\ ErrorsAreReal /\ ...` of
`Poller`. The properties are not inductive by themselves:

* Ages (`AgeNeverUnderstated`, and `LastSuccessIsNewest`, which says that
  `LastSuccess` is the newest stamp) need that answers of the
  poll in flight are no older than its tick, and that no stamp is as new as that
  tick yet (`PollInv`).
* That stamps grow needs that a tick is later than the one before even if
  handled late (`LoopInv`: `now < nextTick`).
* `VersionInEveryBatch` needs that `show version` is due at every tick, that is
  `nextDue[Version] <= nextTick`, and that its interval is the ticker's.
* `BatchesStayAligned` (a batch with a slow command carries every command whose
  interval divides its own; proved, not run) follows from `DeadlineIsNextInPhase` and
  `FasterIsDueFirst`, at the step that asks.
* `ErrorsAreReal` compares the record with what the poll found, kept as history.
* `SilenceBounded` needs that the history counts what the tracker counts.
* `NoCommandStarves` needs `LateInv`: `LatestEnd`, the time by which the poll in
  flight is over if each of its calls takes all of `RunTime`, is never put off by
  an answer or by a second request, and is at most `Lag` after the next tick; that tick is the first
  one after the poll began. `Lag` is the longer of a poll and an interval.
* `BoundInv` says the same from where the poll began, for `ImplementsPollLoop`.
  The history variable `began` is there for it, since the time of the tick that
  is handled may be long past.

Theorems, each `Spec => []P`: `TypeCorrect`, `AgesAreTrue`, `NewestStamp`,
`ScrapeErrIsCurrent`, `NoFalseAlarm`, `VersionAlwaysAsked`, `DeadlinesInPhase`,
`SlowRidesWithFast`, `NothingStarves`, `FailuresAreLogged`; and the action property
`ReadingsAndStampsTogether`. Two refinements: `PollerImplementsStore` is
`Spec => Store!Spec`, in which `MarkAttempt`, `RecordSuccess`, `RecordFailure` and
`BatchLost` map to `Attempted`, `Land` and `Fail`, time to time, all else to
stutters; `PollerImplementsPollLoop` is `Spec => Loop!Spec`, in which a batch and
its retries are one poll.

`PublicationProofs`: `ScrapeGateIsHarmless` and `NothingStaleIsServed`, from
the stamps' order in `IInv` and the two limits. `HealthyAreServed` and
`SuccessIsNotEmpty` rest on `PromptInv`, proved as `Promptness`: while polls have
fitted the interval, each tick is handled when it is due (`OnTime`), no deadline
passes between two ticks without its command having been asked, and a command
answered well when last asked has the stamp of that poll (`Renewed`), which is no
older than its interval. They assume that no command is asked more often than the
ticker ticks (`IntervalAssumption`), as `resolveInterval` sees to.

`FleetProofs`: `Invariance` of `IInv`; then `TypeCorrect`, `StartsAreStaggered` (from
`OffsetsWithinInterval` and `OffsetsKeepOrder`), `LiveIsTrueOfAll`, `OnlyLossesKill`,
`ReadinessIsForGood`, `ReportsAgree`, for any number of switches.

* `Punctual` follows each poller: it starts at its offset, and its next outcome,
  an attempt or a loss, is due an interval and a poll after the one before
  (`Settled`). A switch that is not cycling has therefore lost a poll within the
  window, if that holds an interval and a poll (`PromptPolls`); hence
  `DeadOnlyAfterLostPolls`.
* `ProbeInv` says what a probe knows of the switches it has read: that `Recent` or
  `Attempted` held when it read them, and holds still, because attempts only get
  later. This is what makes a verdict put together from many moments true.

The abstraction of `Fleet` is proved as well. `PollersAreLoops`: what a poller of
the fleet can do is what `PollLoop` can do on its own, no more and no less,
whatever other pollers and probes are at. `TimeIsOfAll`: time passes when it may
in every loop. `FleetImplementsPollLoops` is the refinement, switch by switch.
With `PollerImplementsPollLoop`, `Fleet` allows all that pollers of the program
do, until the process is told to stop.

`TargetIndexProofs`: `TargetsAreRight` and `UniqueNamesResolve`, for every list of
switches that `NewStore` accepts. `Claimed(n)` has the keys that each switch before
the `n`th has claimed. `Reflects`, the inductive part, says what the index makes of
them: a key in it leads to one of its claimants, a key is ambiguous only if two
switches claimed it, and any other claimed key is there and leads to its claimant.

`EapiClientProofs`: `Invariance` of `IInv == TypeOK /\ CallInv /\ LoginInv /\
...`; then `TypeCorrect`, `NeverTheSamePassword`, `RotationsAreSeamless`,
`OneLoginPerPoll`, `CountersExplained`. `OneLoginPerPoll` needs `LoginInv`: without
a change of a secret during the poll, commands are asked one at a time only with a
password that is known to be right, so failed logins are had in the batch alone.
`CountersExplained` needs `CountInv`: what the counters are still owed by a request
in flight, and by a rejection that was not yet followed up.

`ListenerProofs`: `ListenerInv == AuthInv /\ CertInv /\ ...`, from
`ThrottleAssumption` that a request is decided within less than half an interval,
for any number of connections, rotations and renewals. Then `TypesHold`,
`OneReadsTheFile`, `MatchedDoNotReload`, `PasswordsOnlyGetNewer`,
`StampIsOfThePair`.

* Mutual exclusion of readers is by time and not by a lock: whoever reads the file
  claimed it no longer ago than it has been undecided (`ClaimsAreRecent`), which
  is `MaxDelay` at most, and a second claim needs `ReloadInterval`.
* A request whose password another one has put in memory since it was compared
  finds the interval taken (`OvertakenIsNotDue`), so that it never reads.
* Passwords go from the file through a reader to memory, and their numbers only
  grow on the way (`MemoryBehindFile`, `FoundBetween`).
* `LoadIsPair` says, for every place in `load`, which files are still what was
  read; a renewal that overtakes one is the history variable `raced`.

`ProcessProofs`: for every set of configurations, content of files and number of
scrapes. `ScrapesMayFinish` needs `DownInv` (a shutdown that is over has expired or
was drained, and a server that is closed accepts no scrape), `CheckRefusesRightly`
`StartInv` and `RefusedInv`: while files are as they were at the check, the parts
started so far are ones the check found sound, so that a start with a bad one is
stuck before it. `TypeCorrect`, `ClientsAreAsConfigured` and
`SchedulesAreAsConfigured` follow from `Invariance` of `IInv`: `LoadedInv` keeps what
`Load` found in order and no file can undo afterwards (one source of a password, one
way to verify a switch, valid modules and intervals), `PartsInv` says that clients and
schedules were made of that configuration. They assume of the configurations only
that they have the fields a decoded file has (`FieldsAssumption`).

Only model-checked: the three liveness properties `ScraperReturns`,
`StampCatchesUp` and `StopsWhenTold`. The properties of the runs that expect a
violation are false. Every other property of a run is a theorem.
The types of `Fleet` and `Process` are theorems that no run needs to repeat.
Out of the prover's reach, and left to TLC: liveness under fairness and
`ENABLED`; induction over data; recursive operators, which no module here uses.

## Not modelled

* Parsing: YAML, JSON, durations, PEM and URLs are the libraries'; `Configuration`
  has decoded fields. Warnings about modes of secret files are wording.
* A password file that is read half written. `BasicAuth` has it empty or whole in
  between, as the kubelet's symbolic link and a truncating write of one line
  leave it; a longer one could be read in part, and taken for a rotation.
* An error of `Accept` or `Serve` after the listeners are bound.
* The level of the log: `resolveLevel` is modelled and no property is about it
  but its type.
* `Collect` (a forced poll) and `ensureScheduled`'s fallback: only tests use them.
* The conversion of readings to series (`collectVersion` and its like), JSON
  schemas, wording of errors, request tracing, the catalogue, build data: data
  without control. An answer that does not parse is the fault `"unusable"`.
* TLS verification and pinning: the standard library's.
* Filters by module and interface (`wants`, `matchIface`, `knownInterface`): they
  choose among series of one rendering. Of `NewHandler`, the target is modelled.
* The steps of a rendering of several switches: `now` is read before the first
  lock is taken, so that an age may come out a little negative. `Publication`
  reads the clock with the record.
* Overflow of durations: an int64 of nanoseconds holds 292 years.

## Plan

In order of what matters most:

1. The step from `PollLoop` to the pollers of `Process`, untimed and with a context,
   as a refinement; the authentication and the certificate of the listener each
   against an abstract specification of what a client may rely on.
2. The safety half of what is only model-checked: that `Process`, once told to stop,
   takes no step away from its end.
3. A rendering of the whole fleet in several steps while pollers record, with the
   filters of `NewHandler`; the lines of the failure log as a sequence.
