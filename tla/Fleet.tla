-------------------------------- MODULE Fleet --------------------------------
(***************************************************************************)
(* All the pollers of a process, staggered, and a probe of health.Checker  *)
(* that reads their records one switch after another: /livez, /readyz and  *)
(* /status.                                                                *)
(*                                                                         *)
(* A poller is the PollLoop that Poller implements: a poll takes up to     *)
(* MaxPoll, is lost or answered, and is then recorded; an answered one     *)
(* marks the attempt first and records its outcome later, a lost one does  *)
(* not mark it.                                                            *)
(***************************************************************************)
EXTENDS Scheduling, FiniteSets

CONSTANTS
  N,                \* how many switches are configured
  PollSpacing,      \* the spacing of the pollers if the interval allows it
  PollInterval,     \* the period of every ticker
  MaxPoll,          \* how long a poll may take, retries and rotations included
  ProgressMultiple, \* how many intervals a poller may go without an attempt
  MaxClock          \* the bound on time, for TLC

ASSUME FleetAssumption ==
  /\ N \in Nat \ {0} /\ PollSpacing \in Nat /\ PollInterval \in Nat \ {0}
  /\ MaxPoll \in Nat /\ ProgressMultiple \in Nat \ {0} /\ MaxClock \in Nat

\* The switches in the order of the configuration.
Switches == 0 .. N - 1

Startup == 1

VARIABLES
  clock,
  \* per switch: its poller
  pc, offset, nextTick, deadline,
  \* per switch: when its record says it was last attempted
  LastAttempt,
  \* the probe
  endpoint,         \* what is asked: "livez", "readyz", "status", or "none"
  pass,             \* what the switches are being read for, or "answer"
  todo,             \* the switches not read yet
  probeNow,         \* the time the probe began at
  live, ready,      \* its verdicts so far: "yes", "no" or "unknown"
  entries,          \* the switches its report lists, by whether they were attempted
  \* history, per switch
  firstPoll,        \* when its first poll began
  lostAt,           \* when a poll of it last was lost
  everReady         \* not per switch: some probe has found them all ready

pollers == <<pc, offset, nextTick, deadline>>
probe == <<endpoint, pass, todo, probeNow, live, ready, entries>>
history == <<firstPoll, lostAt, everReady>>
vars == <<clock, pollers, LastAttempt, probe, history>>

\* The poller of a switch, on its own; no signal comes in this module.
Loop(s) == INSTANCE PollLoop
             WITH cancelled <- FALSE, pc <- pc[s], offset <- offset[s],
                  nextTick <- nextTick[s], deadline <- deadline[s],
                  LastAttempt <- LastAttempt[s], firstPoll <- firstPoll[s]

Init ==
  /\ clock = Startup
  /\ pc = [s \in Switches |-> "offset"]
  /\ offset \in [Switches -> 0 .. PollInterval]
  /\ \A s \in Switches : offset[s] \in PollOffsets(PollSpacing, s, N, PollInterval)
  /\ nextTick = [s \in Switches |-> Never]
  /\ deadline = [s \in Switches |-> Never]
  /\ LastAttempt = [s \in Switches |-> Never]
  /\ endpoint = "none" /\ pass = "none" /\ todo = {} /\ probeNow = Never
  /\ live = "unknown" /\ ready = "unknown"
  /\ entries = {}
  /\ firstPoll = [s \in Switches |-> Never]
  /\ lostAt = [s \in Switches |-> Never]
  /\ everReady = FALSE

-----------------------------------------------------------------------------
(* The pollers                                                             *)

Begin(s) ==
  /\ deadline' = [deadline EXCEPT ![s] = clock + MaxPoll]
  /\ pc' = [pc EXCEPT ![s] = "polling"]

FirstPoll(s) ==
  /\ pc[s] = "offset"
  /\ clock >= Startup + offset[s]
  /\ Begin(s)
  /\ firstPoll' = [firstPoll EXCEPT ![s] = clock]
  /\ UNCHANGED <<clock, offset, nextTick, LastAttempt, probe, lostAt, everReady>>

\* The ticker drops the ticks that a long poll missed.
TickerNext(due) == due + PollInterval * (1 + (clock - due) \div PollInterval)

Tick(s) ==
  /\ pc[s] = "waiting"
  /\ clock >= nextTick[s]
  /\ Begin(s)
  /\ nextTick' = [nextTick EXCEPT ![s] = TickerNext(@)]
  /\ UNCHANGED <<clock, offset, LastAttempt, probe, history>>

\* The ticker is made when the first poll has ended.
End(s) ==
  /\ pc' = [pc EXCEPT ![s] = "waiting"]
  /\ nextTick' = [nextTick EXCEPT ![s] = IF @ = Never THEN clock + PollInterval ELSE @]
  /\ deadline' = [deadline EXCEPT ![s] = Never]
  /\ UNCHANGED <<clock, offset, probe, firstPoll, everReady>>

\* Not the code: a poll that was lost is marked like any other.
LostMarking(s) ==
  /\ pc[s] = "polling"
  /\ lostAt' = [lostAt EXCEPT ![s] = clock]
  /\ LastAttempt' = [LastAttempt EXCEPT ![s] = clock]
  /\ End(s)

\* The switch cannot be reached, or refuses the credentials: setError, and no
\* markAttempt.
Lost(s) ==
  /\ pc[s] = "polling"
  /\ lostAt' = [lostAt EXCEPT ![s] = clock]
  /\ End(s)
  /\ UNCHANGED LastAttempt

\* Whatever the switch answered, the attempt is marked.
Answered(s) ==
  /\ pc[s] = "polling"
  /\ LastAttempt' = [LastAttempt EXCEPT ![s] = clock]
  /\ pc' = [pc EXCEPT ![s] = "attempted"]
  /\ UNCHANGED <<clock, offset, nextTick, deadline, probe, history>>

\* Some command landed, or none did: readings and stamps, or setError.
Recorded(s) ==
  /\ pc[s] = "attempted"
  /\ End(s)
  /\ UNCHANGED <<LastAttempt, lostAt>>

Poll(s) == FirstPoll(s) \/ Tick(s) \/ Lost(s) \/ Answered(s) \/ Recorded(s)

\* No poller has anything it could do at once.
TimePasses ==
  /\ \A s \in Switches : \/ pc[s] = "offset" /\ clock < Startup + offset[s]
                         \/ pc[s] = "waiting" /\ clock < nextTick[s]
                         \/ pc[s] = "polling" /\ clock < deadline[s]
  /\ clock < MaxClock
  /\ clock' = clock + 1
  /\ UNCHANGED <<pollers, LastAttempt, probe, history>>

-----------------------------------------------------------------------------
(* The probe                                                               *)

\* Not the code: an interval is all a poller may take.
OneInterval == PollInterval

\* How long a poller may go without completing an attempt.
Window == ProgressMultiple * PollInterval

\* Not the code: a switch that was never attempted is given all the time it
\* wants.
CyclingOrNew(s) == LastAttempt[s] = Never \/ probeNow - LastAttempt[s] <= Window

\* Live: a poller is cycling if its last attempt is recent, or if there was
\* none but the process is young.
Cycling(s) ==
  IF LastAttempt[s] = Never THEN probeNow - Startup < Window
                            ELSE probeNow - LastAttempt[s] <= Window

\* Not the code: readiness asks for a recent attempt.
AttemptedLately(s) == LastAttempt[s] # Never /\ clock - LastAttempt[s] <= Window

\* Ready.
Attempted(s) == LastAttempt[s] # Never

\* The passes over the switches that answer an endpoint: /livez and /readyz make
\* one, /status three.
FirstPass(asked) == IF asked = "readyz" THEN "ready" ELSE "live"

\* Not the code: the entries of a report come before its second verdict.
EntriesThenReady(p) ==
  IF endpoint # "status" THEN "answer"
  ELSE CASE p = "live" -> "entries" [] p = "entries" -> "ready" [] p = "ready" -> "answer"

After(p) ==
  IF endpoint # "status" THEN "answer"
  ELSE CASE p = "live" -> "ready" [] p = "ready" -> "entries" [] p = "entries" -> "answer"

\* A request; Live and Report take the time first.
Ask(asked) ==
  /\ endpoint = "none"
  /\ endpoint' = asked
  /\ pass' = FirstPass(asked)
  /\ todo' = Switches
  /\ probeNow' = clock
  /\ UNCHANGED <<clock, pollers, LastAttempt, history, live, ready, entries>>

\* A pass is over: on to the next one, or to the answer.
EndPass ==
  /\ pass' = After(pass)
  /\ todo' = IF After(pass) = "answer" THEN {} ELSE Switches
  /\ UNCHANGED <<clock, pollers, LastAttempt, firstPoll, lostAt, endpoint, probeNow>>

\* The store lists the switches in a fixed order.
NextSwitch == CHOOSE s \in todo : \A t \in todo : s <= t

\* Reading one switch under its read lock; the first that is not as it should be
\* settles the verdict.
ReadOn ==
  /\ todo' = todo \ {NextSwitch}
  /\ UNCHANGED <<clock, pollers, LastAttempt, firstPoll, lostAt, endpoint, pass, probeNow>>

ReadLive ==
  /\ pass = "live" /\ todo # {}
  /\ IF Cycling(NextSwitch) THEN ReadOn /\ UNCHANGED live ELSE EndPass /\ live' = "no"
  /\ UNCHANGED <<ready, entries, everReady>>

ReadReady ==
  /\ pass = "ready" /\ todo # {}
  /\ IF Attempted(NextSwitch) THEN ReadOn /\ UNCHANGED ready ELSE EndPass /\ ready' = "no"
  /\ UNCHANGED <<live, entries, everReady>>

ReadEntry ==
  /\ pass = "entries" /\ todo # {}
  /\ entries' = entries \cup {<<NextSwitch, LastAttempt[NextSwitch] # Never>>}
  /\ ReadOn
  /\ UNCHANGED <<live, ready, everReady>>

\* Every switch was read, and none settled the verdict before.
PassDone ==
  /\ pass \in {"live", "ready", "entries"} /\ todo = {}
  /\ live' = IF pass = "live" THEN "yes" ELSE live
  /\ ready' = IF pass = "ready" THEN "yes" ELSE ready
  /\ everReady' = (everReady \/ pass = "ready")
  /\ EndPass
  /\ UNCHANGED entries

\* The answer is sent and forgotten.
Respond ==
  /\ pass = "answer"
  /\ endpoint' = "none" /\ pass' = "none" /\ todo' = {} /\ probeNow' = Never
  /\ live' = "unknown" /\ ready' = "unknown" /\ entries' = {}
  /\ UNCHANGED <<clock, pollers, LastAttempt, history>>

Probe ==
  \/ \E asked \in {"livez", "readyz", "status"} : Ask(asked)
  \/ ReadLive \/ ReadReady \/ ReadEntry \/ PassDone \/ Respond

-----------------------------------------------------------------------------
Next == (\E s \in Switches : Poll(s)) \/ Probe \/ TimePasses

Spec == Init /\ [][Next]_vars

-----------------------------------------------------------------------------
(* Correctness                                                             *)

Verdicts == {"yes", "no", "unknown"}

TypeOK ==
  /\ clock \in Nat \ {0}
  /\ pc \in [Switches -> {"offset", "waiting", "polling", "attempted"}]
  /\ offset \in [Switches -> 0 .. PollInterval - 1]
  /\ nextTick \in [Switches -> Nat] /\ deadline \in [Switches -> Nat]
  /\ LastAttempt \in [Switches -> Nat]
  /\ endpoint \in {"none", "livez", "readyz", "status"}
  /\ pass \in {"none", "live", "ready", "entries", "answer"}
  /\ todo \in SUBSET Switches /\ probeNow \in Nat
  /\ live \in Verdicts /\ ready \in Verdicts /\ everReady \in BOOLEAN
  /\ entries \in SUBSET (Switches \X BOOLEAN)
  /\ firstPoll \in [Switches -> Nat] /\ lostAt \in [Switches -> Nat]

\* The pollers start within the first interval and, if that has room for them, one
\* after the other in the order of the configuration.
FirstPollsStaggered ==
  /\ \A s \in Switches : firstPoll[s] # Never => firstPoll[s] < Startup + PollInterval
  /\ Spacing(PollSpacing, N, PollInterval) > 0 =>
       \A s, t \in Switches : s < t /\ firstPoll[t] # Never =>
         firstPoll[s] # Never /\ firstPoll[s] < firstPoll[t]

\* A live verdict vouches for all switches at once, though they are read one by
\* one: each has attempted a poll within the window, or the process was young.
LiveMeansCycling ==
  live = "yes" => \A s \in Switches :
     IF LastAttempt[s] = Never THEN probeNow < Startup + Window
                               ELSE LastAttempt[s] >= probeNow - Window

\* The longest poll, and the wait for the tick before it, fit in the window.
PromptPolls == PollInterval + MaxPoll <= ProgressMultiple * PollInterval

\* With such polls /livez fails only if one was lost within the window: slow
\* switches, rejected commands and long reads by the probe are no reason.
DeadOnlyAfterLostPolls ==
  PromptPolls /\ live = "no" =>
    \E s \in Switches : lostAt[s] # Never /\ lostAt[s] >= probeNow - Window

\* Readiness is for good: once a probe found every switch ready, no later one
\* finds otherwise, whatever becomes of the switches.
ReadyStays == everReady => ready # "no"

\* A status report reads the switches three times over, and still agrees with
\* itself: one that says it is ready lists every switch as attempted.
ReportAgreesWithItself ==
  pass = "answer" /\ endpoint = "status" /\ ready = "yes" =>
    entries = {<<s, TRUE>> : s \in Switches}

\* Every switch is polled as if it were the only one, whatever the others and the
\* probes are doing: each step is one of every loop, if only by leaving it alone.
ImplementsPollLoops ==
  /\ \A s \in Switches : Loop(s)!Init
  /\ [][\A s \in Switches : [Loop(s)!Next]_(Loop(s)!vars)]_vars

\* health.go: liveness fails for a poll loop that has wedged, not for a switch
\* that is unreachable or refuses the credentials.
DeadMeansWedged ==
  live = "no" => \E s \in Switches :
     LastAttempt[s] < probeNow - Window /\ lostAt[s] < probeNow - Window

-----------------------------------------------------------------------------
(* The inductive invariant behind the properties above                     *)

\* When the last poll of a switch came out, however it did; Never, which is just
\* before the start of the process, if none did.
Settled(s) == IF lostAt[s] > LastAttempt[s] THEN lostAt[s] ELSE LastAttempt[s]

\* A poller is late for nothing: it starts at its offset, waits for at most an
\* interval after a poll, and then polls for at most MaxPoll.
Punctual(s) ==
  /\ offset[s] \in PollOffsets(PollSpacing, s, N, PollInterval)
  /\ LastAttempt[s] <= clock /\ lostAt[s] <= clock /\ firstPoll[s] <= clock
  /\ IF pc[s] = "offset"
     THEN /\ clock <= Startup + offset[s]
          /\ nextTick[s] = Never /\ firstPoll[s] = Never /\ Settled(s) = Never
     ELSE firstPoll[s] = Startup + offset[s]
  /\ pc[s] = "waiting" => /\ nextTick[s] # Never
                          /\ nextTick[s] <= Settled(s) + PollInterval
                          /\ clock <= Settled(s) + PollInterval
  /\ pc[s] = "polling" => /\ nextTick[s] <= clock + PollInterval
                          /\ clock <= deadline[s]
                          /\ deadline[s] <= Settled(s) + PollInterval + MaxPoll
  /\ pc[s] = "attempted" => nextTick[s] <= clock + PollInterval /\ LastAttempt[s] = clock

\* What Cycling says when a switch is read, and stays true of it: attempts only
\* get later.
Recent(s) ==
  IF LastAttempt[s] = Never THEN probeNow < Startup + Window
                            ELSE LastAttempt[s] >= probeNow - Window

\* What each pass has established of the switches it has read, and the verdicts of
\* all of them.
ProbeInv ==
  /\ probeNow <= clock
  /\ endpoint = "none" <=> pass = "none"
  /\ pass = "none" => live = "unknown" /\ ready = "unknown"
  /\ pass = "live" =>
       /\ live = "unknown" /\ ready = "unknown"
       /\ \A s \in Switches \ todo : Recent(s)
  /\ pass = "ready" =>
       /\ ready = "unknown"
       /\ \A s \in Switches \ todo : Attempted(s)
  /\ pass \in {"none", "live", "ready"} => entries = {}
  /\ pass = "entries" => endpoint = "status"
  /\ pass = "entries" /\ ready = "yes" => entries = {<<s, TRUE>> : s \in Switches \ todo}
  /\ ready = "yes" \/ everReady => \A s \in Switches : Attempted(s)

IInv ==
  /\ TypeOK /\ (\A s \in Switches : Punctual(s)) /\ ProbeInv
  /\ LiveMeansCycling /\ DeadOnlyAfterLostPolls /\ ReadyStays /\ ReportAgreesWithItself
=============================================================================
