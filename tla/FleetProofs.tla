----------------------------- MODULE FleetProofs -----------------------------
(***************************************************************************)
(* The pollers of a process and the verdicts of its probes, for every      *)
(* number of switches, every spacing and every length of a poll.           *)
(***************************************************************************)
EXTENDS Fleet, SchedulingProofs, WellFoundedInduction

USE FleetAssumption DEF Never, Startup

LEMMA WindowType == Window \in Nat /\ Window > 0
  BY DEF Window

\* The next tick is later than the clock, and by at most one interval.
LEMMA TickerNextBounds ==
  ASSUME clock \in Nat, NEW due \in Nat, due <= clock
  PROVE  /\ TickerNext(due) \in Nat
         /\ clock < TickerNext(due) /\ TickerNext(due) <= clock + PollInterval
  <1> DEFINE k == (clock - due) \div PollInterval
  <1>1. /\ k \in Int
        /\ PollInterval * k <= clock - due
        /\ clock - due < PollInterval * k + PollInterval
    <2>1. PICK a \in Int : a = clock - due
      OBVIOUS
    <2>2. a = PollInterval * (a \div PollInterval) + (a % PollInterval)
          /\ a \div PollInterval \in Int /\ a % PollInterval \in 0 .. (PollInterval - 1)
      BY <2>1, DivMod
    <2>3. PollInterval * (a \div PollInterval) \in Int
      BY <2>2, Distribute
    <2>4. QED
      BY <2>1, <2>2, <2>3
  <1> HIDE DEF k
  <1>2. PollInterval * (1 + k) = PollInterval + PollInterval * k /\ PollInterval * k \in Int
    BY <1>1, Distribute
  <1>3. TickerNext(due) = due + PollInterval * (1 + k)
    BY DEF TickerNext, k
  <1>4. QED
    BY <1>1, <1>2, <1>3

\* The store lists some switch first.
LEMMA NextSwitchInTodo ==
  ASSUME todo \in SUBSET Switches, todo # {}
  PROVE  NextSwitch \in todo
  <1> DEFINE R0 == OpToRel(<, Nat)
  <1>1. PICK x \in todo : \A y \in todo : ~(<<y, x>> \in R0)
    <2>1. todo \subseteq Nat
      BY DEF Switches
    <2>2. IsWellFoundedOn(R0, Nat)
      BY NatLessThanWellFounded DEF R0
    <2> HIDE DEF R0
    <2>3. QED
      BY <2>1, <2>2, WFMin
  <1>2. \A y \in todo : y \in Nat /\ x \in Nat /\ ~(y < x)
    <2>1. todo \subseteq Nat
      BY DEF Switches
    <2>2. QED
      BY <1>1, <2>1 DEF OpToRel
  <1>3. QED
    BY <1>2 DEF NextSwitch

-----------------------------------------------------------------------------
(* The steps, by what they leave alone                                     *)

\* A probe reads.
LEMMA ProbeReads ==
  ASSUME Probe
  PROVE  UNCHANGED <<clock, pc, offset, nextTick, deadline, LastAttempt, firstPoll, lostAt>>
  BY DEF Probe, Ask, ReadLive, ReadReady, ReadEntry, PassDone, Respond, ReadOn, EndPass,
    pollers, history

\* A step of the pollers, or of time, leaves the probe alone; attempts and losses
\* are as they were, or of now.
LEMMA PollersMoveOn ==
  ASSUME TypeOK, TimePasses \/ \E s \in Switches : Poll(s)
  PROVE  /\ UNCHANGED <<endpoint, pass, todo, probeNow, live, ready, entries, everReady>>
         /\ clock' \in Nat /\ clock <= clock'
         /\ \A s \in Switches : /\ LastAttempt'[s] \in {LastAttempt[s], clock}
                                /\ lostAt'[s] \in {lostAt[s], clock}
  <1>1. CASE TimePasses
    BY <1>1 DEF TimePasses, probe, history, TypeOK
  <1>2. ASSUME NEW s \in Switches, Poll(s)
        PROVE  /\ UNCHANGED <<clock, endpoint, pass, todo, probeNow, live, ready, entries, everReady>>
               /\ \A t \in Switches : /\ LastAttempt'[t] \in {LastAttempt[t], clock}
                                      /\ lostAt'[t] \in {lostAt[t], clock}
    BY <1>2 DEF Poll, FirstPoll, Tick, Lost, Answered, Recorded, Begin, End, probe,
       history, TypeOK
  <1>3. QED
    BY <1>1, <1>2 DEF TypeOK

-----------------------------------------------------------------------------
(* Types                                                                   *)

LEMMA InitTypeOK == Init => TypeOK
  <1> SUFFICES ASSUME Init PROVE TypeOK
    OBVIOUS
  <1>1. offset \in [Switches -> 0 .. PollInterval - 1]
    <2>1. ASSUME NEW s \in Switches PROVE offset[s] \in 0 .. PollInterval - 1
      <3>1. offset[s] \in 0 .. PollInterval /\ offset[s] \in PollOffsets(PollSpacing, s, N, PollInterval)
        BY DEF Init
      <3>2. s \in 0 .. (N - 1)
        BY DEF Switches
      <3>3. 0 <= offset[s] /\ offset[s] < PollInterval
        BY <3>1, <3>2, OffsetsWithinInterval
      <3>4. QED
        BY <3>1, <3>3
    <2>2. QED
      BY <2>1 DEF Init
  <1>2. everReady \in BOOLEAN
    BY Zenon DEF Init
  <1>3. QED
    BY <1>1, <1>2 DEF Init, TypeOK, Verdicts

LEMMA TypeStep == TypeOK /\ [Next]_vars => TypeOK'
  <1> SUFFICES ASSUME TypeOK, [Next]_vars PROVE TypeOK'
    OBVIOUS
  <1> USE DEF TypeOK, Verdicts
  <1>1. ASSUME NEW s \in Switches, FirstPoll(s) PROVE TypeOK'
    BY <1>1 DEF FirstPoll, Begin, probe
  <1>2. ASSUME NEW s \in Switches, Tick(s) PROVE TypeOK'
    BY <1>2, TickerNextBounds DEF Tick, Begin, probe, history
  <1>3. ASSUME NEW s \in Switches, Lost(s) PROVE TypeOK'
    BY <1>3 DEF Lost, End, probe
  <1>4. ASSUME NEW s \in Switches, Answered(s) PROVE TypeOK'
    BY <1>4 DEF Answered, probe, history
  <1>5. ASSUME NEW s \in Switches, Recorded(s) PROVE TypeOK'
    BY <1>5 DEF Recorded, End, probe
  <1>6. CASE TimePasses
    BY <1>6 DEF TimePasses, pollers, probe, history
  <1>7. ASSUME NEW asked \in {"livez", "readyz", "status"}, Ask(asked) PROVE TypeOK'
    BY <1>7 DEF Ask, FirstPass, pollers, history
  <1>8. CASE ReadLive
    BY <1>8 DEF ReadLive, ReadOn, EndPass, After, pollers
  <1>9. CASE ReadReady
    BY <1>9 DEF ReadReady, ReadOn, EndPass, After, pollers
  <1>10. CASE ReadEntry
    <2>1. NextSwitch \in todo /\ todo \in SUBSET Switches
      BY <1>10, NextSwitchInTodo DEF ReadEntry
    <2>2. <<NextSwitch, LastAttempt[NextSwitch] # Never>> \in Switches \X BOOLEAN
      BY <2>1
    <2>3. entries' \in SUBSET (Switches \X BOOLEAN) /\ todo' \in SUBSET Switches
      BY <1>10, <2>1, <2>2 DEF ReadEntry, ReadOn
    <2>4. QED
      BY <1>10, <2>3 DEF ReadEntry, ReadOn, pollers
  <1>11. CASE PassDone
    BY <1>11 DEF PassDone, EndPass, After, pollers
  <1>12. CASE Respond
    BY <1>12 DEF Respond, pollers, history
  <1>13. CASE UNCHANGED vars
    BY <1>13 DEF vars, pollers, probe, history
  <1>14. QED
    BY <1>1, <1>2, <1>3, <1>4, <1>5, <1>6, <1>7, <1>8, <1>9, <1>10, <1>11, <1>12, <1>13
      DEF Next, Poll, Probe

-----------------------------------------------------------------------------
(* Pollers                                                                 *)

\* Where the types of one poller's state are what is asked.
LEMMA PollerType ==
  ASSUME TypeOK, NEW s \in Switches
  PROVE  /\ clock \in Nat /\ offset[s] \in 0 .. PollInterval - 1
         /\ pc[s] \in {"offset", "waiting", "polling", "attempted"}
         /\ nextTick[s] \in Nat /\ deadline[s] \in Nat /\ LastAttempt[s] \in Nat
         /\ firstPoll[s] \in Nat /\ lostAt[s] \in Nat /\ Settled(s) \in Nat
  BY DEF TypeOK, Settled

LEMMA InitPunctual == Init => \A s \in Switches : Punctual(s)
  <1> SUFFICES ASSUME Init, NEW s \in Switches PROVE Punctual(s)
    OBVIOUS
  <1>1. clock = 1 /\ pc[s] = "offset" /\ LastAttempt[s] = 0 /\ lostAt[s] = 0 /\ firstPoll[s] = 0
        /\ nextTick[s] = 0 /\ offset[s] \in PollOffsets(PollSpacing, s, N, PollInterval)
    BY DEF Init
  <1>2. offset[s] \in Nat
    BY InitTypeOK, PollerType
  <1>3. QED
    BY <1>1, <1>2 DEF Punctual, Settled

\* A poller never waits for another one.
LEMMA OthersPunctual ==
  ASSUME TypeOK, NEW s \in Switches, NEW t \in Switches, t # s, Poll(s), Punctual(t)
  PROVE  Punctual(t)'
  <1>1. /\ clock' = clock /\ offset' = offset
        /\ pc'[t] = pc[t] /\ nextTick'[t] = nextTick[t] /\ deadline'[t] = deadline[t]
        /\ LastAttempt'[t] = LastAttempt[t] /\ lostAt'[t] = lostAt[t] /\ firstPoll'[t] = firstPoll[t]
    BY DEF Poll, FirstPoll, Tick, Lost, Answered, Recorded, Begin, End, probe, history, TypeOK
  <1>2. QED
    BY <1>1 DEF Punctual, Settled

LEMMA PunctualStep ==
  ASSUME TypeOK, \A s \in Switches : Punctual(s), [Next]_vars
  PROVE  \A s \in Switches : Punctual(s)'
  <1> SUFFICES ASSUME NEW s \in Switches PROVE Punctual(s)'
    OBVIOUS
  <1>0. Punctual(s) /\ TypeOK'
    BY TypeStep
  <1> USE PollerType
  <1>1. CASE FirstPoll(s)
    <2>1. /\ pc[s] = "offset" /\ pc'[s] = "polling" /\ clock' = clock /\ offset' = offset
          /\ firstPoll'[s] = clock /\ deadline'[s] = clock + MaxPoll
          /\ LastAttempt' = LastAttempt /\ lostAt' = lostAt /\ nextTick' = nextTick
          /\ clock >= 1 + offset[s]
      BY <1>1 DEF FirstPoll, Begin, TypeOK
    <2>2. QED
      BY <1>0, <2>1 DEF Punctual, Settled
  <1>2. CASE Tick(s)
    <2>1. /\ pc[s] = "waiting" /\ pc'[s] = "polling" /\ clock' = clock /\ offset' = offset
          /\ deadline'[s] = clock + MaxPoll /\ nextTick'[s] = TickerNext(nextTick[s])
          /\ LastAttempt' = LastAttempt /\ lostAt' = lostAt /\ firstPoll' = firstPoll
          /\ nextTick[s] <= clock
      BY <1>2 DEF Tick, Begin, TypeOK, history
    <2>2. QED
      BY <1>0, <2>1, TickerNextBounds DEF Punctual, Settled
  <1>3. CASE Lost(s)
    <2>1. /\ pc[s] = "polling" /\ pc'[s] = "waiting" /\ clock' = clock /\ offset' = offset
          /\ nextTick'[s] = IF nextTick[s] = 0 THEN clock + PollInterval ELSE nextTick[s]
          /\ LastAttempt' = LastAttempt /\ lostAt'[s] = clock /\ firstPoll' = firstPoll
      BY <1>3 DEF Lost, End, TypeOK
    <2>2. Settled(s)' = clock
      BY <1>0, <2>1 DEF Punctual, Settled
    <2>3. QED
      BY <1>0, <2>1, <2>2 DEF Punctual
  <1>4. CASE Answered(s)
    <2>1. /\ pc[s] = "polling" /\ pc'[s] = "attempted" /\ clock' = clock /\ offset' = offset
          /\ nextTick' = nextTick /\ LastAttempt'[s] = clock /\ lostAt' = lostAt /\ firstPoll' = firstPoll
      BY <1>4 DEF Answered, TypeOK, history
    <2>2. QED
      BY <1>0, <2>1 DEF Punctual
  <1>5. CASE Recorded(s)
    <2>1. /\ pc[s] = "attempted" /\ pc'[s] = "waiting" /\ clock' = clock /\ offset' = offset
          /\ nextTick'[s] = IF nextTick[s] = 0 THEN clock + PollInterval ELSE nextTick[s]
          /\ LastAttempt' = LastAttempt /\ lostAt' = lostAt /\ firstPoll' = firstPoll
      BY <1>5 DEF Recorded, End, TypeOK
    <2>2. Settled(s)' = clock
      BY <1>0, <2>1 DEF Punctual, Settled
    <2>3. QED
      BY <1>0, <2>1, <2>2 DEF Punctual
  <1>6. ASSUME NEW t \in Switches, t # s, Poll(t) PROVE Punctual(s)'
    BY <1>0, <1>6, OthersPunctual
  <1>7. CASE TimePasses
    <2>1. /\ UNCHANGED <<pc, offset, nextTick, deadline, LastAttempt, lostAt, firstPoll>>
          /\ clock' = clock + 1
          /\ \/ pc[s] = "offset" /\ clock < 1 + offset[s]
             \/ pc[s] = "waiting" /\ clock < nextTick[s]
             \/ pc[s] = "polling" /\ clock < deadline[s]
      BY <1>7 DEF TimePasses, pollers, history
    <2>2. Settled(s)' = Settled(s)
      BY <2>1 DEF Settled
    <2>3. QED
      BY <1>0, <2>1, <2>2 DEF Punctual
  <1>8. CASE Probe \/ UNCHANGED vars
    <2>1. UNCHANGED <<clock, pc, offset, nextTick, deadline, LastAttempt, firstPoll, lostAt>>
      BY <1>8, ProbeReads DEF vars, pollers, history
    <2>2. QED
      BY <1>0, <2>1 DEF Punctual, Settled
  <1>9. QED
    BY <1>1, <1>2, <1>3, <1>4, <1>5, <1>6, <1>7, <1>8 DEF Next, Poll

\* No more than an interval and a poll after the last outcome there is another.
LEMMA OutcomesKeepComing ==
  ASSUME TypeOK, NEW s \in Switches, Punctual(s)
  PROVE  clock <= Settled(s) + PollInterval + MaxPoll
  BY PollerType DEF Punctual, Settled

-----------------------------------------------------------------------------
(* The probe                                                               *)

\* Whatever the pollers do, what a probe has found of a switch stays true.
LEMMA FindingsStay ==
  ASSUME TypeOK, TypeOK', \A s \in Switches : Punctual(s), probeNow <= clock,
         TimePasses \/ \E s \in Switches : Poll(s)
  PROVE  \A s \in Switches : /\ Recent(s) => Recent(s)'
                             /\ Attempted(s) => Attempted(s)'
  <1> SUFFICES ASSUME NEW s \in Switches
               PROVE  (Recent(s) => Recent(s)') /\ (Attempted(s) => Attempted(s)')
    OBVIOUS
  <1>1. LastAttempt'[s] \in {LastAttempt[s], clock} /\ probeNow' = probeNow
    BY PollersMoveOn
  <1>2. probeNow \in Nat /\ clock \in Nat \ {0} /\ LastAttempt[s] \in Nat
    BY DEF TypeOK
  <1>3. QED
    BY <1>1, <1>2, WindowType DEF Recent, Attempted

LEMMA ProbeInvStep ==
  ASSUME TypeOK, \A s \in Switches : Punctual(s), ProbeInv, LiveMeansCycling, [Next]_vars
  PROVE  ProbeInv'
  <1>0. TypeOK'
    BY TypeStep
  <1>1. CASE TimePasses \/ \E s \in Switches : Poll(s)
    <2>1. /\ UNCHANGED <<endpoint, pass, todo, probeNow, live, ready, entries, everReady>>
          /\ clock <= clock' /\ clock' \in Nat /\ clock \in Nat /\ probeNow \in Nat
      BY <1>1, PollersMoveOn DEF TypeOK
    <2>2. \A s \in Switches : (Recent(s) => Recent(s)') /\ (Attempted(s) => Attempted(s)')
      BY <1>0, <1>1, FindingsStay DEF ProbeInv
    <2>3. (\A s \in Switches \ todo : Recent(s)) => (\A s \in Switches \ todo : Recent(s))'
      BY <2>1, <2>2
    <2>4. /\ (\A s \in Switches \ todo : Attempted(s)) => (\A s \in Switches \ todo : Attempted(s))'
          /\ (\A s \in Switches : Attempted(s)) => (\A s \in Switches : Attempted(s))'
      BY <2>1, <2>2
    <2>5. probeNow' <= clock'
      BY <2>1 DEF ProbeInv
    <2>6. QED
      BY <2>1, <2>3, <2>4, <2>5 DEF ProbeInv
  <1>2. CASE Probe
    <2>0. clock' = clock /\ LastAttempt' = LastAttempt
      BY <1>2, ProbeReads
    <2>1. ASSUME NEW asked \in {"livez", "readyz", "status"}, Ask(asked) PROVE ProbeInv'
      BY <2>0, <2>1 DEF Ask, FirstPass, ProbeInv, Recent, Attempted, history, TypeOK
    <2>2. CASE ReadLive
      <3>1. CASE Cycling(NextSwitch)
        <4>1. /\ UNCHANGED <<endpoint, pass, probeNow, live, ready, entries, everReady>>
              /\ todo' = todo \ {NextSwitch} /\ pass = "live"
          BY <2>2, <3>1 DEF ReadLive, ReadOn
        <4>2. NextSwitch \in Switches /\ Recent(NextSwitch)
          BY <2>2, <3>1, NextSwitchInTodo, WindowType, PollerType
            DEF ReadLive, Recent, Cycling, TypeOK
        <4>3. \A s \in Switches \ todo' : Recent(s)'
          BY <2>0, <4>1, <4>2 DEF ProbeInv, Recent
        <4>4. QED
          BY <2>0, <4>1, <4>3 DEF ProbeInv, Attempted
      <3>2. CASE ~Cycling(NextSwitch)
        <4>1. /\ UNCHANGED <<endpoint, probeNow, ready, entries, everReady>>
              /\ pass = "live" /\ live' = "no" /\ pass' = After("live")
              /\ todo' = IF After("live") = "answer" THEN {} ELSE Switches
          BY <2>2, <3>2 DEF ReadLive, EndPass
        <4>2. QED
          BY <2>0, <4>1 DEF ProbeInv, Attempted, After
      <3>3. QED
        BY <3>1, <3>2
    <2>3. CASE ReadReady
      BY <2>0, <2>3, NextSwitchInTodo DEF ReadReady, ReadOn, EndPass, After, ProbeInv,
         Recent, Attempted, TypeOK
    <2>4. CASE ReadEntry
      <3>1. /\ UNCHANGED <<endpoint, pass, probeNow, live, ready, everReady>>
            /\ pass = "entries" /\ todo' = todo \ {NextSwitch}
            /\ entries' = entries \cup {<<NextSwitch, LastAttempt[NextSwitch] # Never>>}
        BY <2>4 DEF ReadEntry, ReadOn
      <3>2. NextSwitch \in todo /\ todo \subseteq Switches
        BY <2>4, NextSwitchInTodo DEF ReadEntry, TypeOK
      <3>3. ready = "yes" => entries' = {<<s, TRUE>> : s \in Switches \ todo'}
        <4>1. ready = "yes" =>
                /\ entries = {<<s, TRUE>> : s \in Switches \ todo}
                /\ entries' = entries \cup {<<NextSwitch, TRUE>>}
          BY <3>1, <3>2 DEF ProbeInv, Attempted
        <4>2. Switches \ todo' = (Switches \ todo) \cup {NextSwitch}
          BY <3>1, <3>2
        <4>3. QED
          BY <4>1, <4>2
      <3>4. QED
        BY <2>0, <3>1, <3>3 DEF ProbeInv, Attempted
    <2>5. CASE PassDone
      BY <2>0, <2>5 DEF PassDone, EndPass, After, ProbeInv, Recent, Attempted, TypeOK
    <2>6. CASE Respond
      BY <2>0, <2>6 DEF Respond, ProbeInv, Recent, Attempted, TypeOK, history
    <2>7. QED
      BY <1>2, <2>1, <2>2, <2>3, <2>4, <2>5, <2>6 DEF Probe
  <1>3. CASE UNCHANGED vars
    BY <1>3 DEF vars, pollers, probe, history, ProbeInv, Recent, Attempted
  <1>4. QED
    BY <1>1, <1>2, <1>3 DEF Next

-----------------------------------------------------------------------------
(* The verdicts                                                            *)

\* A live verdict is given when the last switch was read, and of all of them.
LEMMA LiveStep ==
  ASSUME TypeOK, \A s \in Switches : Punctual(s), ProbeInv, LiveMeansCycling, [Next]_vars
  PROVE  LiveMeansCycling'
  <1>0. LiveMeansCycling <=> (live = "yes" => \A s \in Switches : Recent(s))
    BY DEF LiveMeansCycling, Recent
  <1>1. LiveMeansCycling' <=> (live' = "yes" => \A s \in Switches : Recent(s)')
    BY DEF LiveMeansCycling, Recent
  <1>2. CASE TimePasses \/ \E s \in Switches : Poll(s)
    <2>1. live' = live
      BY <1>2, PollersMoveOn
    <2>2. \A s \in Switches : Recent(s) => Recent(s)'
      BY <1>2, TypeStep, FindingsStay DEF ProbeInv
    <2>3. QED
      BY <1>0, <1>1, <2>1, <2>2
  <1>3. CASE PassDone
    <2>1. /\ UNCHANGED <<LastAttempt, probeNow>> /\ todo = {}
          /\ live' = IF pass = "live" THEN "yes" ELSE live
      BY <1>3 DEF PassDone, EndPass
    <2>2. \A s \in Switches : Recent(s)' <=> Recent(s)
      BY <2>1 DEF Recent
    <2>3. pass = "live" => \A s \in Switches : Recent(s)
      BY <2>1 DEF ProbeInv
    <2>4. QED
      BY <1>0, <1>1, <2>1, <2>2, <2>3
  <1>4. CASE ReadLive \/ ReadReady \/ ReadEntry
    <2>1. UNCHANGED <<LastAttempt, probeNow>> /\ (live' = live \/ live' = "no")
      BY <1>4 DEF ReadLive, ReadReady, ReadEntry, ReadOn, EndPass
    <2>2. QED
      BY <1>0, <1>1, <2>1 DEF Recent
  <1>5. CASE Respond \/ \E asked \in {"livez", "readyz", "status"} : Ask(asked)
    BY <1>5, <1>1 DEF Respond, Ask, ProbeInv
  <1>6. CASE UNCHANGED vars
    BY <1>0, <1>1, <1>6 DEF vars, pollers, probe, Recent
  <1>7. QED
    BY <1>2, <1>3, <1>4, <1>5, <1>6 DEF Next, Probe

\* A switch found not to be cycling had an outcome within the window, so that this
\* was a loss.
LEMMA NotCyclingWasLost ==
  ASSUME TypeOK, NEW s \in Switches, Punctual(s), ProbeInv, PromptPolls, ~Cycling(s)
  PROVE  lostAt[s] # Never /\ lostAt[s] >= probeNow - Window
  <1>1. /\ probeNow \in Nat /\ clock \in Nat /\ probeNow <= clock
        /\ LastAttempt[s] \in Nat /\ lostAt[s] \in Nat
    BY DEF TypeOK, ProbeInv
  <1>2. clock <= Settled(s) + Window
    <2>1. clock <= Settled(s) + PollInterval + MaxPoll
      BY OutcomesKeepComing
    <2>2. QED
      BY <1>1, <2>1, PollerType, WindowType DEF PromptPolls, Window
  <1>3. CASE LastAttempt[s] = Never
    BY <1>1, <1>2, <1>3, WindowType DEF Cycling, Settled
  <1>4. CASE LastAttempt[s] # Never
    BY <1>1, <1>2, <1>4, WindowType DEF Cycling, Settled
  <1>5. QED
    BY <1>3, <1>4

LEMMA DeadStep ==
  ASSUME TypeOK, \A s \in Switches : Punctual(s), ProbeInv, DeadOnlyAfterLostPolls, [Next]_vars
  PROVE  DeadOnlyAfterLostPolls'
  <1> SUFFICES ASSUME PromptPolls, live' = "no"
               PROVE  \E s \in Switches : lostAt'[s] # Never /\ lostAt'[s] >= probeNow' - Window
    BY DEF DeadOnlyAfterLostPolls, PromptPolls, Window
  <1>1. ASSUME live = "no", UNCHANGED <<lostAt, probeNow>>
        PROVE  \E s \in Switches : lostAt'[s] # Never /\ lostAt'[s] >= probeNow' - Window
    BY <1>1 DEF DeadOnlyAfterLostPolls
  <1>2. CASE TimePasses \/ \E s \in Switches : Poll(s)
    <2>1. live = "no" /\ probeNow' = probeNow
      BY <1>2, PollersMoveOn
    <2>2. PICK s \in Switches : lostAt[s] # Never /\ lostAt[s] >= probeNow - Window
      BY <2>1 DEF DeadOnlyAfterLostPolls
    <2>3. lostAt'[s] \in {lostAt[s], clock} /\ lostAt[s] <= clock
      BY <1>2, PollersMoveOn DEF Punctual
    <2>4. lostAt[s] \in Nat /\ clock \in Nat \ {0} /\ probeNow \in Nat
      BY DEF TypeOK
    <2>5. QED
      BY <2>1, <2>2, <2>3, <2>4, WindowType
  <1>3. CASE ReadLive
    <2>1. UNCHANGED <<lostAt, probeNow>> /\ (live = "no" \/ ~Cycling(NextSwitch)) /\ todo # {}
      BY <1>3 DEF ReadLive, ReadOn, EndPass
    <2>2. CASE ~Cycling(NextSwitch)
      <3>1. NextSwitch \in Switches
        BY <2>1, NextSwitchInTodo DEF TypeOK
      <3>2. QED
        BY <2>1, <2>2, <3>1, NotCyclingWasLost
    <2>3. QED
      BY <1>1, <2>1, <2>2
  <1>4. CASE ReadReady \/ ReadEntry \/ PassDone
    <2>1. live = "no" /\ UNCHANGED <<lostAt, probeNow>>
      BY <1>4 DEF ReadReady, ReadEntry, PassDone, ReadOn, EndPass
    <2>2. QED
      BY <1>1, <2>1
  <1>5. ASSUME NEW asked \in {"livez", "readyz", "status"}, Ask(asked) PROVE FALSE
    BY <1>5 DEF Ask, ProbeInv
  <1>6. ~Respond
    BY DEF Respond
  <1>7. CASE UNCHANGED vars
    BY <1>1, <1>7 DEF vars, probe, history
  <1>8. QED
    BY <1>2, <1>3, <1>4, <1>5, <1>6, <1>7 DEF Next, Probe

\* The verdict on readiness, and the report, at the step that gives them.
LEMMA ReadyStep ==
  ASSUME TypeOK, \A s \in Switches : Punctual(s), ProbeInv, ReadyStays, ReportAgreesWithItself,
         [Next]_vars
  PROVE  ReadyStays' /\ ReportAgreesWithItself'
  <1> USE DEF ReadyStays, ReportAgreesWithItself
  <1>1. CASE (TimePasses \/ \E s \in Switches : Poll(s)) \/ UNCHANGED vars
    <2>1. UNCHANGED <<endpoint, pass, ready, entries, everReady>>
      BY <1>1, PollersMoveOn DEF vars, probe, history
    <2>2. QED
      BY <2>1
  <1>2. CASE ReadLive
    BY <1>2 DEF ReadLive, ReadOn, EndPass, After, ProbeInv
  <1>3. CASE ReadReady
    <2>1. NextSwitch \in Switches
      BY <1>3, NextSwitchInTodo DEF ReadReady, TypeOK
    <2>2. everReady => ready' # "no"
      BY <1>3, <2>1 DEF ReadReady, ProbeInv
    <2>3. everReady' = everReady
      BY <1>3 DEF ReadReady
    <2>4. pass' # "answer" \/ ready' # "yes"
      BY <1>3 DEF ReadReady, ReadOn, EndPass, ProbeInv
    <2>5. QED
      BY <2>2, <2>3, <2>4
  <1>4. CASE ReadEntry
    BY <1>4 DEF ReadEntry, ReadOn
  <1>5. CASE PassDone
    BY <1>5 DEF PassDone, EndPass, After, ProbeInv
  <1>6. CASE Respond \/ \E asked \in {"livez", "readyz", "status"} : Ask(asked)
    BY <1>6 DEF Respond, Ask, FirstPass, ProbeInv, history
  <1>7. QED
    BY <1>1, <1>2, <1>3, <1>4, <1>5, <1>6 DEF Next, Probe

-----------------------------------------------------------------------------
(* The theorems                                                            *)

\* The inductive invariant holds in every state the fleet and the probe reach.
THEOREM Invariance == Spec => []IInv
  <1>1. Init => IInv
    <2> SUFFICES ASSUME Init PROVE IInv
      OBVIOUS
    <2>1. TypeOK /\ \A s \in Switches : Punctual(s)
      BY InitTypeOK, InitPunctual
    <2>2. ProbeInv
      BY DEF Init, ProbeInv
    <2>3. LiveMeansCycling /\ DeadOnlyAfterLostPolls /\ ReadyStays /\ ReportAgreesWithItself
      BY DEF Init, LiveMeansCycling, DeadOnlyAfterLostPolls, ReadyStays, ReportAgreesWithItself
    <2>4. QED
      BY <2>1, <2>2, <2>3 DEF IInv
  <1>2. IInv /\ [Next]_vars => IInv'
    BY TypeStep, PunctualStep, ProbeInvStep, LiveStep, DeadStep, ReadyStep DEF IInv
  <1>3. QED
    BY <1>1, <1>2, PTL DEF Spec

\* Every variable keeps its type; that offsets stay within the first interval is
\* PollOffset's doing.
THEOREM TypeCorrect == Spec => []TypeOK
  <1>1. IInv => TypeOK
    BY DEF IInv
  <1>2. QED
    BY <1>1, Invariance, PTL

\* A fleet of any size makes its first polls within the first interval, each
\* switch after the ones configured before it (PollOffset and PollLoop,
\* collector.go): the random part of an offset never reorders two of them.
THEOREM StartsAreStaggered == Spec => []FirstPollsStaggered
  <1>1. ASSUME IInv, NEW s \in Switches, firstPoll[s] # Never
        PROVE  firstPoll[s] = Startup + offset[s]
    BY <1>1 DEF IInv, Punctual
  <1>2. ASSUME IInv, NEW s \in Switches, firstPoll[s] # Never
        PROVE  firstPoll[s] < Startup + PollInterval
    BY <1>1, <1>2, PollerType DEF IInv
  <1>3. ASSUME IInv, Spacing(PollSpacing, N, PollInterval) > 0,
               NEW s \in Switches, NEW t \in Switches, s < t, firstPoll[t] # Never
        PROVE  firstPoll[s] # Never /\ firstPoll[s] < firstPoll[t]
    <2>1. /\ offset[s] \in PollOffsets(PollSpacing, s, N, PollInterval)
          /\ offset[t] \in PollOffsets(PollSpacing, t, N, PollInterval)
      BY <1>3 DEF IInv, Punctual
    <2>2. s \in 0 .. (N - 1) /\ t \in 0 .. (N - 1) /\ N \in Nat \ {0, 1}
      BY <1>3 DEF Switches
    <2>3. offset[s] < offset[t]
      BY <1>3, <2>1, <2>2, OffsetsKeepOrder
    <2>4. /\ firstPoll[t] = Startup + offset[t] /\ firstPoll[t] <= clock
          /\ clock \in Nat /\ offset[s] \in Nat /\ offset[t] \in Nat
      BY <1>1, <1>3, PollerType DEF IInv, Punctual
    <2>5. firstPoll[s] # Never
      BY <1>3, <2>3, <2>4 DEF IInv, Punctual
    <2>6. QED
      BY <1>1, <1>3, <2>3, <2>4, <2>5
  <1>4. IInv => FirstPollsStaggered
    BY <1>2, <1>3 DEF FirstPollsStaggered
  <1>5. QED
    BY <1>4, Invariance, PTL

\* /livez vouches for a fleet it never saw at one moment (health.go, Live): what it
\* found of a switch is still true when it has read the last one.
THEOREM LiveIsTrueOfAll == Spec => []LiveMeansCycling
  <1>1. IInv => LiveMeansCycling
    BY DEF IInv
  <1>2. QED
    BY <1>1, Invariance, PTL

\* As long as a poll fits the window, /livez answers 503 only if a poll was lost
\* within it, however many switches there are and however they interleave.
THEOREM OnlyLossesKill == Spec => []DeadOnlyAfterLostPolls
  <1>1. IInv => DeadOnlyAfterLostPolls
    BY DEF IInv
  <1>2. QED
    BY <1>1, Invariance, PTL

\* Once ready, always ready (health.go, Ready): nothing resets LastAttempt.
THEOREM ReadinessIsForGood == Spec => []ReadyStays
  <1>1. IInv => ReadyStays
    BY DEF IInv
  <1>2. QED
    BY <1>1, Invariance, PTL

\* Report reads the store three times without a lock in between, and its parts
\* agree nonetheless: a ready report lists no switch as never attempted.
THEOREM ReportsAgree == Spec => []ReportAgreesWithItself
  <1>1. IInv => ReportAgreesWithItself
    BY DEF IInv
  <1>2. QED
    BY <1>1, Invariance, PTL

-----------------------------------------------------------------------------
(* The fleet as the sum of its loops                                       *)

\* All but the poller of s stays as it is, and what is lost is written down.
OnlyPoller(s) ==
  /\ pc' = [pc EXCEPT ![s] = pc'[s]]
  /\ nextTick' = [nextTick EXCEPT ![s] = nextTick'[s]]
  /\ deadline' = [deadline EXCEPT ![s] = deadline'[s]]
  /\ LastAttempt' = [LastAttempt EXCEPT ![s] = LastAttempt'[s]]
  /\ firstPoll' = [firstPoll EXCEPT ![s] = firstPoll'[s]]
  /\ lostAt' = [lostAt EXCEPT ![s] = IF pc[s] = "polling" /\ pc'[s] = "waiting"
                                     THEN clock ELSE @]
  /\ UNCHANGED <<clock, offset, probe, everReady>>

\* What a poller of the fleet can do is what PollLoop can do on its own: no more, and
\* no less, whatever the other pollers and the probes are at.
THEOREM PollersAreLoops ==
  ASSUME TypeOK, NEW s \in Switches
  PROVE  Poll(s) <=> Loop(s)!Poll /\ OnlyPoller(s)
  <1> USE DEF Loop!Begin, Loop!End, Loop!Startup, Loop!Never, OnlyPoller, probe, history, pollers
  <1>1. FirstPoll(s) <=> Loop(s)!FirstPoll /\ OnlyPoller(s)
    BY DEF FirstPoll, Begin, Loop!FirstPoll, TypeOK
  <1>2. Tick(s) <=> Loop(s)!Tick /\ OnlyPoller(s)
    BY DEF Tick, Begin, TickerNext, Loop!Tick, TypeOK
  <1>3. Lost(s) <=> Loop(s)!Lost /\ OnlyPoller(s)
    BY DEF Lost, End, Loop!Lost, TypeOK
  <1>4. Answered(s) <=> Loop(s)!Answered /\ OnlyPoller(s)
    BY DEF Answered, Loop!Answered, TypeOK
  <1>5. Recorded(s) <=> Loop(s)!Recorded /\ OnlyPoller(s)
    BY DEF Recorded, End, Loop!Recorded, TypeOK
  <1>6. QED
    BY <1>1, <1>2, <1>3, <1>4, <1>5 DEF Poll, Loop!Poll

\* Time passes for the fleet when it does for every loop.
THEOREM TimeIsOfAll ==
  ASSUME TypeOK
  PROVE  TimePasses <=> /\ \A s \in Switches : Loop(s)!TimePasses
                        /\ UNCHANGED <<pollers, LastAttempt, probe, history>>
  <1> USE DEF pollers, history
  <1>1. \A s \in Switches :
           Loop(s)!Idle <=> \/ pc[s] = "offset" /\ clock < Startup + offset[s]
                            \/ pc[s] = "waiting" /\ clock < nextTick[s]
                            \/ pc[s] = "polling" /\ clock < deadline[s]
    BY DEF TypeOK, Loop!Idle, Loop!Startup
  <1>2. 0 \in Switches
    BY DEF Switches
  <1>3. ASSUME TimePasses, NEW s \in Switches PROVE Loop(s)!TimePasses
    BY <1>1, <1>3 DEF TimePasses, Loop!TimePasses
  <1>4. ASSUME \A s \in Switches : Loop(s)!TimePasses,
               UNCHANGED <<pollers, LastAttempt, probe, history>>
        PROVE  TimePasses
    BY <1>1, <1>2, <1>4 DEF TimePasses, Loop!TimePasses
  <1>5. QED
    BY <1>3, <1>4 DEF TimePasses

-----------------------------------------------------------------------------
\* A step of one poller leaves the loops of the others alone.
LEMMA LoopsStep ==
  ASSUME TypeOK, [Next]_vars, NEW s \in Switches
  PROVE  [Loop(s)!Next]_(Loop(s)!vars)
  <1>1. ASSUME NEW t \in Switches, Poll(t) PROVE [Loop(s)!Next]_(Loop(s)!vars)
    <2>1. Loop(t)!Poll /\ OnlyPoller(t)
      BY <1>1, PollersAreLoops
    <2>2. CASE s = t
      BY <2>1, <2>2 DEF Loop!Next
    <2>3. CASE s # t
      BY <2>1, <2>3 DEF OnlyPoller, Loop!vars, TypeOK
    <2>4. QED
      BY <2>2, <2>3
  <1>2. CASE Probe
    BY <1>2, ProbeReads DEF Loop!vars
  <1>3. CASE TimePasses
    BY <1>3, TimeIsOfAll DEF Loop!Next
  <1>4. CASE UNCHANGED vars
    BY <1>4 DEF vars, pollers, history, Loop!vars
  <1>5. QED
    BY <1>1, <1>2, <1>3, <1>4 DEF Next

\* Every switch of the fleet is polled as PollLoop says, which is what Poller does.
THEOREM FleetImplementsPollLoops == Spec => ImplementsPollLoops
  <1>1. Init => \A s \in Switches : Loop(s)!Init
    BY DEF Init, Loop!Init, Loop!Startup, Loop!Never
  <1>2. TypeOK /\ [Next]_vars => [\A s \in Switches : [Loop(s)!Next]_(Loop(s)!vars)]_vars
    BY LoopsStep
  <1>3. QED
    BY <1>1, <1>2, TypeCorrect, PTL DEF Spec, ImplementsPollLoops
=============================================================================
