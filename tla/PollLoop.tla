------------------------------ MODULE PollLoop ------------------------------
(***************************************************************************)
(* What one poller promises to those who wait for it (the probes, and the  *)
(* process that stops it), with no word of what it asks the switch: when   *)
(* it polls, how long a poll may take, and which polls count as attempts.  *)
(*                                                                         *)
(* Poller implements it, request by request, and Fleet is made of as many  *)
(* of these loops as there are switches.                                   *)
(***************************************************************************)
EXTENDS Integers

CONSTANTS
  PollInterval,   \* the period of the ticker
  MaxPoll,        \* how long a poll may take, retries and rotations included
  MaxClock        \* the bound on time, for TLC

VARIABLES
  clock,          \* wall-clock time, from the start of the process
  cancelled,      \* the context the poller watches is done
  pc,             \* what the poller is doing
  offset,         \* how long after the start of the process the first poll is
  nextTick,       \* when the ticker fires next; Never before it exists
  deadline,       \* when the poll in flight is over at the latest
  LastAttempt,    \* when a poll last came to an outcome that counts as one
  firstPoll       \* when the first poll began

vars == <<clock, cancelled, pc, offset, nextTick, deadline, LastAttempt, firstPoll>>

Never == 0
Startup == 1

Init ==
  /\ clock = Startup
  /\ cancelled = FALSE
  /\ pc = "offset"
  /\ offset \in Nat
  /\ nextTick = Never /\ deadline = Never
  /\ LastAttempt = Never /\ firstPoll = Never

Begin ==
  /\ pc' = "polling"
  /\ deadline' = clock + MaxPoll
  /\ UNCHANGED <<clock, cancelled, offset, LastAttempt>>

FirstPoll ==
  /\ pc = "offset"
  /\ clock >= Startup + offset
  /\ Begin
  /\ firstPoll' = clock
  /\ UNCHANGED nextTick

\* Ticks due while a poll was in flight are dropped, but for the first, which is
\* handled late.
Tick ==
  /\ pc = "waiting"
  /\ clock >= nextTick
  /\ Begin
  /\ nextTick' = nextTick + PollInterval * (1 + (clock - nextTick) \div PollInterval)
  /\ UNCHANGED firstPoll

\* The ticker is made when the first poll has ended.
End ==
  /\ pc' = "waiting"
  /\ nextTick' = IF nextTick = Never THEN clock + PollInterval ELSE nextTick
  /\ deadline' = Never
  /\ UNCHANGED <<clock, cancelled, offset, LastAttempt, firstPoll>>

\* A poll that never got an answer is not an attempt; any other is, just before its
\* outcome is recorded.
Lost == pc = "polling" /\ End

Answered ==
  /\ pc = "polling"
  /\ LastAttempt' = clock
  /\ pc' = "attempted"
  /\ UNCHANGED <<clock, cancelled, offset, nextTick, deadline, firstPoll>>

Recorded == pc = "attempted" /\ End

Poll == FirstPoll \/ Tick \/ Lost \/ Answered \/ Recorded

Cancel ==
  /\ ~cancelled
  /\ cancelled' = TRUE
  /\ UNCHANGED <<clock, pc, offset, nextTick, deadline, LastAttempt, firstPoll>>

\* Only between polls, and not instead of a first poll there is no wait for.
Stop ==
  /\ cancelled
  /\ pc = "waiting" \/ (pc = "offset" /\ offset > 0)
  /\ pc' = "stopped"
  /\ UNCHANGED <<clock, cancelled, offset, nextTick, deadline, LastAttempt, firstPoll>>

\* The loop takes no time but to wait and to poll, and is late for nothing.
Idle ==
  \/ pc = "offset" /\ clock < Startup + offset /\ ~cancelled
  \/ pc = "waiting" /\ clock < nextTick /\ ~cancelled
  \/ pc = "polling" /\ clock < deadline
  \/ pc = "stopped"

TimePasses ==
  /\ Idle
  /\ clock < MaxClock
  /\ clock' = clock + 1
  /\ UNCHANGED <<cancelled, pc, offset, nextTick, deadline, LastAttempt, firstPoll>>

Next == Poll \/ Cancel \/ Stop \/ TimePasses

Spec == Init /\ [][Next]_vars
=============================================================================
