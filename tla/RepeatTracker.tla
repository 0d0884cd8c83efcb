---------------------------- MODULE RepeatTracker ----------------------------
(***************************************************************************)
(* repeat.go: a switch that stays broken is logged when its failure        *)
(* changes and then once every SummaryEvery polls.  `since' only words the *)
(* log line and is left out.                                               *)
(***************************************************************************)
EXTENDS Naturals

CONSTANTS SummaryEvery,   \* failures between two summary lines
          NoMessage       \* the empty string: nothing is failing

Quiet == [last |-> NoMessage, count |-> 0, sinceLastReport |-> 0]

\* The tracker after a poll failed with msg.
Observe(tracker, msg) ==
  IF msg # tracker.last
  THEN [last |-> msg, count |-> 1, sinceLastReport |-> 0]
  ELSE LET n == tracker.sinceLastReport + 1
       IN  [tracker EXCEPT !.count = @ + 1,
                           !.sinceLastReport = IF n < SummaryEvery THEN n ELSE 0]

\* Not the code: one failure too late.
ReportsLate(tracker, msg) ==
  msg # tracker.last \/ tracker.sinceLastReport + 1 > SummaryEvery

\* Whether that failure is logged.
Reports(tracker, msg) ==
  msg # tracker.last \/ tracker.sinceLastReport + 1 >= SummaryEvery

\* The tracker after a poll with no failure.
Recovered(tracker) == IF tracker.count = 0 THEN tracker ELSE Quiet
=============================================================================
