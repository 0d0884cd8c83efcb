----------------------------- MODULE Scheduling -----------------------------
(***************************************************************************)
(* The arithmetic of the poll schedule: when a command is due, when it is  *)
(* due next, and where in the interval each switch's poller starts.        *)
(*                                                                         *)
(* Times are natural numbers in whatever unit the caller chooses.  Go's    *)
(* zero time.Time, and a key a map does not hold, are the time Never.      *)
(***************************************************************************)
EXTENDS Integers

Never == 0

\* Not the code: After for !Before.
IsDueAfter(nextDue, now) == nextDue = Never \/ nextDue < now

\* A command no poll has issued yet is due; any other once its time has come.
IsDue(nextDue, now) == nextDue = Never \/ nextDue <= now

\* Not the code: a late command starts a phase of its own.
DeadlineFromNow(interval, previous, now) ==
  IF interval <= 0 THEN now ELSE now + interval

\* The deadline a command gets when it is issued at now.  It moves on from
\* the previous deadline, and over every deadline already missed, so that a
\* late poll does not shift the phase the commands share.
NextDeadline(interval, previous, now) ==
  LET next == previous + interval
      late == now - next
  IN  IF interval <= 0 THEN now
      ELSE IF previous = Never THEN now + interval
      ELSE IF next > now THEN next
      ELSE now + (interval - (late % interval))

-----------------------------------------------------------------------------
\* Not the code: as far apart as can be.
SpacingUncapped(pollSpacing, n, interval) == pollSpacing

\* How far apart n pollers start: never so far that the last of them would
\* start an interval late.
Spacing(pollSpacing, n, interval) ==
  IF pollSpacing > interval \div n THEN interval \div n ELSE pollSpacing

\* The random part moves a start by less than a third of the spacing; rand is
\* what rand.Int64N(2*jitter) returned.
Jitters(spacing) ==
  LET jitter == spacing \div 3
  IN  IF jitter > 0 THEN { rand - jitter : rand \in 0 .. (2 * jitter - 1) } ELSE {0}

\* The delays the i-th of n pollers may be given.
PollOffsets(pollSpacing, i, n, interval) ==
  IF i <= 0 \/ n <= 1 \/ interval <= 0
  THEN {0}
  ELSE LET spacing == Spacing(pollSpacing, n, interval)
           Clamp(offset) == IF offset < 0 THEN 0
                            ELSE IF offset >= interval THEN offset % interval
                            ELSE offset
       IN  { Clamp(i * spacing + shift) : shift \in Jitters(spacing) }
=============================================================================
