---------------------------- MODULE MCPublication ----------------------------
(***************************************************************************)
(* Publication on small switches.                                          *)
(***************************************************************************)
EXTENDS Publication

\* Two commands of which the slower one is due between two ticks.
Two == {"version", "slow"}
TwoPosition == [c \in Two |-> IF c = "version" THEN 0 ELSE 1]
TwoInterval == [c \in Two |-> IF c = "version" THEN 3 ELSE 5]

\* As slow, of polls that may take twice as long: due at every other tick or at the
\* next, and at one of four ticks to the unit.
LongInterval == [c \in Two |-> IF c = "version" THEN 6 ELSE 8]
=============================================================================
